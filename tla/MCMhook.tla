------------------------------ MODULE MCMhook ------------------------------
(* Instances of Mhook for TLC.                                             *)
EXTENDS Mhook

CONSTANTS t1, t2, t3

\* Nothing fails: the sleeps are long enough for a thread to leave the prefix.
NoFailures == {}

=============================================================================
