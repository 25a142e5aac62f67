-------------------------- MODULE MCProcessWatch --------------------------
(***************************************************************************)
(* Instances of ProcessWatch for TLC.  One program of each kind: one under *)
(* the Windows directory, one the first line of the list names, one that   *)
(* its second line names, which GetParamsFromFile does not find.           *)
(***************************************************************************)
EXTENDS ProcessWatch, TLC

CONSTANTS p1, p2, p3

MCSpace    == {"NL"}
MCPrograms == {<<"svchost">>, <<"word">>, <<"mail">>}
MCSystem   == {<<"svchost">>}
MCUnknown  == <<"<unknown>">>
MCLists    == {<<"word", "NL", "mail">>}
MCChar     == {":", "NL", "svchost", "word", "mail", "<unknown>"}

\* No action tells one pid from another.
AnyPid == Permutations(Pids)

NoFailures == {}

AllFailures == FailureKinds

\* What makes a safe process look dangerous, and no dangerous one look safe;
\* and what ends the program after the scan.
Misread == {"modules", "rewrite", "read", "apartment"}
===========================================================================
