----------------------------- MODULE AtomicHook -----------------------------
(***************************************************************************)
(* What the threads of a process may see of the hook: CreateFileW is       *)
(* hooked in one step, at some time.  A call that began before runs the    *)
(* function as it was.  A call that begins later runs HookCreateFile,      *)
(* which checks the name and then answers or opens the file.               *)
(***************************************************************************)
CONSTANT Threads

VARIABLES
    hooked,     \* the function is hooked
    at          \* where each thread is

vars == <<hooked, at>>

Init ==
    /\ hooked = FALSE
    /\ at \in [Threads -> {"app", "answering"}]

Hook ==
    /\ ~hooked
    /\ hooked' = TRUE
    /\ UNCHANGED at

Move(t, from, to) ==
    /\ at[t] = from
    /\ at' = [at EXCEPT ![t] = to]
    /\ UNCHANGED hooked

Call(t)   == Move(t, "app", "called")
Answer(t) == ~hooked /\ Move(t, "called", "answering")
Check(t)  == hooked /\ Move(t, "called", "checking")
Judge(t)  == Move(t, "checking", "checked")
Refuse(t) == Move(t, "checked", "answering")
Open(t)   == Move(t, "checked", "opening")
Opened(t) == Move(t, "opening", "answering")
Return(t) == Move(t, "answering", "app")

Next ==
    \/ Hook
    \/ \E t \in Threads :
         \/ Call(t) \/ Answer(t) \/ Check(t) \/ Judge(t)
         \/ Refuse(t) \/ Open(t) \/ Opened(t) \/ Return(t)

Spec == Init /\ [][Next]_vars

=============================================================================
