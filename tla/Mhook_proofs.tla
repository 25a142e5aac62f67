---------------------------- MODULE Mhook_proofs ----------------------------
(***************************************************************************)
(* Theorems about Mhook_SetHook, for any threads and any number of frames: *)
(* its types, that it leaves no thread suspended, and all of a hook or     *)
(* nothing of it, whatever fails; and, when the threads can be          *)
(* suspended, that none of them ever runs a torn instruction and that the  *)
(* hook is there from one moment to the next.                              *)
(***************************************************************************)
EXTENDS Mhook, SequenceTheorems, TLAPS

\* The threads the hooking thread keeps suspended.
Held == handles \cup IF pc = "inspect" THEN {current} ELSE {}

LookingAt == {"inspect", "asleep"}
Early     == {"start", "snapshot", "malloc"}

(***************************************************************************)
(* What a suspend count is made of.  The threads not looked at yet, the    *)
(* one that is looked at and those whose handle is kept are different      *)
(* ones, so that none is suspended twice.  One that slipped away is not    *)
(* suspended as often as the handles say.                                  *)
(***************************************************************************)
Counted ==
    \A t \in Threads :
        LET due == Suspensions(t) + IF t \in Held THEN 1 ELSE 0
        IN  suspendCount[t] <= due /\ (suspendCount[t] < due => t \in slipped)

CountInv ==
    /\ Counted
    /\ pending \cap handles = {}
    /\ pc \in LookingAt => current \in Threads \ (pending \cup handles)
    /\ pc \in Early \cup {"done"} => handles = {}
    /\ pc = "asleep" => tries < MaxTries

\* A thread in HookCreateFile has a frame of it.
FramesInv == \A t \in Threads : ip[t] = "hook" => frames[t] # <<>>

(***************************************************************************)
(* How far the hook is placed: a jump is written only to a whole           *)
(* trampoline, and from then on to the caller's pointer nothing fails.     *)
(***************************************************************************)
Placed(c, t, n, a) == code = c /\ trampoline = t /\ inUse = n /\ actual = a
Nothing == Placed("original", "none", 0, "system")
Whole   == Placed("jump", "written", 1, "trampoline")

PlacedInv ==
    CASE pc \in {"protect", "trampoline"} -> Placed("original", "reserved", 1, "system")
      [] pc = "opcode"                    -> Placed("original", "written", 1, "system")
      [] pc = "displacement"              -> Placed("torn", "written", 1, "system")
      [] pc = "publish"                   -> Placed("jump", "written", 1, "system")
      [] pc \in {"resume", "done"}        -> Nothing \/ Whole
      [] OTHER                            -> Nothing

MhookInv == TypeOK /\ CountInv /\ FramesInv /\ PlacedInv

-----------------------------------------------------------------------------
(* Types and suspend counts.                                               *)

\* Appending to the frames of a thread, and taking the last one off.
LEMMA FramesPush ==
    ASSUME NEW s \in Seq({"check", "open"}), NEW x \in {"check", "open"}
    PROVE  /\ Append(s, x) \in Seq({"check", "open"})
           /\ Append(s, x) # <<>>
           /\ Len(Append(s, x)) = Len(s) + 1
           /\ Last(Append(s, x)) = x
BY AppendProperties DEF Last

LEMMA FramesPop ==
    ASSUME NEW s \in Seq({"check", "open"}), s # <<>>
    PROVE  /\ Front(s) \in Seq({"check", "open"})
           /\ Len(Front(s)) = Len(s) - 1
           /\ Last(s) \in {"check", "open"}
<1>1. Len(s) \in Nat \ {0}
  BY EmptySeq, LenProperties
<1>2. \A i \in 1 .. Len(s) - 1 : s[i] \in {"check", "open"}
  BY <1>1, ElementOfSeq
<1>3. SubSeq(s, 1, Len(s) - 1) \in Seq({"check", "open"})
  BY <1>1, <1>2, SubSeqProperties
<1>4. Len(SubSeq(s, 1, Len(s) - 1)) = Len(s) - 1
  <2>. DEFINE n == Len(s) - 1
  <2>1. n \in Nat
    BY <1>1
  <2>2. Len(SubSeq(s, 1, n)) = IF 1 <= n THEN n - 1 + 1 ELSE 0
    BY <1>2, <2>1, SubSeqProperties
  <2>. QED BY <2>1, <2>2
<1>. QED BY <1>1, <1>3, <1>4, ElementOfSeq DEF Front, Last

\* Nothing is suspended at first.
LEMMA MhookInit == Init => MhookInv
<1>. SUFFICES ASSUME Init PROVE MhookInv
  OBVIOUS
<1>1. \A t \in Threads : frames[t] = <<>> /\ <<>> \in Seq({"check", "open"})
  BY DEF Init
<1>2. frames \in [Threads -> Seq({"check", "open"})]
  BY <1>1 DEF Init
<1>3. TypeOK
  <2>1. ip \in [Threads -> {"app", "entry", "prefix", "body", "hook"}]
    BY DEF Init
  <2>2. suspendCount \in [Threads -> 0 .. 2]
    BY DEF Init, Suspensions
  <2>3. tries \in 0 .. MaxTries /\ inUse \in 0 .. 1
    BY DEF Init, MaxTries
  <2>. QED BY <1>2, <2>1, <2>2, <2>3 DEF Init, TypeOK, Locations
<1>4. CountInv
  BY DEF Init, CountInv, Counted, Held, Suspensions, LookingAt, Early, MaxTries
<1>5. FramesInv
  BY DEF Init, FramesInv
<1>6. PlacedInv
  BY DEF Init, PlacedInv, Placed, Nothing
<1>. QED BY <1>3, <1>4, <1>5, <1>6 DEF MhookInv

\* The counts stay right when a thread that was held is resumed, and when one
\* that was not is suspended, or slips away instead.
LEMMA OneResumed ==
    ASSUME suspendCount \in [Threads -> 0 .. 2], Counted, NEW t \in Threads,
           t \in Held, Held' = Held \ {t}, slipped' = slipped, Resume(t)
    PROVE  suspendCount' \in [Threads -> 0 .. 2] /\ Counted'
<1>1. suspendCount' = [suspendCount EXCEPT ![t] = IF @ = 0 THEN 0 ELSE @ - 1]
  BY DEF Resume
<1>2. \A u \in Threads : suspendCount[u] \in 0 .. 2 /\ Suspensions(u) \in {0, 1}
  BY DEF Suspensions
<1>3. suspendCount' \in [Threads -> 0 .. 2]
  BY <1>1, <1>2
<1>. QED BY <1>1, <1>2, <1>3 DEF Counted

LEMMA OneSuspended ==
    ASSUME suspendCount \in [Threads -> 0 .. 2], Counted, NEW t \in Threads,
           t \notin Held, Held' = Held \cup {t},
           \/ Suspend(t) /\ slipped' = slipped
           \/ UNCHANGED suspendCount /\ slipped' = slipped \cup {t}
    PROVE  suspendCount' \in [Threads -> 0 .. 2] /\ Counted'
<1>1. \A u \in Threads : suspendCount[u] \in 0 .. 2 /\ Suspensions(u) \in {0, 1}
  BY DEF Suspensions
<1>2. suspendCount[t] <= Suspensions(t)
  BY <1>1 DEF Counted
<1>3. suspendCount' \in [Threads -> 0 .. 2]
  BY <1>1, <1>2 DEF Suspend
<1>. QED BY <1>1, <1>2, <1>3 DEF Counted, Suspend

\* SuspendOtherThreads and SuspendOneThread count each thread once.
LEMMA SuspendSuspending ==
    ASSUME MhookInv, Suspending PROVE MhookInv'
<1>. USE ThreadsAssumption
     DEF MhookInv, TypeOK, CountInv, FramesInv, Locations, MaxTries,
         Held, LookingAt, Early, PlacedInv, Placed, Nothing, Whole,
         suspending, hook, threads
<1>1. CASE TakeSnapshot
  BY <1>1 DEF Counted, TakeSnapshot
<1>2. CASE AllocateHandles
  BY <1>2 DEF Counted, AllocateHandles
<1>3. CASE SuspendThread
  <2>1. PICK t \in pending : Suspend(t) /\ current' = t /\ pending' = pending \ {t}
    BY <1>3 DEF SuspendThread
  <2>2. t \in Threads /\ t \notin Held /\ Held' = Held \cup {t} /\ slipped' = slipped
    BY <1>3, <2>1 DEF SuspendThread
  <2>3. suspendCount' \in [Threads -> 0 .. 2] /\ Counted'
    BY <2>1, <2>2, OneSuspended
  <2>. QED BY <1>3, <2>1, <2>3 DEF SuspendThread
<1>4. CASE SkipThread
  BY <1>4 DEF Counted, SkipThread
<1>5. CASE KeepSuspended
  BY <1>5 DEF Counted, KeepSuspended
<1>6. CASE LetItMove
  <2>1. /\ current \in Threads /\ Resume(current)
        /\ current \in Held /\ Held' = Held \ {current} /\ slipped' = slipped
    BY <1>6 DEF LetItMove
  <2>2. suspendCount' \in [Threads -> 0 .. 2] /\ Counted'
    BY <2>1, OneResumed
  <2>. QED BY <1>6, <2>1, <2>2 DEF LetItMove
<1>7. CASE LookAgain
  <2>1. /\ current \in Threads /\ current \notin Held /\ Held' = Held \cup {current}
        /\ \/ Suspend(current) /\ slipped' = slipped
           \/ UNCHANGED suspendCount /\ slipped' = slipped \cup {current}
    BY <1>7 DEF LookAgain
  <2>2. suspendCount' \in [Threads -> 0 .. 2] /\ Counted'
    BY <2>1, OneSuspended
  <2>. QED BY <1>7, <2>1, <2>2 DEF LookAgain
<1>8. CASE GiveUp
  <2>1. /\ current \in Threads /\ Resume(current)
        /\ current \in Held /\ Held' = Held \ {current} /\ slipped' = slipped
    BY <1>8 DEF GiveUp
  <2>2. suspendCount' \in [Threads -> 0 .. 2] /\ Counted'
    BY <2>1, OneResumed
  <2>. QED BY <1>8, <2>1, <2>2 DEF GiveUp
<1>9. CASE AllSuspended
  BY <1>9 DEF Counted, AllSuspended
<1>. QED BY <1>1, <1>2, <1>3, <1>4, <1>5, <1>6, <1>7, <1>8, <1>9 DEF Suspending

\* Placing the jump and resuming the threads.
LEMMA PlacePlacing ==
    ASSUME MhookInv, DisassembleAndSkip \/ Placing \/ ResumeThread \/ ResumeOtherThreads
    PROVE  MhookInv'
<1>. USE ThreadsAssumption
     DEF MhookInv, TypeOK, CountInv, FramesInv, Locations, MaxTries,
         Held, LookingAt, Early, PlacedInv, Placed, Nothing, Whole,
         suspending, hook, threads
<1>1. CASE DisassembleAndSkip
  BY <1>1 DEF Counted, DisassembleAndSkip
<1>2. CASE TrampolineAlloc
  BY <1>2 DEF Counted, TrampolineAlloc
<1>3. CASE Unprotect
  BY <1>3 DEF Counted, Unprotect, TrampolineFree
<1>4. CASE WriteTrampoline
  BY <1>4 DEF Counted, WriteTrampoline
<1>5. CASE EmitOpcode
  BY <1>5 DEF Counted, EmitOpcode
<1>6. CASE EmitDisplacement
  BY <1>6 DEF Counted, EmitDisplacement
<1>7. CASE Publish
  BY <1>7 DEF Counted, Publish
<1>8. CASE ResumeThread
  <2>1. PICK t \in handles : Resume(t) /\ handles' = handles \ {t}
    BY <1>8 DEF ResumeThread
  <2>2. t \in Threads /\ t \in Held /\ Held' = Held \ {t} /\ slipped' = slipped
    BY <1>8, <2>1 DEF ResumeThread
  <2>3. suspendCount' \in [Threads -> 0 .. 2] /\ Counted'
    BY <2>1, <2>2, OneResumed
  <2>. QED BY <1>8, <2>1, <2>3 DEF ResumeThread
<1>9. CASE ResumeOtherThreads
  BY <1>9 DEF Counted, ResumeOtherThreads
<1>. QED BY <1>1, <1>2, <1>3, <1>4, <1>5, <1>6, <1>7, <1>8, <1>9 DEF Placing

\* What the other threads do leaves the hooking thread's part alone.
LEMMA ThreadsStep ==
    ASSUME MhookInv, NEW t \in Threads, Thread(t)
    PROVE  MhookInv'
<1>. USE DEF suspending, hook
<1>1. UNCHANGED <<pc, suspending, hook, suspendCount>>
  BY DEF Thread, Continue
<1>2. CountInv' /\ PlacedInv'
  BY <1>1 DEF MhookInv, CountInv, Counted, Held, PlacedInv, Placed, Nothing, Whole
<1>3. frames[t] \in Seq({"check", "open"})
  BY DEF MhookInv, TypeOK
<1>4. /\ ip' \in [Threads -> {"app", "entry", "prefix", "body", "hook"}]
      /\ frames' \in [Threads -> Seq({"check", "open"})]
      /\ heap' \in Threads \cup {Nobody}
      /\ crashed' \in BOOLEAN
      /\ FramesInv'
  <2>. USE DEF MhookInv, TypeOK, FramesInv, Goto, Crash
  <2>1. CASE Call(t)
    BY <2>1 DEF Call
  <2>2. CASE Enter(t)
    <3>1. CASE Push(t, "check") /\ Goto(t, "hook") /\ UNCHANGED <<heap, crashed>>
      BY <3>1, <1>3, FramesPush DEF Push
    <3>2. CASE Goto(t, "prefix") /\ UNCHANGED <<frames, heap, crashed>>
      BY <3>2
    <3>3. CASE Crash
      BY <3>3
    <3>. QED BY <2>2, <3>1, <3>2, <3>3 DEF Enter
  <2>3. CASE Proceed(t)
    BY <2>3 DEF Proceed
  <2>4. CASE ActualCreateFile(t)
    BY <2>4 DEF ActualCreateFile
  <2>5. CASE Refuse(t)
    BY <2>5, <1>3, FramesPop DEF Refuse, Pop
  <2>6. CASE Return(t)
    <3>1. CASE frames[t] = <<>> /\ Goto(t, "app") /\ UNCHANGED frames
      BY <2>6, <3>1 DEF Return
    <3>2. CASE /\ frames[t] # <<>>
               /\ frames' = [frames EXCEPT ![t] = Append(Front(@), "open")]
               /\ Goto(t, "hook")
      <4>1. /\ Append(Front(frames[t]), "open") \in Seq({"check", "open"})
            /\ Append(Front(frames[t]), "open") # <<>>
        BY <3>2, <1>3, FramesPush, FramesPop
      <4>. QED BY <2>6, <3>2, <4>1 DEF Return
    <3>3. CASE frames[t] # <<>> /\ Pop(t) /\ UNCHANGED ip
      BY <2>6, <3>3, <1>3, FramesPop DEF Return, Pop
    <3>. QED BY <2>6, <3>1, <3>2, <3>3 DEF Return
  <2>7. CASE HeapLock(t) \/ HeapUnlock(t)
    BY <2>7 DEF HeapLock, HeapUnlock
  <2>. QED
    BY <2>1, <2>2, <2>3, <2>4, <2>5, <2>6, <2>7 DEF Thread, Continue, Begin, Advance
<1>. QED BY <1>1, <1>2, <1>4 DEF MhookInv, TypeOK

\* Every step keeps the invariant.
LEMMA MhookNext == MhookInv /\ [Next]_vars => MhookInv'
<1>. SUFFICES ASSUME MhookInv, [Next]_vars PROVE MhookInv'
  OBVIOUS
<1>1. CASE UNCHANGED vars
  BY <1>1 DEF vars, suspending, hook, threads, MhookInv, TypeOK, CountInv, Counted, FramesInv,
     Held, PlacedInv, Placed, Nothing, Whole
<1>. QED BY <1>1, SuspendSuspending, PlacePlacing, ThreadsStep DEF Next, SetHook

\* So the invariant holds throughout.
LEMMA MhookCorrect == Spec => []MhookInv
BY MhookInit, MhookNext, PTL DEF Spec

\* Whatever fails, the variables of the hooking keep their types: the hooking
\* suspends no thread twice and nTries stays within its limit.
THEOREM TypeCorrect == Spec => []TypeOK
<1>1. MhookInv => TypeOK
  BY DEF MhookInv
<1>. QED BY <1>1, MhookCorrect, PTL

\* Whatever fails, no thread is left suspended by the hooking, and one that
\* somebody else suspended is released only when it could not be suspended a
\* second time (mhook.cpp:384).
THEOREM SuspensionUndone == Spec => []SuspensionBalanced
<1>1. MhookInv => SuspensionBalanced
  BY DEF MhookInv, TypeOK, CountInv, Counted, Held, Suspensions, Early, SuspensionBalanced
<1>. QED BY <1>1, MhookCorrect, PTL

\* Whatever fails, Mhook_SetHook leaves a whole hook or nothing of one.
THEOREM HookAllOrNothing == Spec => []HookedMeansPublished
<1>1. MhookInv => HookedMeansPublished
  BY DEF MhookInv, PlacedInv, Placed, Nothing, Whole, HookedMeansPublished
<1>. QED BY <1>1, MhookCorrect, PTL

-----------------------------------------------------------------------------
(* What the other threads run.                                             *)

\* Every thread can be suspended, and leaves the prefix when it is let move.
Quiet == Failures \cap {"snapshot", "malloc", "open", "resuspend", "context", "stuck"} = {}

Suspended == {"alloc", "protect", "trampoline", "opcode", "displacement", "publish"}

(***************************************************************************)
(* From the first suspension on every thread is waiting, looked at or      *)
(* kept, and those kept are outside of the bytes to be overwritten.  No    *)
(* thread is in HookCreateFile before the hook is whole, and none is in    *)
(* it twice.                                                               *)
(***************************************************************************)
AloneInv ==
    /\ ~crashed
    /\ slipped = {}
    /\ \A t \in Threads :
        /\ ip[t] \in {"app", "entry", "prefix"} \/ actual = "system" => frames[t] = <<>>
        /\ Len(frames[t]) <= 1
        /\ actual = "system" => ip[t] # "hook"
        /\ code # "original" => ip[t] # "prefix"
        /\ t \in handles /\ pc \in Suspended \cup {"suspend"} \cup LookingAt => ~Inside(t)
    /\ pc = "malloc" => pending = Threads
    /\ pc = "suspend" => Threads = pending \cup handles
    /\ pc \in LookingAt => Threads = pending \cup handles \cup {current}
    /\ pc \in Suspended => handles = Threads
    /\ pc = "inspect" /\ tries = MaxTries => ~Inside(current)

\* All threads are in the application at first.
LEMMA AloneInit ==
    ASSUME Quiet PROVE Init => AloneInv
BY DEF Quiet, Init, AloneInv, Inside, Suspended, LookingAt, MaxTries

\* A thread that runs is not suspended by the hooking thread, and the hook is
\* not there or is whole.
LEMMA RunningSees ==
    ASSUME MhookInv, AloneInv, NEW t \in Threads, Running(t)
    PROVE  /\ t \notin Held
           /\ pc \notin Suspended
           /\ \/ code = "original" /\ actual = "system"
              \/ code = "jump" /\ actual = "trampoline"
<1>1. t \notin Held
  BY DEF MhookInv, TypeOK, CountInv, Counted, AloneInv, Held, Running, Suspensions
<1>2. pc \notin Suspended
  BY <1>1 DEF AloneInv, Held
<1>. QED
  BY <1>1, <1>2 DEF MhookInv, TypeOK, Locations, PlacedInv, Placed, Nothing, Whole, Suspended

\* The hooking thread keeps it.
LEMMA AloneSetHook ==
    ASSUME Quiet, MhookInv, MhookInv', AloneInv, SetHook
    PROVE  AloneInv'
<1>. USE DEF Quiet, AloneInv, Inside, Suspended, LookingAt, MaxTries, suspending, hook, threads
<1>0. pc = "inspect" => (FoundInside(current) <=> Inside(current))
                       /\ (FoundOutside(current) <=> ~Inside(current))
  <2>. SUFFICES ASSUME pc = "inspect" PROVE suspendCount[current] # 0
    BY DEF FoundInside, FoundOutside
  <2>1. current \in Threads /\ current \in Held
    BY DEF MhookInv, CountInv, Held
  <2>2. suspendCount[current] \in 0 .. 2 /\ Suspensions(current) \in {0, 1}
    BY <2>1 DEF MhookInv, TypeOK, Suspensions
  <2>. QED BY <2>1, <2>2 DEF MhookInv, CountInv, Counted
<1>1. CASE DisassembleAndSkip
  BY <1>1 DEF DisassembleAndSkip
<1>2. CASE TakeSnapshot
  BY <1>2 DEF TakeSnapshot, MhookInv, CountInv, Early
<1>3. CASE AllocateHandles
  BY <1>3 DEF AllocateHandles, MhookInv, CountInv, Early
<1>4. CASE SuspendThread
  BY <1>4 DEF SuspendThread
<1>5. CASE SkipThread
  BY <1>5 DEF SkipThread
<1>6. CASE KeepSuspended
  BY <1>0, <1>6 DEF KeepSuspended
<1>7. CASE LetItMove
  BY <1>0, <1>7 DEF LetItMove
<1>8. CASE LookAgain
  BY <1>8 DEF LookAgain
<1>9. CASE GiveUp
  BY <1>0, <1>9 DEF GiveUp
<1>10. CASE AllSuspended
  BY <1>10 DEF AllSuspended
<1>11. CASE TrampolineAlloc
  BY <1>11 DEF TrampolineAlloc
<1>12. CASE Unprotect
  BY <1>12 DEF Unprotect
<1>13. CASE WriteTrampoline
  BY <1>13 DEF WriteTrampoline
<1>14. CASE EmitOpcode
  BY <1>14 DEF EmitOpcode
<1>15. CASE EmitDisplacement
  BY <1>15 DEF EmitDisplacement
<1>16. CASE Publish
  BY <1>16 DEF Publish
<1>17. CASE ResumeThread
  BY <1>17 DEF ResumeThread
<1>18. CASE ResumeOtherThreads
  BY <1>18 DEF ResumeOtherThreads
<1>. QED
  BY <1>1, <1>2, <1>3, <1>4, <1>5, <1>6, <1>7, <1>8, <1>9, <1>10, <1>11, <1>12,
     <1>13, <1>14, <1>15, <1>16, <1>17, <1>18 DEF SetHook, Suspending, Placing

(***************************************************************************)
(* So do the other threads.  One that is let run finds the function as it  *)
(* was or the whole hook, whose call of CreateFileW goes to the trampoline *)
(* and does not come back to HookCreateFile.                               *)
(***************************************************************************)
LEMMA AloneThread ==
    ASSUME MhookInv, AloneInv, NEW t \in Threads, Thread(t)
    PROVE  AloneInv'
<1>1. Running(t)
  BY DEF Thread, Continue
<1>2. UNCHANGED <<pc, suspending, hook, suspendCount>>
  BY DEF Thread, Continue, suspending, hook
<1>3. /\ t \notin Held
      /\ pc \notin Suspended
      /\ \/ code = "original" /\ actual = "system"
         \/ code = "jump" /\ actual = "trampoline"
  BY <1>1, RunningSees
<1>4. /\ ip \in [Threads -> {"app", "entry", "prefix", "body", "hook"}]
      /\ frames \in [Threads -> Seq({"check", "open"})]
      /\ frames[t] \in Seq({"check", "open"})
      /\ Len(frames[t]) \in Nat
      /\ ip[t] = "hook" => frames[t] # <<>>
  BY DEF MhookInv, TypeOK, FramesInv
<1>5. /\ ~crashed'
      /\ \A u \in Threads \ {t} : ip'[u] = ip[u] /\ frames'[u] = frames[u]
      /\ ip'[t] \in {"app", "entry", "prefix"} \/ actual = "system" => frames'[t] = <<>>
      /\ Len(frames'[t]) <= 1
      /\ actual = "system" => ip'[t] # "hook"
      /\ code # "original" => ip'[t] # "prefix"
  <2>. USE <1>3, <1>4 DEF AloneInv, Goto, Crash
  <2>1. CASE Call(t)
    BY <2>1 DEF Call
  <2>2. CASE Enter(t)
    <3>1. frames[t] = <<>> /\ Len(frames[t]) < StackFrames
      BY <2>2, FramesAssumption DEF Enter
    <3>2. Len(Append(frames[t], "check")) = 1
      BY <3>1, FramesPush
    <3>3. CASE Push(t, "check") /\ Goto(t, "hook") /\ UNCHANGED <<heap, crashed>>
                /\ code = "jump"
      BY <3>1, <3>2, <3>3, <2>2 DEF Enter, Push
    <3>4. CASE Goto(t, "prefix") /\ UNCHANGED <<frames, heap, crashed>>
                /\ code = "original"
      BY <3>1, <3>4, <2>2 DEF Enter
    <3>. QED BY <2>2, <3>1, <3>3, <3>4 DEF Enter
  <2>3. CASE Proceed(t)
    BY <2>3 DEF Proceed
  <2>4. CASE ActualCreateFile(t)
    BY <2>4 DEF ActualCreateFile
  <2>5. CASE Refuse(t)
    BY <2>5, FramesPop DEF Refuse, Pop
  <2>6. CASE Return(t)
    <3>1. CASE frames[t] = <<>> /\ Goto(t, "app") /\ UNCHANGED frames
      BY <2>6, <3>1 DEF Return
    <3>2. CASE /\ frames[t] # <<>>
               /\ frames' = [frames EXCEPT ![t] = Append(Front(@), "open")]
               /\ Goto(t, "hook")
      <4>1. Len(Append(Front(frames[t]), "open")) <= 1
        BY <3>2, FramesPush, FramesPop
      <4>. QED BY <2>6, <3>2, <4>1 DEF Return
    <3>3. CASE frames[t] # <<>> /\ Pop(t) /\ UNCHANGED ip
      BY <2>6, <3>3, FramesPop DEF Return, Pop
    <3>. QED BY <2>6, <3>1, <3>2, <3>3 DEF Return
  <2>7. CASE HeapLock(t) \/ HeapUnlock(t)
    BY <2>7 DEF HeapLock, HeapUnlock
  <2>. QED
    BY <2>1, <2>2, <2>3, <2>4, <2>5, <2>6, <2>7 DEF Thread, Continue, Begin, Advance
<1>6. pc = "inspect" => current \in Threads \ {t}
  BY <1>3 DEF MhookInv, CountInv, LookingAt, Held
<1>7. \A u \in handles : Inside(u)' <=> Inside(u)
  BY <1>3, <1>5 DEF Inside, Held, MhookInv, TypeOK
<1>8. pc = "inspect" => (Inside(current)' <=> Inside(current))
  BY <1>2, <1>5, <1>6 DEF Inside, suspending
<1>. QED
  BY <1>2, <1>3, <1>5, <1>7, <1>8 DEF AloneInv, suspending, hook

\* Every step keeps it.
LEMMA AloneNext ==
    ASSUME Quiet PROVE MhookInv /\ AloneInv /\ [Next]_vars => AloneInv'
<1>. SUFFICES ASSUME MhookInv, AloneInv, [Next]_vars PROVE AloneInv'
  OBVIOUS
<1>1. MhookInv'
  BY MhookNext
<1>2. CASE UNCHANGED vars
  BY <1>2 DEF vars, suspending, hook, threads, AloneInv, Inside
<1>. QED BY <1>1, <1>2, AloneSetHook, AloneThread DEF Next

\* When the threads can be suspended and are let move for long enough, none of
\* them runs a torn instruction or out of stack, however many there are.
THEOREM NeverTorn ==
    ASSUME Quiet PROVE Spec => []NoCrash
<1>1. AloneInv => NoCrash
  BY DEF AloneInv, NoCrash
<1>. QED BY <1>1, MhookInit, MhookNext, AloneInit, AloneNext, PTL DEF Spec

-----------------------------------------------------------------------------
(* What the threads see.                                                   *)

AtValue == [t \in Threads |-> At(t)]

\* Before the hook every thread is in the application.
LEMMA AtomicInit ==
    ASSUME Quiet PROVE Init => Atomic!Init
BY DEF Quiet, Init, Atomic!Init, At

\* Of what the hooking thread does the others see one step only.
LEMMA AtomicSetHook ==
    ASSUME MhookInv, SetHook
    PROVE  Atomic!Next \/ UNCHANGED <<actual = "trampoline", AtValue>>
<1>1. UNCHANGED threads
  BY DEF SetHook, Suspending, Placing, DisassembleAndSkip, TakeSnapshot,
     AllocateHandles, SuspendThread, SkipThread, KeepSuspended, LetItMove,
     LookAgain, GiveUp, AllSuspended, TrampolineAlloc, Unprotect, WriteTrampoline,
     EmitOpcode, EmitDisplacement, Publish, ResumeThread, ResumeOtherThreads, threads
<1>2. AtValue' = AtValue
  BY <1>1 DEF AtValue, At, Top, threads
<1>3. CASE Publish
  BY <1>2, <1>3 DEF Publish, MhookInv, PlacedInv, Placed, Atomic!Next, Atomic!Hook, AtValue
<1>4. CASE ~Publish
  <2>1. actual' = actual
    BY <1>4 DEF SetHook, Suspending, Placing, DisassembleAndSkip, TakeSnapshot,
     AllocateHandles, SuspendThread, SkipThread, KeepSuspended, LetItMove,
     LookAgain, GiveUp, AllSuspended, TrampolineAlloc, Unprotect, WriteTrampoline,
     EmitOpcode, EmitDisplacement, ResumeThread, ResumeOtherThreads, hook
  <2>. QED BY <1>2, <2>1
<1>. QED BY <1>3, <1>4

\* Where a thread is seen that is at i and whose frames are f.
Seen(i, f) ==
    IF f = <<>>
      THEN IF i = "app" THEN "app" ELSE IF i = "entry" THEN "called" ELSE "answering"
      ELSE IF Last(f) = "check" THEN "checking"
                                ELSE IF i = "hook" THEN "checked" ELSE "opening"

LEMMA SeenAt ==
    ASSUME TypeOK, TypeOK', ~crashed, ~crashed', NEW t \in Threads
    PROVE  /\ At(t)  = Seen(ip[t], frames[t])
           /\ At(t)' = Seen(ip'[t], frames'[t])
<1>1. frames[t] # <<>> => Last(frames[t]) \in {"check", "open"}
  BY FramesPop DEF TypeOK
<1>2. frames'[t] # <<>> => Last(frames'[t]) \in {"check", "open"}
  BY FramesPop DEF TypeOK
<1>3. At(t) = Seen(ip[t], frames[t])
  BY <1>1 DEF At, Top, Seen
<1>4. At(t)' = Seen(ip'[t], frames'[t])
  BY <1>2 DEF At, Top, Seen
<1>. QED BY <1>3, <1>4

\* A thread that moves is seen to move from where it was to where it gets.
LEMMA SeenMove ==
    ASSUME TypeOK, TypeOK', ~crashed, ~crashed', UNCHANGED actual,
           NEW t \in Threads,
           \A u \in Threads \ {t} : ip'[u] = ip[u] /\ frames'[u] = frames[u]
    PROVE  /\ AtValue[t] = Seen(ip[t], frames[t])
           /\ Seen(ip'[t], frames'[t]) = Seen(ip[t], frames[t]) => AtValue' = AtValue
           /\ AtValue' = [AtValue EXCEPT ![t] = Seen(ip'[t], frames'[t])]
<1>1. \A u \in Threads : At(u) = Seen(ip[u], frames[u]) /\ At(u)' = Seen(ip'[u], frames'[u])
  BY SeenAt
<1>2. \A u \in Threads \ {t} : At(u)' = At(u)
  BY <1>1
<1>. QED BY <1>1, <1>2 DEF AtValue

\* What a thread does is a step of AtomicHook, or is not seen.
LEMMA AtomicThread ==
    ASSUME MhookInv, MhookInv', AloneInv, AloneInv', NEW t \in Threads, Thread(t)
    PROVE  Atomic!Next \/ UNCHANGED <<actual = "trampoline", AtValue>>
<1>1. Running(t) /\ UNCHANGED actual
  BY DEF Thread, Continue, hook
<1>2. \/ code = "original" /\ actual = "system"
      \/ code = "jump" /\ actual = "trampoline"
  BY <1>1, RunningSees
<1>3. /\ ip \in [Threads -> {"app", "entry", "prefix", "body", "hook"}]
      /\ frames \in [Threads -> Seq({"check", "open"})]
      /\ frames[t] \in Seq({"check", "open"})
      /\ Len(frames[t]) \in Nat
      /\ ip[t] = "hook" => frames[t] # <<>>
      /\ Len(frames[t]) <= 1
      /\ ip[t] \in {"app", "entry", "prefix"} \/ actual = "system" => frames[t] = <<>>
      /\ TypeOK /\ TypeOK' /\ ~crashed /\ ~crashed'
  BY DEF MhookInv, TypeOK, FramesInv, AloneInv
<1>. DEFINE from == Seen(ip[t], frames[t])
            to   == Seen(ip'[t], frames'[t])
            Seen1(a, b) == from = a /\ to = b
<1>4. /\ \A u \in Threads \ {t} : ip'[u] = ip[u] /\ frames'[u] = frames[u]
      /\ \/ from = to
         \/ Seen1("app", "called")
         \/ Seen1("called", "answering") /\ actual = "system"
         \/ Seen1("called", "checking") /\ actual = "trampoline"
         \/ Seen1("checking", "checked")
         \/ Seen1("checked", "answering")
         \/ Seen1("checked", "opening")
         \/ Seen1("opening", "answering")
         \/ Seen1("answering", "app")
  <2>. USE <1>2, <1>3 DEF Goto, Crash, Seen
  <2>1. CASE Call(t)
    BY <2>1 DEF Call
  <2>2. CASE Enter(t)
    <3>1. CASE Push(t, "check") /\ Goto(t, "hook") /\ code = "jump"
      BY <2>2, <3>1, FramesPush DEF Enter, Push
    <3>2. CASE Goto(t, "prefix") /\ UNCHANGED <<frames, heap, crashed>> /\ code = "original"
      BY <2>2, <3>2 DEF Enter
    <3>. QED BY <2>2, <3>1, <3>2 DEF Enter
  <2>3. CASE Proceed(t)
    BY <2>3 DEF Proceed
  <2>4. CASE ActualCreateFile(t)
    <3>1. Last(frames[t]) \in {"check", "open"}
      BY <2>4, FramesPop DEF ActualCreateFile
    <3>. QED BY <2>4, <3>1 DEF ActualCreateFile
  <2>5. CASE Refuse(t)
    <3>1. Len(Front(frames[t])) = 0 /\ Front(frames[t]) = <<>>
      BY <2>5, FramesPop, EmptySeq DEF Refuse
    <3>. QED BY <2>5, <3>1 DEF Refuse, Pop, Top
  <2>6. CASE Return(t)
    <3>1. CASE frames[t] = <<>> /\ Goto(t, "app") /\ UNCHANGED frames
      BY <2>6, <3>1 DEF Return
    <3>2. CASE /\ frames[t] # <<>> /\ Top(t) = "check"
               /\ frames' = [frames EXCEPT ![t] = Append(Front(@), "open")]
               /\ Goto(t, "hook")
      <4>1. /\ Append(Front(frames[t]), "open") # <<>>
            /\ Last(Append(Front(frames[t]), "open")) = "open"
        BY <3>2, FramesPush, FramesPop
      <4>. QED BY <2>6, <3>2, <4>1 DEF Return, Top
    <3>3. CASE frames[t] # <<>> /\ Top(t) = "open" /\ Pop(t) /\ UNCHANGED ip
      <4>1. Front(frames[t]) = <<>>
        BY <3>3, FramesPop, EmptySeq
      <4>. QED BY <2>6, <3>3, <4>1 DEF Return, Pop, Top
    <3>. QED BY <2>6, <3>1, <3>2, <3>3 DEF Return
  <2>7. CASE HeapLock(t) \/ HeapUnlock(t)
    BY <2>7 DEF HeapLock, HeapUnlock
  <2>. QED
    BY <2>1, <2>2, <2>3, <2>4, <2>5, <2>6, <2>7 DEF Thread, Continue, Begin, Advance
<1>5. /\ AtValue[t] = from
      /\ from = to => AtValue' = AtValue
      /\ AtValue' = [AtValue EXCEPT ![t] = to]
  BY <1>1, <1>3, <1>4, SeenMove
<1>. HIDE DEF from, to
<1>. QED
  BY <1>1, <1>4, <1>5
     DEF Atomic!Next, Atomic!Move, Atomic!Call, Atomic!Answer, Atomic!Check,
         Atomic!Judge, Atomic!Refuse, Atomic!Open, Atomic!Opened, Atomic!Return, AtValue

(***************************************************************************)
(* When the threads can be suspended, the hook is there from one moment to *)
(* the next: every call of CreateFileW runs the function as it was or      *)
(* HookCreateFile from its beginning to its end.                           *)
(***************************************************************************)
THEOREM HookAtomic ==
    ASSUME Quiet PROVE Spec => HookIsAtomic
<1>1. MhookInv /\ AloneInv /\ [Next]_vars => [Atomic!Next]_(Atomic!vars)
  <2>. SUFFICES ASSUME MhookInv, AloneInv, [Next]_vars
                PROVE  Atomic!Next \/ UNCHANGED <<actual = "trampoline", AtValue>>
    BY DEF Atomic!vars, AtValue
  <2>1. MhookInv' /\ AloneInv'
    BY MhookNext, AloneNext
  <2>2. CASE UNCHANGED vars
    BY <2>2 DEF vars, hook, threads, AtValue, At, Top
  <2>. QED BY <2>1, <2>2, AtomicSetHook, AtomicThread DEF Next
<1>. QED
  BY <1>1, MhookInit, MhookNext, AloneInit, AloneNext, AtomicInit, PTL
     DEF Spec, HookIsAtomic, Atomic!Spec
=============================================================================
