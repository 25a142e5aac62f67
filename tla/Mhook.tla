------------------------------- MODULE Mhook -------------------------------
(***************************************************************************)
(* Mhook_SetHook at work in a process the hook library was loaded into.    *)
(* One thread, the one that runs DllMain, overwrites the first bytes of    *)
(* CreateFileW with a jump to HookCreateFile while the other threads of    *)
(* the process go on calling CreateFileW.                                  *)
(*                                                                         *)
(* The bytes the jump overwrites are the prefix of the function.  A thread *)
(* that runs them when they are half written, or that had run some of the  *)
(* old ones when they changed, runs bytes that are no instruction: what it *)
(* does then is undefined, and the model lets the process crash.           *)
(*                                                                         *)
(* The other threads are a fixed set: one that starts or ends meanwhile    *)
(* has to wait for the loader's lock, which the thread in DllMain holds.   *)
(***************************************************************************)
EXTENDS Integers, SequencesExt

CONSTANTS
    Threads,        \* the other threads of the process
    Frozen,         \* those of them somebody else has suspended
    Failures,       \* what may fail or go wrong, see FailureKinds
    StackFrames,    \* how many frames of HookCreateFile a stack has room for
    Nobody          \* no thread: none looked at yet, or the heap's lock is free

(***************************************************************************)
(* snapshot, malloc: SuspendOtherThreads gets no list of threads, or no    *)
(* memory for their handles.  open: a thread cannot be opened or suspended *)
(* (it may be gone).  resuspend: a thread that was let move cannot be      *)
(* suspended again.  context: GetThreadContext fails.  stuck: a thread is  *)
(* found in the prefix on every look.  alloc, protect: no trampoline, or   *)
(* no write access.  short: the function is too short to be hooked.        *)
(*                                                                         *)
(* ResumeThread does not fail: all it needs is a handle that was opened to *)
(* suspend and resume the thread, and the code has one.                    *)
(***************************************************************************)
FailureKinds ==
    {"snapshot", "malloc", "open", "resuspend", "context", "stuck", "alloc", "protect", "short"}

ASSUME ThreadsAssumption ==
    /\ Frozen \subseteq Threads
    /\ Nobody \notin Threads

ASSUME FailuresAssumption == Failures \subseteq FailureKinds

ASSUME FramesAssumption == StackFrames \in Nat \ {0}

MaxTries == 3

VARIABLES
    pc,             \* where Mhook_SetHook is
    pending,        \* threads of the snapshot not suspended yet
    current,        \* the thread SuspendOneThread is at work on
    tries,          \* nTries
    handles,        \* g_hThreadHandles
    slipped,        \* history: threads that could not be suspended a second time
    code,           \* the prefix of the system function
    trampoline,     \* the trampoline structure
    inUse,          \* g_nHooksInUse
    actual,         \* ActualCreateFile, which *ppSystemFunction is
    suspendCount,   \* the suspend count of each thread
    ip,             \* where each thread is
    frames,         \* the frames of HookCreateFile on each thread's stack
    heap,           \* the thread that holds the heap's lock
    crashed         \* the process has run bytes that are no instruction

suspending == <<pending, current, tries, handles, slipped>>
hook       == <<code, trampoline, inUse, actual>>
threads    == <<ip, frames, heap, crashed>>
vars == <<pc, suspending, hook, suspendCount, threads>>

Locations ==
    {"start", "snapshot", "malloc", "suspend", "inspect", "asleep", "alloc",
     "protect", "trampoline", "opcode", "displacement", "publish", "resume", "done"}

\* How often somebody else has suspended a thread.
Suspensions(t) == IF t \in Frozen THEN 1 ELSE 0

Init ==
    /\ pc = "start"
    /\ pending = {}
    /\ current = Nobody
    /\ tries = 0
    /\ handles = {}
    /\ slipped = {}
    /\ code = "original"
    /\ trampoline = "none"
    /\ inUse = 0
    /\ actual = "system"
    /\ suspendCount = [t \in Threads |-> Suspensions(t)]
    /\ ip \in [Threads -> {"app", "prefix"}]
    /\ \A t \in Threads : ip[t] = "prefix" => t \in Frozen /\ "stuck" \in Failures
    /\ frames = [t \in Threads |-> <<>>]
    /\ heap = Nobody
    /\ crashed = FALSE

-----------------------------------------------------------------------------
(* Suspending the other threads.                                           *)

\* pIp >= pbCode && pIp < (pbCode + cbBytes)
Inside_FirstByte(t) == ip[t] = "entry"      \* mutant: only the first byte

Inside(t) == ip[t] \in {"entry", "prefix"}

(***************************************************************************)
(* What GetThreadContext says of a thread.  The context of a thread that   *)
(* is running after all may be any.                                        *)
(***************************************************************************)
FoundInside(t)  == Inside(t) \/ suspendCount[t] = 0
FoundOutside(t) == ~Inside(t) \/ suspendCount[t] = 0

\* ResumeThread leaves a thread alone that is not suspended.
Suspend(t) == suspendCount' = [suspendCount EXCEPT ![t] = @ + 1]
Resume(t)  == suspendCount' = [suspendCount EXCEPT ![t] = IF @ = 0 THEN 0 ELSE @ - 1]

\* The disassembler finds at least five bytes of whole instructions, or not.
DisassembleAndSkip ==
    /\ pc = "start"
    /\ \/ pc' = "snapshot"
       \/ "short" \in Failures /\ pc' = "done"
    /\ UNCHANGED <<suspending, hook, suspendCount, threads>>

(***************************************************************************)
(* Mhook_SetHook ignores what SuspendOtherThreads returns: without a list  *)
(* of the threads, or with an empty one, it goes on to the trampoline.     *)
(***************************************************************************)
TakeSnapshot ==
    /\ pc = "snapshot"
    /\ \/ /\ pending' = Threads
          /\ pc' = IF Threads = {} THEN "alloc" ELSE "malloc"
       \/ /\ "snapshot" \in Failures
          /\ pc' = "alloc"
          /\ UNCHANGED pending
    /\ UNCHANGED <<current, tries, handles, slipped, hook, suspendCount, threads>>

AllocateHandles ==
    /\ pc = "malloc"
    /\ heap = Nobody
    /\ \/ pc' = "suspend" /\ UNCHANGED pending
       \/ "malloc" \in Failures /\ pc' = "alloc" /\ pending' = {}
    /\ UNCHANGED <<current, tries, handles, slipped, hook, suspendCount, threads>>

SuspendThread ==
    /\ pc = "suspend"
    /\ \E t \in pending :
        /\ Suspend(t)
        /\ current' = t
        /\ pending' = pending \ {t}
    /\ tries' = 0
    /\ pc' = "inspect"
    /\ UNCHANGED <<handles, slipped, hook, threads>>

\* A failure to open or suspend a thread is ignored.
SkipThread ==
    /\ pc = "suspend"
    /\ "open" \in Failures
    /\ \E t \in pending : pending' = pending \ {t}
    /\ UNCHANGED <<pc, current, tries, handles, slipped, hook, suspendCount, threads>>

KeepSuspended ==
    /\ pc = "inspect"
    /\ FoundOutside(current) \/ "context" \in Failures
    /\ handles' = handles \cup {current}
    /\ pc' = "suspend"
    /\ UNCHANGED <<pending, current, tries, slipped, hook, suspendCount, threads>>

LetItMove_Forever ==             \* mutant: nTries is not looked at
    /\ pc = "inspect"
    /\ FoundInside(current)
    /\ Resume(current)
    /\ pc' = "asleep"
    /\ UNCHANGED <<suspending, hook, threads>>

LetItMove ==
    /\ pc = "inspect"
    /\ FoundInside(current)
    /\ tries < MaxTries
    /\ Resume(current)
    /\ pc' = "asleep"
    /\ UNCHANGED <<suspending, hook, threads>>

(***************************************************************************)
(* Without "stuck", a thread has left the prefix by the end of the last    *)
(* sleep.  What SuspendThread returns is not looked at this time: when it  *)
(* fails, the loop goes on with a thread it has not suspended.             *)
(***************************************************************************)
LookAgain ==
    /\ pc = "asleep"
    /\ "stuck" \notin Failures /\ tries + 1 = MaxTries => ~Inside(current)
    /\ \/ Suspend(current) /\ UNCHANGED slipped
       \/ /\ "resuspend" \in Failures
          /\ slipped' = slipped \cup {current}
          /\ UNCHANGED suspendCount
    /\ tries' = tries + 1
    /\ pc' = "inspect"
    /\ UNCHANGED <<pending, current, handles, hook, threads>>

GiveUp_LeaveSuspended ==         \* mutant: the handle is closed, the thread not resumed
    /\ pc = "inspect"
    /\ FoundInside(current)
    /\ tries = MaxTries
    /\ pc' = "suspend"
    /\ UNCHANGED <<suspending, hook, suspendCount, threads>>

GiveUp ==
    /\ pc = "inspect"
    /\ FoundInside(current)
    /\ tries = MaxTries
    /\ Resume(current)
    /\ pc' = "suspend"
    /\ UNCHANGED <<suspending, hook, threads>>

AllSuspended ==
    /\ pc = "suspend"
    /\ pending = {}
    /\ pc' = "alloc"
    /\ UNCHANGED <<suspending, hook, suspendCount, threads>>

-----------------------------------------------------------------------------
(* Placing the jump.                                                       *)

TrampolineAlloc ==
    /\ pc = "alloc"
    /\ \/ /\ trampoline' = "reserved"
          /\ inUse' = inUse + 1
          /\ pc' = "protect"
       \/ /\ "alloc" \in Failures
          /\ pc' = "resume"
          /\ UNCHANGED <<trampoline, inUse>>
    /\ UNCHANGED <<suspending, code, actual, suspendCount, threads>>

TrampolineFree_StillInUse ==     \* mutant: the counter is forgotten
    /\ trampoline' = "none"
    /\ UNCHANGED inUse

TrampolineFree ==
    /\ trampoline' = "none"
    /\ inUse' = inUse - 1

\* The two calls of VirtualProtectEx.  pSystemFunction stays NULL when one fails.
Unprotect ==
    /\ pc = "protect"
    /\ \/ pc' = "trampoline" /\ UNCHANGED <<trampoline, inUse>>
       \/ "protect" \in Failures /\ pc' = "resume" /\ TrampolineFree
    /\ UNCHANGED <<suspending, code, actual, suspendCount, threads>>

\* The old prefix, and a jump to what comes behind it.
WriteTrampoline ==
    /\ pc = "trampoline"
    /\ trampoline' = "written"
    /\ pc' = "opcode"
    /\ UNCHANGED <<suspending, code, inUse, actual, suspendCount, threads>>

\* EmitJump writes the opcode and then the displacement.
EmitOpcode ==
    /\ pc = "opcode"
    /\ code' = "torn"
    /\ pc' = "displacement"
    /\ UNCHANGED <<suspending, trampoline, inUse, actual, suspendCount, threads>>

EmitDisplacement ==
    /\ pc = "displacement"
    /\ code' = "jump"
    /\ pc' = "publish"
    /\ UNCHANGED <<suspending, trampoline, inUse, actual, suspendCount, threads>>

Publish_Forgotten ==             \* mutant: the caller's pointer is not updated
    /\ pc = "publish"
    /\ pc' = "resume"
    /\ UNCHANGED <<suspending, hook, suspendCount, threads>>

Publish ==
    /\ pc = "publish"
    /\ actual' = "trampoline"
    /\ pc' = "resume"
    /\ UNCHANGED <<suspending, code, trampoline, inUse, suspendCount, threads>>

ResumeThread_Allocating ==       \* mutant: a line is printed before a thread is resumed
    /\ pc = "resume"
    /\ heap = Nobody
    /\ \E t \in handles :
        /\ Resume(t)
        /\ handles' = handles \ {t}
    /\ UNCHANGED <<pc, pending, current, tries, slipped, hook, threads>>

ResumeThread ==
    /\ pc = "resume"
    /\ \E t \in handles :
        /\ Resume(t)
        /\ handles' = handles \ {t}
    /\ UNCHANGED <<pc, pending, current, tries, slipped, hook, threads>>

\* free() needs the heap's lock, when every thread has been resumed.
ResumeOtherThreads ==
    /\ pc = "resume"
    /\ handles = {}
    /\ heap = Nobody
    /\ pc' = "done"
    /\ UNCHANGED <<suspending, hook, suspendCount, threads>>

Suspending ==
    \/ TakeSnapshot \/ AllocateHandles \/ SuspendThread \/ SkipThread
    \/ KeepSuspended \/ LetItMove \/ LookAgain \/ GiveUp \/ AllSuspended

Placing ==
    \/ TrampolineAlloc \/ Unprotect \/ WriteTrampoline
    \/ EmitOpcode \/ EmitDisplacement \/ Publish

SetHook ==
    /\ ~crashed
    /\ \/ DisassembleAndSkip \/ Suspending \/ Placing
       \/ ResumeThread \/ ResumeOtherThreads

-----------------------------------------------------------------------------
(* The other threads.                                                      *)

Running(t) == suspendCount[t] = 0 /\ ~crashed

Push(t, why) == frames' = [frames EXCEPT ![t] = Append(@, why)]
Pop(t)       == frames' = [frames EXCEPT ![t] = Front(@)]
Top(t)       == Last(frames[t])
Goto(t, l)   == ip' = [ip EXCEPT ![t] = l]

Crash == crashed' = TRUE /\ UNCHANGED <<ip, frames, heap>>

\* The application calls CreateFileW.
Call(t) ==
    /\ ip[t] = "app"
    /\ Goto(t, "entry")
    /\ UNCHANGED <<frames, heap, crashed>>

(***************************************************************************)
(* The first instruction of CreateFileW.  A jump leads to HookCreateFile,  *)
(* which checks the name with IsImportant before it opens the file.        *)
(***************************************************************************)
Enter(t) ==
    /\ ip[t] = "entry"
    /\ \/ /\ code = "original"
          /\ Goto(t, "prefix")
          /\ UNCHANGED <<frames, heap, crashed>>
       \/ /\ code = "torn" \/ (code = "jump" /\ Len(frames[t]) = StackFrames)
          /\ Crash
       \/ /\ code = "jump" /\ Len(frames[t]) < StackFrames
          /\ Push(t, "check")
          /\ Goto(t, "hook")
          /\ UNCHANGED <<heap, crashed>>

\* The rest of the prefix.
Proceed(t) ==
    /\ ip[t] = "prefix"
    /\ IF code = "original"
         THEN Goto(t, "body") /\ UNCHANGED <<frames, heap, crashed>>
         ELSE Crash

\* HookCreateFile calls ActualCreateFile, for the settings or for the file.
ActualCreateFile(t) ==
    /\ ip[t] = "hook"
    /\ Goto(t, IF actual = "system" THEN "entry" ELSE "body")
    /\ UNCHANGED <<frames, heap, crashed>>

\* An important file: INVALID_HANDLE_VALUE, and ActualCreateFile is not called.
Refuse(t) ==
    /\ ip[t] = "hook"
    /\ Top(t) = "open"
    /\ Pop(t)
    /\ Goto(t, "body")
    /\ UNCHANGED <<heap, crashed>>

\* CreateFileW returns, to the application or to HookCreateFile.
Return(t) ==
    /\ ip[t] = "body"
    /\ \/ frames[t] = <<>> /\ Goto(t, "app") /\ UNCHANGED frames
       \/ /\ frames[t] # <<>> /\ Top(t) = "check"
          /\ frames' = [frames EXCEPT ![t] = Append(Front(@), "open")]
          /\ Goto(t, "hook")
       \/ frames[t] # <<>> /\ Top(t) = "open" /\ Pop(t) /\ UNCHANGED ip
    /\ UNCHANGED <<heap, crashed>>

HeapLock(t) ==
    /\ ip[t] \in {"app", "hook"}
    /\ heap = Nobody
    /\ heap' = t
    /\ UNCHANGED <<ip, frames, crashed>>

HeapUnlock(t) ==
    /\ heap = t
    /\ heap' = Nobody
    /\ UNCHANGED <<ip, frames, crashed>>

\* What a thread may begin, and what brings it back to the application.
Begin(t)   == heap # t /\ (Call(t) \/ HeapLock(t))
Advance(t) == heap # t /\ (Enter(t) \/ Proceed(t) \/ ActualCreateFile(t) \/ Refuse(t) \/ Return(t))
Continue(t) ==
    /\ Running(t)
    /\ Advance(t) \/ HeapUnlock(t)
    /\ UNCHANGED <<pc, suspending, hook, suspendCount>>

Thread(t) ==
    \/ Continue(t)
    \/ Running(t) /\ Begin(t) /\ UNCHANGED <<pc, suspending, hook, suspendCount>>

Next == SetHook \/ \E t \in Threads : Thread(t)

Spec == Init /\ [][Next]_vars

(***************************************************************************)
(* The thread that hooks has the highest priority, and a thread that is    *)
(* not suspended is scheduled.  A lock that is free again and again is     *)
(* taken at some time, and the sleeping thread wakes up.                   *)
(***************************************************************************)
Fairness ==
    /\ WF_vars(SetHook)
    /\ SF_vars(SetHook /\ (AllocateHandles \/ ResumeOtherThreads \/ LookAgain))
    /\ \A t \in Threads : WF_vars(Continue(t))

FairSpec == Spec /\ Fairness

-----------------------------------------------------------------------------
(* Properties.                                                             *)

(***************************************************************************)
(* Every variable has its type.  No thread is suspended twice by the       *)
(* hooking, and none is given more looks than nTries allows.               *)
(***************************************************************************)
TypeOK ==
    /\ pc \in Locations
    /\ pending \subseteq Threads
    /\ current \in Threads \cup {Nobody}
    /\ tries \in 0..MaxTries
    /\ handles \subseteq Threads
    /\ slipped \subseteq Threads
    /\ code \in {"original", "torn", "jump"}
    /\ trampoline \in {"none", "reserved", "written"}
    /\ inUse \in 0..1
    /\ actual \in {"system", "trampoline"}
    /\ suspendCount \in [Threads -> 0..2]
    /\ ip \in [Threads -> {"app", "entry", "prefix", "body", "hook"}]
    /\ frames \in [Threads -> Seq({"check", "open"})]
    /\ heap \in Threads \cup {Nobody}
    /\ crashed \in BOOLEAN

(***************************************************************************)
(* When nothing fails, no thread ever runs bytes that are no instruction,  *)
(* and none runs out of stack in HookCreateFile, whose own call of         *)
(* CreateFileW must not come back to it.                                   *)
(***************************************************************************)
NoCrash == ~crashed

(***************************************************************************)
(* Whatever failed, Mhook_SetHook leaves no thread suspended when it is    *)
(* done, and a thread somebody else suspended it leaves suspended, unless  *)
(* it could not suspend that thread a second time: mhook.cpp:384 does not  *)
(* notice, and the thread is then resumed more often than suspended.       *)
(***************************************************************************)
SuspensionBalanced ==
    pc = "done" =>
        /\ handles = {}
        /\ \A t \in Threads :
            /\ suspendCount[t] <= Suspensions(t)
            /\ suspendCount[t] < Suspensions(t) => t \in slipped

(***************************************************************************)
(* Whatever failed, Mhook_SetHook leaves all of a hook or nothing of it:   *)
(* a function that jumps, a whole trampoline that counts as in use and the *)
(* caller's pointer at it, or none of these.                               *)
(***************************************************************************)
HookedMeansPublished ==
    pc = "done" =>
        \/ code = "jump" /\ trampoline = "written" /\ inUse = 1 /\ actual = "trampoline"
        \/ code = "original" /\ trampoline = "none" /\ inUse = 0 /\ actual = "system"

(***************************************************************************)
(* Mhook_SetHook ends: it waits for no lock that a thread it suspended may *)
(* hold.                                                                   *)
(***************************************************************************)
HookingEnds == <>(pc = "done")

(***************************************************************************)
(* To the other threads the hook is there from one moment to the next:     *)
(* each call of CreateFileW runs either the function as it was, or         *)
(* HookCreateFile, its check and what it decides.                          *)
(***************************************************************************)
At(t) ==
    CASE crashed -> "crashed"
      [] ~crashed /\ frames[t] = <<>> ->
           CASE ip[t] = "app"   -> "app"
             [] ip[t] = "entry" -> "called"
             [] OTHER           -> "answering"
      [] ~crashed /\ frames[t] # <<>> ->
           CASE Top(t) = "check" -> "checking"
             [] Top(t) = "open"  -> IF ip[t] = "hook" THEN "checked" ELSE "opening"

Atomic == INSTANCE AtomicHook WITH
              hooked <- actual = "trampoline",
              at <- [t \in Threads |-> At(t)]

HookIsAtomic == Atomic!Spec

=============================================================================
