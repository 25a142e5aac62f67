------------------------ MODULE ProcessWatch_proofs ------------------------
(***************************************************************************)
(* Theorems about the process watch, for every finite set of pids, any     *)
(* programs and lists and any number of starts: the type invariant, that   *)
(* the scan leaves no handle open but those of the threads it created,     *)
(* that a subscription is complete or undone, and that a process that is   *)
(* hooked is the one that was judged.                                      *)
(***************************************************************************)
EXTENDS ProcessWatch, FiniteSetTheorems, SequenceTheorems, TLAPS

\* The pids of a set, in any order, are a sequence of pids.
LEMMA PidsInOrder ==
    ASSUME NEW S \in SUBSET Pids, NEW s \in SetToSeqs(S)
    PROVE  s \in Seq(Pids)
<1>1. IsFiniteSet(S)
  BY ProgramsAssumption, FS_Subset
<1>2. Cardinality(S) \in Nat
  BY <1>1, FS_CardinalityType
<1>3. s \in [1 .. Cardinality(S) -> S]
  BY DEF SetToSeqs
<1>. QED BY <1>2, <1>3

-----------------------------------------------------------------------------
(* The type invariant.                                                     *)

\* The initial state is well typed.
LEMMA TypeInit == Init => TypeOK
<1>. SUFFICES ASSUME Init PROVE TypeOK
  OBVIOUS
<1>1. 0 \in 0 .. MaxStarts
  BY LimitsAssumption
<1>2. ids \in Seq(Pids) /\ events \in Seq(Pids)
  BY DEF Init
<1>3. sinkRefs \in Int /\ apartments \in Int
  BY DEF Init
<1>4. isSafe \in BOOLEAN
  BY DEF Init
<1>. QED BY <1>1, <1>2, <1>3, <1>4 DEF Init, TypeOK, Locations

\* The steps of main and of CheckOpenProcesses keep the state well typed.
LEMMA TypeScan ==
    ASSUME TypeOK, SetPrivilege \/ Enumerate \/ CheckNext \/ AllChecked
    PROVE  TypeOK'
<1>. USE DEF TypeOK, Locations, system, verdict, wmi, com
<1>1. CASE SetPrivilege
  BY <1>1 DEF SetPrivilege
<1>2. CASE Enumerate
  <2>1. ids' \in Seq(Pids)
    <3>1. CASE \E s \in SetToSeqs(alive) :
                 ids' = SubSeq(s, 1, IF Len(s) < MaxIds THEN Len(s) ELSE MaxIds)
      <4>1. PICK s \in SetToSeqs(alive) :
                 ids' = SubSeq(s, 1, IF Len(s) < MaxIds THEN Len(s) ELSE MaxIds)
        BY <3>1
      <4>2. s \in Seq(Pids)
        BY PidsInOrder
      <4>3. MaxIds \in Nat
        BY LimitsAssumption
      <4>4. Len(s) \in Nat
        BY <4>2
      <4>5. \A i \in 1 .. (IF Len(s) < MaxIds THEN Len(s) ELSE MaxIds) : s[i] \in Pids
        BY <4>2, <4>3, <4>4
      <4>. QED BY <4>1, <4>2, <4>3, <4>4, <4>5, SubSeqProperties
    <3>2. CASE ids' = <<>>
      BY <3>2
    <3>. QED BY <1>2, <3>1, <3>2 DEF Enumerate, RetrieveOpenProcessesIDs
  <2>. QED BY <1>2, <2>1 DEF Enumerate
<1>3. CASE CheckNext
  <2>1. Head(ids) \in Pids /\ Tail(ids) \in Seq(Pids)
    BY <1>3, HeadTailProperties DEF CheckNext
  <2>. QED BY <1>3, <2>1 DEF CheckNext
<1>4. CASE AllChecked
  BY <1>4 DEF AllChecked
<1>. QED BY <1>1, <1>2, <1>3, <1>4

\* Whether it was read or is uninitialised, isSafe is TRUE or FALSE.
LEMMA VerdictBoolean ==
    ASSUME IsSystemProcess PROVE isSafe' \in BOOLEAN
<1>1. CASE isSafe' = (program[target] \in SystemPrograms)
  <2>1. (program[target] \in SystemPrograms) \in BOOLEAN
    OBVIOUS
  <2>. QED BY <1>1, <2>1
<1>2. CASE isSafe' \in BOOLEAN
  BY <1>2
<1>. QED BY <1>1, <1>2 DEF IsSystemProcess

\* So do those that examine and hook one process.
LEMMA TypeExamine ==
    ASSUME TypeOK, CheckProcessPotential \/ Awake \/ InjectHookDLL \/ CloseHandle
    PROVE  TypeOK'
<1>. USE DEF TypeOK, Locations, system, verdict, wmi, com, Release, Judged, FreshLocals
<1>1. CASE OpenProcess
  BY <1>1 DEF OpenProcess
<1>2. CASE GetName
  BY <1>2 DEF GetName
<1>3. CASE IsSystemProcess
  <2>1. isSafe' \in BOOLEAN
    BY <1>3, VerdictBoolean
  <2>. QED BY <1>3, <2>1 DEF IsSystemProcess
<1>4. CASE Safe
  BY <1>4 DEF Safe
<1>5. CASE Dangerous
  BY <1>5 DEF Dangerous, JudgedDangerous
<1>6. CASE Awake
  BY <1>6 DEF Awake
<1>7. CASE InjectHookDLL
  BY <1>7 DEF InjectHookDLL
<1>8. CASE CloseHandle
  BY <1>8 DEF CloseHandle
<1>. QED
  BY <1>1, <1>2, <1>3, <1>4, <1>5, <1>6, <1>7, <1>8 DEF CheckProcessPotential

\* So do the subscription, the events and the other processes.
LEMMA TypeOthers ==
    ASSUME TypeOK,
           \/ Subscribe \/ Indicate \/ Poll \/ RewriteList
           \/ \E p \in Pids : Start(p) \/ Exit(p)
    PROVE  TypeOK'
<1>. USE DEF TypeOK, Locations, system, verdict, wmi, com
<1>1. CASE Subscribe
  <2>. USE <1>1 DEF Subscribe, Obtain, GiveUp, CleanUp,
           InitializeCOMLibrary, ObtainWMILocator, ConnectWMINamespace, setWMIConnectionSecurity,
           CreateObjectStub, ExecNotificationQueryAsync
  <2>1. UNCHANGED Rest
    OBVIOUS
  <2>2. pc' \in Locations /\ caller' \in {"scan", "watch"} /\ baseline' \subseteq Pids
    OBVIOUS
  <2>3. interfaces' \subseteq {"pLoc", "pSvc", "pUnsecApp", "pStubUnk", "pStubSink"}
    OBVIOUS
  <2>4. sinkRefs' \in Int
    OBVIOUS
  <2>5. apartments' \in Int
    OBVIOUS
  <2>. QED BY ONLY TypeOK, <2>1, <2>2, <2>3, <2>4, <2>5 DEF TypeOK, Rest, system, verdict
<1>2. CASE Indicate
  <2>1. Head(events) \in Pids /\ Tail(events) \in Seq(Pids)
    BY <1>2, HeadTailProperties DEF Indicate
  <2>. QED BY <1>2, <2>1 DEF Indicate
<1>3. CASE Poll
  <2>1. PICK s \in SetToSeqs(alive \ baseline) : events' = events \o s
    BY <1>3 DEF Poll
  <2>2. s \in Seq(Pids)
    BY PidsInOrder
  <2>3. events' \in Seq(Pids)
    BY <2>1, <2>2
  <2>. QED BY <1>3, <2>3 DEF Poll
<1>4. CASE RewriteList
  BY <1>4 DEF RewriteList
<1>5. ASSUME NEW p \in Pids, Start(p) PROVE TypeOK'
  <2>1. starts' \in 0 .. MaxStarts
    BY <1>5, LimitsAssumption DEF Start
  <2>. QED BY <1>5, <2>1 DEF Start
<1>6. ASSUME NEW p \in Pids, Exit(p) PROVE TypeOK'
  BY <1>6 DEF Exit
<1>. QED BY <1>1, <1>2, <1>3, <1>4, <1>5, <1>6

\* Every step keeps the state well typed.
LEMMA TypeNext == TypeOK /\ [Next]_vars => TypeOK'
<1>. SUFFICES ASSUME TypeOK, [Next]_vars PROVE TypeOK'
  OBVIOUS
<1>1. CASE UNCHANGED vars
  BY <1>1 DEF vars, system, verdict, wmi, com, TypeOK
<1>. QED BY <1>1, TypeScan, TypeExamine, TypeOthers DEF Next, Watcher

\* Whatever call fails and whichever processes start and exit, the variables
\* keep their types; in particular only an existing process is hooked.
THEOREM TypeCorrect == Spec => []TypeOK
BY TypeInit, TypeNext, PTL DEF Spec

-----------------------------------------------------------------------------
(* Handles.                                                                *)

(***************************************************************************)
(* What keeps ScanKeepsThreadsOnly: while CheckOpenProcesses examines, the *)
(* only handle of a process that is open is that of the one under          *)
(* examination, and none is between two processes; and the pids to come,   *)
(* the threads created and the pid that may still get one together are no  *)
(* more than there is room for pids.                                       *)
(***************************************************************************)
Subscribing == {"initialize", "locator", "connect", "blanket", "stub", "query"}
Opened      == {"name", "system", "list", "inject", "close"}
Uninjected  == {"open", "name", "system", "list", "inject"}

ThreadsInv ==
    /\ pc \in {"privilege", "enumerate"} => threads = 0 /\ ids = <<>>
    /\ caller = "scan" =>
        IF pc \in Uninjected
        THEN threads + Len(ids) + 1 <= MaxIds
        ELSE threads + Len(ids) <= MaxIds

HandlesInv ==
    /\ TypeOK
    /\ pc \in {"privilege", "enumerate", "scan", "close"} \cup Subscribing => caller = "scan"
    /\ pc \in {"sleep", "watch"} => caller = "watch"
    /\ caller = "scan" =>
        /\ handles \subseteq {target}
        /\ pc \notin Opened => handles = {}
    /\ ThreadsInv

\* No handle is open before the first process is examined.
LEMMA HandlesInit == Init => HandlesInv
<1>. SUFFICES ASSUME Init PROVE HandlesInv
  OBVIOUS
<1>1. Len(ids) = 0 /\ threads = 0 /\ MaxIds \in Nat
  BY LimitsAssumption DEF Init
<1>. QED BY <1>1, TypeInit DEF Init, HandlesInv, ThreadsInv, Opened, Subscribing, Uninjected

\* The pids that are copied are no more than there is room for.
LEMMA RoomForIds ==
    ASSUME TypeOK, RetrieveOpenProcessesIDs
    PROVE  Len(ids') <= MaxIds
<1>1. MaxIds \in Nat
  BY LimitsAssumption
<1>2. CASE ids' = <<>>
  BY <1>1, <1>2
<1>3. CASE \E s \in SetToSeqs(alive) :
             ids' = SubSeq(s, 1, IF Len(s) < MaxIds THEN Len(s) ELSE MaxIds)
  <2>1. PICK s \in SetToSeqs(alive) :
             ids' = SubSeq(s, 1, IF Len(s) < MaxIds THEN Len(s) ELSE MaxIds)
    BY <1>3
  <2>2. s \in Seq(Pids)
    BY PidsInOrder DEF TypeOK
  <2>3. Len(s) \in Nat
    BY <2>2
  <2>. DEFINE n == IF Len(s) < MaxIds THEN Len(s) ELSE MaxIds
  <2>4. n \in Nat /\ n <= MaxIds /\ n <= Len(s)
    BY <1>1, <2>3
  <2>. HIDE DEF n
  <2>5. Len(SubSeq(s, 1, n)) = n
    BY <2>2, <2>3, <2>4, SubSeqProperties
  <2>. QED BY <2>1, <2>4, <2>5 DEF n
<1>. QED BY <1>2, <1>3 DEF RetrieveOpenProcessesIDs

\* Each step keeps the threads within the pids examined.
LEMMA ThreadsNext ==
    ASSUME HandlesInv, TypeOK', [Next]_vars
    PROVE  ThreadsInv'
<1>1. TypeOK /\ MaxIds \in Nat /\ threads \in Nat /\ Len(ids) \in Nat
  BY LimitsAssumption DEF HandlesInv, TypeOK
<1>2. caller \in {"scan", "watch"}
  BY <1>1 DEF TypeOK
<1>. USE DEF HandlesInv, ThreadsInv, Subscribing, Uninjected, system, verdict, wmi, com
<1>3. CASE SetPrivilege
  BY <1>1, <1>3 DEF SetPrivilege
<1>4. CASE Enumerate
  <2>1. Len(ids') <= MaxIds /\ threads' = 0 /\ pc' = "scan" /\ caller' = "scan"
    BY <1>1, <1>4, RoomForIds DEF Enumerate
  <2>2. Len(ids') \in Nat
    BY DEF TypeOK
  <2>. QED BY <1>1, <2>1, <2>2
<1>5. CASE CheckNext
  <2>1. Len(ids') = Len(ids) - 1
    BY <1>1, <1>5, HeadTailProperties DEF CheckNext, TypeOK
  <2>2. threads + Len(ids) <= MaxIds /\ threads' = threads /\ pc' = "open"
    BY <1>5 DEF CheckNext
  <2>. QED BY <1>1, <2>1, <2>2
<1>6. CASE AllChecked
  BY <1>1, <1>6 DEF AllChecked
<1>7. CASE CheckProcessPotential
  <2>1. UNCHANGED <<ids, threads, caller>> /\ pc' \notin {"privilege", "enumerate"}
    BY <1>2, <1>7 DEF CheckProcessPotential, OpenProcess, GetName, IsSystemProcess, Safe,
                      Dangerous
  <2>2. pc \in Uninjected
    BY <1>7 DEF CheckProcessPotential, OpenProcess, GetName, IsSystemProcess, Safe, Dangerous
  <2>. QED BY <1>1, <2>1, <2>2
<1>8. CASE Awake
  BY <1>1, <1>8 DEF Awake
<1>9. CASE InjectHookDLL
  <2>1. UNCHANGED <<ids, caller>> /\ threads' \in {threads, threads + 1}
    BY <1>9 DEF InjectHookDLL
  <2>2. pc = "inject" /\ pc' \in {"close", "watch"}
    BY <1>9 DEF InjectHookDLL
  <2>. QED BY <1>1, <2>1, <2>2
<1>10. CASE CloseHandle
  BY <1>1, <1>10 DEF CloseHandle
<1>11. CASE Subscribe
  <2>1. UNCHANGED <<ids, threads>> /\ pc \in Subscribing
    BY <1>11 DEF Subscribe, Rest, InitializeCOMLibrary, ObtainWMILocator, ConnectWMINamespace,
                 setWMIConnectionSecurity, CreateObjectStub, ExecNotificationQueryAsync
  <2>2. pc' \notin Uninjected \cup {"privilege", "enumerate"}
    BY <1>11 DEF Subscribe, GiveUp, InitializeCOMLibrary, ObtainWMILocator,
                 ConnectWMINamespace, setWMIConnectionSecurity, CreateObjectStub,
                 ExecNotificationQueryAsync
  <2>3. caller = "scan"
    BY <2>1
  <2>. QED BY <1>1, <2>1, <2>2, <2>3
<1>12. CASE Indicate
  BY <1>1, <1>12 DEF Indicate
<1>13. CASE Poll
  BY <1>1, <1>13 DEF Poll
<1>14. CASE RewriteList
  BY <1>1, <1>14 DEF RewriteList
<1>15. ASSUME NEW p \in Pids, Start(p) \/ Exit(p) PROVE ThreadsInv'
  BY <1>1, <1>15 DEF Start, Exit
<1>16. CASE UNCHANGED vars
  BY <1>1, <1>16 DEF vars
<1>. QED
  BY <1>3, <1>4, <1>5, <1>6, <1>7, <1>8, <1>9, <1>10, <1>11, <1>12, <1>13,
     <1>14, <1>15, <1>16 DEF Next, Watcher

\* Each step keeps the whole: the ways out of an examination either close
\* the handle or lead to a step that does.
LEMMA HandlesNext == HandlesInv /\ [Next]_vars => HandlesInv'
<1>. SUFFICES ASSUME HandlesInv, [Next]_vars PROVE HandlesInv'
  OBVIOUS
<1>1. TypeOK /\ TypeOK' /\ ThreadsInv'
  BY TypeNext, ThreadsNext DEF HandlesInv
<1>. USE <1>1 DEF HandlesInv, Opened, Subscribing, system, verdict, wmi, com, Release
<1>2. CASE SetPrivilege
  BY <1>2 DEF SetPrivilege
<1>3. CASE Enumerate
  BY <1>3 DEF Enumerate
<1>4. CASE CheckNext
  BY <1>4 DEF CheckNext
<1>5. CASE AllChecked
  BY <1>5 DEF AllChecked
<1>6. CASE OpenProcess
  BY <1>6 DEF OpenProcess, TypeOK
<1>7. CASE GetName
  BY <1>7 DEF GetName, TypeOK
<1>8. CASE IsSystemProcess
  BY <1>8 DEF IsSystemProcess
<1>9. CASE Safe
  BY <1>9 DEF Safe, TypeOK
<1>10. CASE Dangerous
  BY <1>10 DEF Dangerous, TypeOK
<1>11. CASE Awake
  BY <1>11 DEF Awake
<1>12. CASE InjectHookDLL
  BY <1>12 DEF InjectHookDLL, TypeOK
<1>13. CASE CloseHandle
  BY <1>13 DEF CloseHandle
<1>14. CASE Subscribe
  BY <1>14 DEF Subscribe, Rest, Obtain, GiveUp, CleanUp,
     InitializeCOMLibrary, ObtainWMILocator, ConnectWMINamespace, setWMIConnectionSecurity,
     CreateObjectStub, ExecNotificationQueryAsync
<1>15. CASE Indicate
  BY <1>15 DEF Indicate
<1>16. CASE Poll
  BY <1>16 DEF Poll
<1>17. CASE RewriteList
  BY <1>17 DEF RewriteList
<1>18. ASSUME NEW p \in Pids, Start(p) \/ Exit(p) PROVE HandlesInv'
  BY <1>18 DEF Start, Exit
<1>19. CASE UNCHANGED vars
  BY <1>19 DEF vars
<1>. QED
  BY <1>2, <1>3, <1>4, <1>5, <1>6, <1>7, <1>8, <1>9, <1>10, <1>11, <1>12,
     <1>13, <1>14, <1>15, <1>16, <1>17, <1>18, <1>19
     DEF Next, Watcher, CheckProcessPotential

\* Whatever fails and whichever processes exit meanwhile, examining all
\* processes leaves no handle of a process open, and of the threads it
\* created no more handles than it had pids to examine.
THEOREM ProcessHandlesReleased == Spec => []ScanKeepsThreadsOnly
<1>1. HandlesInv => ScanKeepsThreadsOnly
  BY DEF HandlesInv, ThreadsInv, ScanKeepsThreadsOnly, Opened, Subscribing, Uninjected
<1>. QED BY <1>1, HandlesInit, HandlesNext, PTL DEF Spec

-----------------------------------------------------------------------------
(* The subscription.                                                       *)

Com(pointers, refs, inits) ==
    interfaces = pointers /\ sinkRefs = refs /\ apartments = inits

(***************************************************************************)
(* What has been obtained at each call.  Before the first one it is        *)
(* nothing, and from the last one on nothing is given back.                *)
(***************************************************************************)
ObtainedInv ==
    /\ caller = "scan" =>
        CASE pc = "locator"             -> Com({}, 0, 1)
          [] pc = "connect"             -> Com({"pLoc"}, 0, 1)
          [] pc \in {"blanket", "stub"} -> Com({"pLoc", "pSvc"}, 0, 1)
          [] pc = "query"               -> Com({"pLoc", "pSvc", "pUnsecApp", "pStubUnk"}, 2, 1)
          [] pc = "ended"               -> interfaces = {} /\ sinkRefs <= 0 /\ apartments <= 0
          [] pc = "crashed"             -> TRUE
          [] OTHER                      -> Com({}, 0, 0)
    /\ caller = "watch" =>
        /\ pc # "ended"
        /\ "pStubSink" \in interfaces /\ sinkRefs = 2 /\ apartments = 1

\* Nothing is obtained at first.
LEMMA ObtainedInit == Init => ObtainedInv
BY DEF Init, ObtainedInv, Com

\* Every call of the subscription obtains what the next one needs, or is the
\* last one and gives back everything; no other step touches it.
LEMMA ObtainedNext == HandlesInv /\ ObtainedInv /\ [Next]_vars => ObtainedInv'
<1>. SUFFICES ASSUME HandlesInv, ObtainedInv, [Next]_vars PROVE ObtainedInv'
  OBVIOUS
<1>. USE DEF ObtainedInv, Com, HandlesInv, Subscribing, system, verdict, wmi, com
<1>1. caller \in {"scan", "watch"}
  BY DEF TypeOK
<1>2. CASE Subscribe
  <2>. USE <1>1 DEF Rest, Obtain, GiveUp, CleanUp
  <2>1. CASE InitializeCOMLibrary
    BY <2>1 DEF InitializeCOMLibrary
  <2>2. CASE ObtainWMILocator
    BY <2>2 DEF ObtainWMILocator
  <2>3. CASE ConnectWMINamespace
    BY <2>3 DEF ConnectWMINamespace
  <2>4. CASE setWMIConnectionSecurity
    BY <2>4 DEF setWMIConnectionSecurity
  <2>5. CASE CreateObjectStub
    BY <2>5 DEF CreateObjectStub
  <2>6. CASE ExecNotificationQueryAsync
    BY <2>6 DEF ExecNotificationQueryAsync
  <2>. QED BY <1>2, <2>1, <2>2, <2>3, <2>4, <2>5, <2>6 DEF Subscribe
<1>3. CASE SetPrivilege \/ Enumerate \/ CheckNext \/ AllChecked
  BY <1>1, <1>3 DEF SetPrivilege, Enumerate, CheckNext, AllChecked
<1>4. CASE CheckProcessPotential
  BY <1>1, <1>4
     DEF CheckProcessPotential, OpenProcess, GetName, IsSystemProcess, Safe, Dangerous
<1>5. CASE Awake \/ InjectHookDLL \/ CloseHandle \/ Indicate
  BY <1>1, <1>5 DEF Awake, InjectHookDLL, CloseHandle, Indicate
<1>6. CASE Poll \/ RewriteList \/ \E p \in Pids : Start(p) \/ Exit(p)
  BY <1>6 DEF Poll, RewriteList, Start, Exit
<1>7. CASE UNCHANGED vars
  BY <1>7 DEF vars
<1>. QED BY <1>2, <1>3, <1>4, <1>5, <1>6, <1>7 DEF Next, Watcher

\* At whichever call the subscription fails, all is released; and while WMI
\* watches nothing is.
THEOREM SubscriptionSound == Spec => []SubscribedOrUndone
<1>1. HandlesInv /\ ObtainedInv => SubscribedOrUndone
  BY DEF HandlesInv, TypeOK, ObtainedInv, SubscribedOrUndone
<1>. QED BY <1>1, HandlesInit, HandlesNext, ObtainedInit, ObtainedNext, PTL DEF Spec

-----------------------------------------------------------------------------
(* Who is hooked.                                                          *)

(***************************************************************************)
(* What keeps SafeNeverHooked: from OpenProcess to the injection a handle  *)
(* keeps the pid of the process under examination from being given to      *)
(* another, so that what was read of it stays true for as long as it       *)
(* exists.                                                                 *)
(***************************************************************************)
JudgedInv ==
    /\ TypeOK
    /\ pc \in {"name", "system", "list", "sleep", "inject"} => target \in handles
    /\ target \in alive =>
        /\ pc \in {"system", "list"} => name = program[target] \/ "name" \in unread
        /\ pc = "list" /\ program[target] \in SystemPrograms => isSafe \/ "path" \in unread
        /\ pc \in {"sleep", "inject"} => Excused(target)

\* No process is under examination at first.
LEMMA JudgedInit == Init => JudgedInv
BY TypeInit DEF Init, JudgedInv

\* A process is found dangerous for want of what was not read, if at all.
LEMMA DangerousExcused ==
    ASSUME JudgedInv, Dangerous, target \in alive
    PROVE  Excused(target)'
<1>1. PICK content \in ReadList :
        /\ ~JudgedSafe(content)
        /\ unread' = IF content = <<>> THEN unread \cup {"list"} ELSE unread
  BY DEF Dangerous, JudgedDangerous
<1>2. program' = program /\ target' = target /\ pc = "list"
  BY DEF Dangerous, system
<1>3. program[target] \in SystemPrograms => "path" \in unread'
  BY <1>1, <1>2 DEF JudgedInv, JudgedSafe
<1>4. ASSUME \A text \in Lists : IsProcessSafe(program[target], text)
      PROVE  unread' \cap {"name", "list"} # {}
  <2>1. CASE content = <<>>
    BY <1>1, <2>1
  <2>2. CASE content # <<>>
    <3>1. content \in Lists
      BY <1>1, <2>2 DEF ReadList, JudgedInv, TypeOK
    <3>2. name # program[target]
      BY <1>1, <1>4, <3>1 DEF JudgedSafe
    <3>3. "name" \in unread
      BY <1>2, <3>2 DEF JudgedInv
    <3>. QED BY <1>1, <2>2, <3>3
  <2>. QED BY <2>1, <2>2
<1>5. \A text : IsProcessSafe(program[target], text)' <=> IsProcessSafe(program[target], text)
  BY <1>2 DEF IsProcessSafe
<1>. QED BY <1>2, <1>3, <1>4, <1>5 DEF Excused

\* The steps of the program keep it.
LEMMA JudgedWatcher ==
    ASSUME JudgedInv, TypeOK', Watcher
    PROVE  JudgedInv'
<1>. USE DEF JudgedInv, system, verdict, wmi, com, Release, FreshLocals
<1>1. CASE SetPrivilege
  BY <1>1 DEF SetPrivilege
<1>2. CASE Enumerate
  BY <1>2 DEF Enumerate
<1>3. CASE CheckNext
  BY <1>3 DEF CheckNext
<1>4. CASE AllChecked
  BY <1>4 DEF AllChecked
<1>5. CASE OpenProcess
  BY <1>5 DEF OpenProcess, TypeOK
<1>6. CASE GetName
  BY <1>6 DEF GetName, TypeOK
<1>7. CASE IsSystemProcess
  BY <1>7 DEF IsSystemProcess
<1>8. CASE Safe
  BY <1>8 DEF Safe, TypeOK
<1>9. CASE Dangerous
  <2>1. UNCHANGED <<alive, target, handles>> /\ pc' \in {"sleep", "inject"} /\ pc = "list"
    BY <1>9 DEF Dangerous
  <2>. QED BY <1>9, <2>1, DangerousExcused
<1>10. CASE Awake
  BY <1>10 DEF Awake, Excused
<1>11. CASE InjectHookDLL
  BY <1>11 DEF InjectHookDLL, TypeOK
<1>12. CASE CloseHandle
  BY <1>12 DEF CloseHandle
<1>13. CASE Subscribe
  BY <1>13 DEF Subscribe, Rest, Obtain, GiveUp, CleanUp,
     InitializeCOMLibrary, ObtainWMILocator, ConnectWMINamespace, setWMIConnectionSecurity,
     CreateObjectStub, ExecNotificationQueryAsync
<1>14. CASE Indicate
  BY <1>14 DEF Indicate
<1>. QED
  BY <1>1, <1>2, <1>3, <1>4, <1>5, <1>6, <1>7, <1>8, <1>9, <1>10, <1>11,
     <1>12, <1>13, <1>14 DEF Watcher, CheckProcessPotential

\* So do WMI and the other processes: a pid that is free has no handle.
LEMMA JudgedOthers ==
    ASSUME JudgedInv, TypeOK',
           Poll \/ RewriteList \/ \E p \in Pids : Start(p) \/ Exit(p)
    PROVE  JudgedInv'
<1>. USE DEF JudgedInv, Excused, system, verdict, wmi, com
<1>1. CASE Poll
  BY <1>1 DEF Poll
<1>2. CASE RewriteList
  BY <1>2 DEF RewriteList
<1>3. ASSUME NEW p \in Pids, Start(p) PROVE JudgedInv'
  <2>1. p \notin handles
    BY <1>3 DEF Start
  <2>2. \A q \in Pids \ {p} : program'[q] = program[q]
    BY <1>3 DEF Start, TypeOK
  <2>. QED BY <1>3, <2>1, <2>2 DEF Start, TypeOK
<1>4. ASSUME NEW p \in Pids, Exit(p) PROVE JudgedInv'
  BY <1>4 DEF Exit
<1>. QED BY <1>1, <1>2, <1>3, <1>4

\* Only InjectHookDLL hooks a process, and the one under examination.
LEMMA HookedIsTarget ==
    ASSUME JudgedInv, [Next]_vars
    PROVE  \A p \in hooked' \ hooked : Excused(p)
<1>1. CASE InjectHookDLL
  <2>1. \A p \in hooked' \ hooked : p = target /\ target \in alive /\ pc = "inject"
    BY <1>1 DEF InjectHookDLL
  <2>. QED BY <2>1 DEF JudgedInv
<1>2. CASE ~InjectHookDLL
  <2>1. hooked' \subseteq hooked
    BY <1>2 DEF Next, Watcher, SetPrivilege, Enumerate, CheckNext, AllChecked,
       CheckProcessPotential, OpenProcess, GetName, IsSystemProcess, Safe, Dangerous,
       Awake, CloseHandle, Subscribe, InitializeCOMLibrary, ObtainWMILocator,
       ConnectWMINamespace, setWMIConnectionSecurity, CreateObjectStub,
       ExecNotificationQueryAsync, Indicate, Poll, RewriteList, Start, Exit, Rest, system, vars
  <2>. QED BY <2>1
<1>. QED BY <1>1, <1>2

(***************************************************************************)
(* Whatever fails, however the list is rewritten and pids are reused, the  *)
(* process that is hooked is the one that was judged: one of a system      *)
(* program only when its own path was not read, one that every published   *)
(* list finds safe only when its own name or the list was not read.        *)
(***************************************************************************)
THEOREM HookedWasJudged == Spec => SafeNeverHooked
<1>1. JudgedInv /\ [Next]_vars => JudgedInv'
  <2>. SUFFICES ASSUME JudgedInv, [Next]_vars PROVE JudgedInv'
    OBVIOUS
  <2>1. TypeOK'
    BY TypeNext DEF JudgedInv
  <2>2. CASE UNCHANGED vars
    BY <2>1, <2>2 DEF vars, system, verdict, wmi, com, JudgedInv, Excused
  <2>. QED BY <2>1, <2>2, JudgedWatcher, JudgedOthers DEF Next
<1>2. JudgedInv /\ [Next]_vars => [\A p \in hooked' \ hooked : Excused(p)]_vars
  BY HookedIsTarget
<1>. QED BY <1>1, <1>2, JudgedInit, PTL DEF Spec, SafeNeverHooked
=============================================================================
