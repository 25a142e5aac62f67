---------------------------- MODULE ProcessWatch ----------------------------
(***************************************************************************)
(* How ComputerLock finds the processes to hook: main examines the         *)
(* processes that exist (CheckOpenProcesses) and then subscribes to WMI's  *)
(* creation events, whose sink examines one process per event              *)
(* (CheckSingleProcess), while processes start and exit and the settings   *)
(* feed rewrites the list of safe processes.                               *)
(*                                                                         *)
(* A process is known by its pid.  Windows gives the pid of a process that *)
(* has exited to another one, but not while a handle to it is open.  The   *)
(* names of programs are texts, as the list of safe processes is.          *)
(***************************************************************************)
EXTENDS SettingsText, FiniteSets, SequencesExt

CONSTANTS
    Pids,
    NoPid,          \* no process is or was under examination
    Programs,       \* the programs processes run
    SystemPrograms, \* those under the Windows directory
    Lists,          \* the lists of safe processes the server publishes
    Unknown,        \* "<unknown>": the name of a process that has none
    Failures,       \* what may fail, see FailureKinds
    MaxIds,         \* 1024: the pids there is room for
    MaxStarts       \* bound: processes that start

(***************************************************************************)
(* privilege: SetPrivilegeByName.  enum: EnumProcesses.  open: OpenProcess *)
(* of a process that exists.  modules, basename: EnumProcessModules and    *)
(* GetModuleBaseName.  filename: GetModuleFileNameEx.  inject: the memory  *)
(* or the thread in the other process.  initialize, locator, connect,      *)
(* blanket, apartment, stub, query: the steps of the subscription.         *)
(* event: the sink gets no pid out of an event.                            *)
(* rewrite: the list of safe processes is rewritten, and empty meanwhile.  *)
(* read: the list of safe processes is not opened for input.               *)
(***************************************************************************)
FailureKinds ==
    {"privilege", "enum", "open", "modules", "basename", "filename",
     "inject", "initialize", "locator", "connect", "blanket", "apartment",
     "stub", "query", "event", "rewrite", "read"}

ASSUME ProgramsAssumption ==
    /\ IsFiniteSet(Pids)
    /\ NoPid \notin Pids
    /\ SystemPrograms \subseteq Programs
    /\ Programs \cup {Unknown} \subseteq Text
    /\ Unknown \notin Programs
    /\ Lists \subseteq Text

ASSUME LimitsAssumption ==
    /\ Failures \subseteq FailureKinds
    /\ MaxIds \in Nat
    /\ MaxStarts \in Nat

VARIABLES
    alive,      \* the processes that exist
    program,    \* the program each pid runs, or ran last
    hooked,     \* processes the hook library was loaded into
    starts,     \* processes started so far
    list,       \* the content of the settings file of safe processes
    pc,         \* where the thread is that examines processes
    caller,     \* whom CheckProcessPotential returns to
    ids,        \* pids CheckOpenProcesses has still to examine
    target,     \* the pid under examination
    name,       \* szProcessName
    isSafe,     \* isSafe
    unread,     \* history: what of the process under examination was not read
    handles,    \* processes the program holds a handle of
    threads,    \* handles of the threads InjectHookDLL created
    baseline,   \* the processes WMI saw when it looked last
    events,     \* pids of creation events not indicated yet
    interfaces, \* the interface pointers that are not NULL
    sinkRefs,   \* m_lRef of the event sink
    apartments, \* calls of CoInitializeEx that CoUninitialize has not undone
    examined    \* history: existing processes whose examination is complete

system  == <<alive, program, hooked, starts, list>>
verdict == <<name, isSafe, unread>>
com     == <<interfaces, sinkRefs, apartments>>
wmi     == <<baseline, events, com>>
vars == <<system, pc, caller, ids, target, verdict, handles, threads, wmi, examined>>

Locations ==
    {"privilege", "enumerate", "scan", "open", "name", "system", "list",
     "sleep", "inject", "close", "initialize", "locator", "connect", "blanket",
     "stub", "query", "watch", "ended", "crashed"}

Init ==
    /\ alive \in SUBSET Pids
    /\ program \in [Pids -> Programs]
    /\ hooked = {}
    /\ starts = 0
    /\ list \in Lists
    /\ pc = "privilege"
    /\ caller = "scan"
    /\ ids = <<>>
    /\ target = NoPid
    /\ name = Unknown
    /\ isSafe = FALSE
    /\ unread = {}
    /\ handles = {}
    /\ threads = 0
    /\ baseline = {}
    /\ events = <<>>
    /\ interfaces = {}
    /\ sinkRefs = 0
    /\ apartments = 0
    /\ examined = {}

-----------------------------------------------------------------------------
(* main and CheckOpenProcesses.                                            *)

SetPrivilege ==
    /\ pc = "privilege"
    /\ \/ pc' = "enumerate"
       \/ "privilege" \in Failures /\ pc' = "ended"
    /\ UNCHANGED <<system, caller, ids, target, verdict, handles, threads, wmi, examined>>

\* Only the first MaxIds pids fit.  After a failure there are none to examine.
RetrieveOpenProcessesIDs_OneLess ==   \* mutant: the last pid is not copied
    \E s \in SetToSeqs(alive) : ids' = SubSeq(s, 1, Len(s) - 1)

RetrieveOpenProcessesIDs ==
    \/ \E s \in SetToSeqs(alive) :
        ids' = SubSeq(s, 1, IF Len(s) < MaxIds THEN Len(s) ELSE MaxIds)
    \/ "enum" \in Failures /\ ids' = <<>>

Enumerate ==
    /\ pc = "enumerate"
    /\ RetrieveOpenProcessesIDs
    /\ pc' = "scan"
    /\ UNCHANGED <<system, caller, target, verdict, handles, threads, wmi, examined>>

CheckNext ==
    /\ pc = "scan"
    /\ ids # <<>>
    /\ target' = Head(ids)
    /\ ids' = Tail(ids)
    /\ caller' = "scan"
    /\ pc' = "open"
    /\ UNCHANGED <<system, verdict, handles, threads, wmi, examined>>

AllChecked ==
    /\ pc = "scan"
    /\ ids = <<>>
    /\ pc' = "initialize"
    /\ UNCHANGED <<system, caller, ids, target, verdict, handles, threads, wmi, examined>>

-----------------------------------------------------------------------------
(* CheckProcessPotential.                                                  *)

Release == handles' = handles \ {target}

\* Its locals as it sets them at first; they are gone when it returns.
FreshLocals == name' = Unknown /\ isSafe' = FALSE

OpenProcess ==
    /\ pc = "open"
    /\ FreshLocals
    /\ unread' = {}
    /\ \/ /\ target \in alive
          /\ handles' = handles \cup {target}
          /\ pc' = "name"
       \/ /\ target \notin alive \/ "open" \in Failures
          /\ pc' = caller
          /\ UNCHANGED handles
    /\ UNCHANGED <<system, caller, ids, target, threads, wmi, examined>>

(***************************************************************************)
(* The name stays "<unknown>" when EnumProcessModules fails.  When         *)
(* GetModuleBaseName fails, the process counts as safe.                    *)
(***************************************************************************)
GetName ==
    /\ pc = "name"
    /\ \/ /\ target \in alive
          /\ name' = program[target]
          /\ pc' = "system"
          /\ UNCHANGED <<isSafe, unread, handles>>
       \/ /\ target \notin alive \/ "modules" \in Failures
          /\ unread' = {"name"}
          /\ pc' = "system"
          /\ UNCHANGED <<name, isSafe, handles>>
       \/ /\ target \notin alive \/ "basename" \in Failures
          /\ pc' = caller
          /\ Release
          /\ FreshLocals
          /\ UNCHANGED unread
    /\ UNCHANGED <<system, caller, ids, target, threads, wmi, examined>>

\* When GetModuleFileNameEx fails, the text compared is uninitialised.
IsSystemProcess ==
    /\ pc = "system"
    /\ \/ /\ target \in alive
          /\ isSafe' = (program[target] \in SystemPrograms)
          /\ UNCHANGED unread
       \/ /\ target \notin alive \/ "filename" \in Failures
          /\ isSafe' \in BOOLEAN
          /\ unread' = unread \cup {"path"}
    /\ pc' = "list"
    /\ UNCHANGED <<system, caller, ids, target, name, handles, threads, wmi, examined>>

Judged == examined' = examined \cup ({target} \cap alive)

(***************************************************************************)
(* What the ifstream of GetParamsFromFile gets: the list as it is, which   *)
(* is empty while it is rewritten, or nothing when it cannot be opened.    *)
(***************************************************************************)
ReadList == {list} \cup IF "read" \in Failures THEN {<<>>} ELSE {}

JudgedSafe(content) == isSafe \/ IsProcessSafe(name, content)

Safe ==
    /\ pc = "list"
    /\ \E content \in ReadList : JudgedSafe(content)
    /\ Release
    /\ Judged
    /\ FreshLocals
    /\ unread' = {}
    /\ pc' = caller
    /\ UNCHANGED <<system, caller, ids, target, threads, wmi>>

JudgedDangerous ==
    /\ \E content \in ReadList :
        /\ ~JudgedSafe(content)
        /\ unread' = IF content = <<>> THEN unread \cup {"list"} ELSE unread
    /\ FreshLocals

Dangerous_HandleClosed ==        \* mutant: the handle is released on this way too
    /\ pc = "list"
    /\ JudgedDangerous
    /\ Release
    /\ Judged
    /\ pc' = IF caller = "watch" THEN "sleep" ELSE "inject"
    /\ UNCHANGED <<system, caller, ids, target, threads, wmi>>

\* CheckSingleProcess sleeps a second before it injects.
Dangerous ==
    /\ pc = "list"
    /\ JudgedDangerous
    /\ Judged
    /\ pc' = IF caller = "watch" THEN "sleep" ELSE "inject"
    /\ UNCHANGED <<system, caller, ids, target, handles, threads, wmi>>

Awake ==
    /\ pc = "sleep"
    /\ pc' = "inject"
    /\ UNCHANGED <<system, caller, ids, target, verdict, handles, threads, wmi, examined>>

InjectHookDLL_Unchecked ==       \* mutant: a failed allocation goes unnoticed
    /\ pc = "inject"
    /\ hooked' = hooked \cup {target}
    /\ threads' = threads + 1
    /\ pc' = IF caller = "scan" THEN "close" ELSE "watch"
    /\ UNCHANGED <<alive, program, starts, list, caller, ids, target, verdict, handles, wmi, examined>>

(***************************************************************************)
(* The thread CreateRemoteThread starts loads the library, unless the path *)
(* was not written or the library cannot be loaded; its handle is never    *)
(* closed.  What InjectHookDLL returns is ignored, and CheckSingleProcess  *)
(* keeps the handle of the process.                                        *)
(***************************************************************************)
InjectHookDLL ==
    /\ pc = "inject"
    /\ \/ /\ target \in alive
          /\ hooked' = hooked \cup {target}
          /\ threads' = threads + 1
       \/ /\ target \in alive /\ "inject" \in Failures
          /\ threads' = threads + 1
          /\ UNCHANGED hooked
       \/ /\ target \notin alive \/ "inject" \in Failures
          /\ UNCHANGED <<hooked, threads>>
    /\ unread' = {}
    /\ pc' = IF caller = "scan" THEN "close" ELSE "watch"
    /\ UNCHANGED <<alive, program, starts, list, caller, ids, target, name, isSafe, handles, wmi, examined>>

CloseHandle_Forgotten ==         \* mutant: CheckOpenProcesses keeps the handle too
    /\ pc = "close"
    /\ pc' = "scan"
    /\ UNCHANGED <<system, caller, ids, target, verdict, handles, threads, wmi, examined>>

CloseHandle ==
    /\ pc = "close"
    /\ Release
    /\ pc' = "scan"
    /\ UNCHANGED <<system, caller, ids, target, verdict, threads, wmi, examined>>

-----------------------------------------------------------------------------
(* The subscription to the creation events: MonitorProcessCreation.        *)

Rest == <<system, ids, target, verdict, handles, threads, events, examined>>

(***************************************************************************)
(* The pointers are released that are not NULL.  With the stub goes the    *)
(* reference to the sink it holds.                                         *)
(***************************************************************************)
CleanUp ==
    /\ interfaces' = {}
    /\ sinkRefs' = sinkRefs - (IF "pStubUnk" \in interfaces THEN 2 ELSE 1)
    /\ apartments' = apartments - 1

GiveUp(failure) ==
    /\ failure \in Failures
    /\ CleanUp
    /\ pc' = "ended"

Obtain(pointers) == interfaces' = interfaces \cup pointers

\* Whether CoInitializeSecurity succeeds is not looked at and changes nothing.
InitializeCOMLibrary ==
    /\ pc = "initialize"
    /\ \/ /\ apartments' = apartments + 1
          /\ pc' = "locator"
          /\ UNCHANGED <<interfaces, sinkRefs>>
       \/ GiveUp("initialize")
    /\ UNCHANGED <<Rest, caller, baseline>>

ObtainWMILocator ==
    /\ pc = "locator"
    /\ \/ Obtain({"pLoc"}) /\ pc' = "connect" /\ UNCHANGED <<sinkRefs, apartments>>
       \/ GiveUp("locator")
    /\ UNCHANGED <<Rest, caller, baseline>>

ConnectWMINamespace_Unreleased ==    \* mutant: the locator is not released
    /\ pc = "connect"
    /\ \/ Obtain({"pSvc"}) /\ pc' = "blanket" /\ UNCHANGED <<sinkRefs, apartments>>
       \/ "connect" \in Failures /\ pc' = "ended" /\ UNCHANGED com
    /\ UNCHANGED <<Rest, caller, baseline>>

ConnectWMINamespace ==
    /\ pc = "connect"
    /\ \/ Obtain({"pSvc"}) /\ pc' = "blanket" /\ UNCHANGED <<sinkRefs, apartments>>
       \/ GiveUp("connect")
    /\ UNCHANGED <<Rest, caller, baseline>>

setWMIConnectionSecurity ==
    /\ pc = "blanket"
    /\ \/ pc' = "stub" /\ UNCHANGED com
       \/ GiveUp("blanket")
    /\ UNCHANGED <<Rest, caller, baseline>>

(***************************************************************************)
(* The apartment and the stub are used without a look at whether they were *)
(* created; a call through a NULL pointer ends the process.  The stub      *)
(* holds a reference to the sink, beside the one AddRef counted.           *)
(***************************************************************************)
CreateObjectStub ==
    /\ pc = "stub"
    /\ \/ /\ Obtain({"pUnsecApp", "pStubUnk"})
          /\ sinkRefs' = sinkRefs + 2
          /\ pc' = "query"
          /\ UNCHANGED apartments
       \/ Failures \cap {"apartment", "stub"} # {} /\ pc' = "crashed" /\ UNCHANGED com
    /\ UNCHANGED <<Rest, caller, baseline>>

ExecNotificationQueryAsync ==
    /\ pc = "query"
    /\ \/ /\ Obtain({"pStubSink"})
          /\ pc' = "watch"
          /\ caller' = "watch"
          /\ baseline' = alive
          /\ UNCHANGED <<sinkRefs, apartments>>
       \/ GiveUp("query") /\ UNCHANGED <<caller, baseline>>
    /\ UNCHANGED Rest

\* A failure any call of the constructor notices makes main return.
Subscribe ==
    \/ InitializeCOMLibrary \/ ObtainWMILocator \/ ConnectWMINamespace
    \/ setWMIConnectionSecurity \/ CreateObjectStub \/ ExecNotificationQueryAsync

-----------------------------------------------------------------------------
(* The creation events.                                                    *)

(***************************************************************************)
(* Once a second WMI compares the processes that exist with those it saw   *)
(* the second before.                                                      *)
(***************************************************************************)
Poll ==
    /\ caller = "watch"
    /\ alive # baseline
    /\ \E s \in SetToSeqs(alive \ baseline) : events' = events \o s
    /\ baseline' = alive
    /\ UNCHANGED <<system, pc, caller, ids, target, verdict, handles, threads, com, examined>>

Indicate_EventLost ==            \* mutant: the first event opens nothing
    /\ pc = "watch"
    /\ Len(events) > 1
    /\ target' = events[2]
    /\ events' = SubSeq(events, 3, Len(events))
    /\ pc' = "open"
    /\ UNCHANGED <<system, caller, ids, verdict, handles, threads, baseline, com, examined>>

Indicate ==
    /\ pc = "watch"
    /\ events # <<>>
    /\ events' = Tail(events)
    /\ \/ target' = Head(events) /\ pc' = "open"
       \/ "event" \in Failures /\ UNCHANGED <<target, pc>>
    /\ UNCHANGED <<system, caller, ids, verdict, handles, threads, baseline, com, examined>>

-----------------------------------------------------------------------------
(* The other processes, and the settings feed.                             *)

Start(p) ==
    /\ p \notin alive \cup handles
    /\ starts < MaxStarts
    /\ starts' = starts + 1
    /\ alive' = alive \cup {p}
    /\ \E q \in Programs : program' = [program EXCEPT ![p] = q]
    /\ UNCHANGED <<hooked, list, pc, caller, ids, target, verdict, handles, threads, wmi, examined>>

Exit(p) ==
    /\ p \in alive
    /\ alive' = alive \ {p}
    /\ hooked' = hooked \ {p}
    /\ examined' = examined \ {p}
    /\ UNCHANGED <<program, starts, list, pc, caller, ids, target, verdict, handles, threads, wmi>>

RewriteList ==
    /\ "rewrite" \in Failures
    /\ list' \in IF list = <<>> THEN Lists ELSE {<<>>}
    /\ UNCHANGED <<alive, program, hooked, starts, pc, caller, ids, target, verdict, handles, threads, wmi, examined>>

CheckProcessPotential ==
    OpenProcess \/ GetName \/ IsSystemProcess \/ Safe \/ Dangerous

Watcher ==
    \/ SetPrivilege \/ Enumerate \/ CheckNext \/ AllChecked
    \/ CheckProcessPotential \/ Awake \/ InjectHookDLL \/ CloseHandle
    \/ Subscribe \/ Indicate

Next ==
    \/ Watcher \/ Poll \/ RewriteList
    \/ \E p \in Pids : Start(p) \/ Exit(p)

Spec == Init /\ [][Next]_vars

(***************************************************************************)
(* The program's threads are scheduled and WMI looks again and again;      *)
(* nothing is assumed of the other processes.                              *)
(***************************************************************************)
FairSpec == Spec /\ WF_vars(Watcher) /\ WF_vars(Poll)

-----------------------------------------------------------------------------
(* Properties.                                                             *)

\* Every variable has its type, and the history only names processes that exist.
TypeOK ==
    /\ alive \subseteq Pids
    /\ program \in [Pids -> Programs]
    /\ hooked \subseteq alive
    /\ starts \in 0..MaxStarts
    /\ list \in Lists \cup {<<>>}
    /\ pc \in Locations
    /\ caller \in {"scan", "watch"}
    /\ ids \in Seq(Pids)
    /\ target \in Pids \cup {NoPid}
    /\ name \in Programs \cup {Unknown}
    /\ isSafe \in BOOLEAN
    /\ unread \subseteq {"name", "path", "list"}
    /\ handles \subseteq Pids
    /\ threads \in Nat
    /\ baseline \subseteq Pids
    /\ events \in Seq(Pids)
    /\ interfaces \subseteq {"pLoc", "pSvc", "pUnsecApp", "pStubUnk", "pStubSink"}
    /\ sinkRefs \in Int
    /\ apartments \in Int
    /\ examined \subseteq alive

(***************************************************************************)
(* Examining all processes leaves no handle of a process open, whatever    *)
(* failed and whichever processes exited meanwhile, and of the threads it  *)
(* created it leaves at most one handle open for each pid it has examined, *)
(* so never more than there was room for.  (CheckSingleProcess, by         *)
(* contrast, keeps the handle of every process it found dangerous too.)    *)
(***************************************************************************)
ScanKeepsThreadsOnly ==
    pc \in {"scan", "initialize"} => handles = {} /\ threads + Len(ids) <= MaxIds

(***************************************************************************)
(* At whichever call the subscription fails, when it is given up every     *)
(* interface that was obtained is released and COM is left; and while WMI  *)
(* watches, it has all it calls: each interface, the sink and COM.         *)
(***************************************************************************)
SubscribedOrUndone ==
    /\ pc = "ended" => interfaces = {} /\ sinkRefs <= 0 /\ apartments <= 0
    /\ caller = "watch" => "pStubSink" \in interfaces /\ sinkRefs > 0 /\ apartments > 0

(***************************************************************************)
(* The process that is hooked is the one that was judged: though a second  *)
(* passes and pids are reused, a process of a system program is hooked     *)
(* only if its own path was not read, and one that every list finds safe   *)
(* only if its own name or the list was not read.  (A list finds what its  *)
(* first line names, see GetParamsFromFile, and nothing while rewritten.)  *)
(***************************************************************************)
Excused(p) ==
    /\ program[p] \in SystemPrograms => "path" \in unread
    /\ (\A content \in Lists : IsProcessSafe(program[p], content))
          => unread \cap {"name", "list"} # {}

SafeNeverHooked == [][\A p \in hooked' \ hooked : Excused(p)]_vars

\* Some list finds program q safe.
FoundSafe(q) == \E content \in Lists : IsProcessSafe(q, content)

Dealt(p) ==
    \/ p \notin alive
    \/ p \in hooked
    \/ p \in examined /\ (program[p] \in SystemPrograms \/ FoundSafe(program[p]))

(***************************************************************************)
(* As long as there is room for the pids of all processes, a process that  *)
(* exists when CheckOpenProcesses asks for them and does not exit is       *)
(* hooked, unless it is safe.                                              *)
(***************************************************************************)
RoomForAll == pc = "enumerate" => Cardinality(alive) <= MaxIds

ScanCovers ==
    []RoomForAll => \A p \in Pids : pc = "enumerate" /\ p \in alive ~> Dealt(p)

(***************************************************************************)
(* A process that starts when WMI watches, does not exit and has a pid WMI *)
(* did not see the second before is hooked, unless it is safe.             *)
(***************************************************************************)
WatchCovers ==
    \A p \in Pids : caller = "watch" /\ p \in alive \ baseline ~> Dealt(p)

(***************************************************************************)
(* Stated by README.md:3, and not so: a process that exists while the      *)
(* program runs and does not exit is hooked, unless it is safe.  One that  *)
(* starts after EnumProcesses and before the subscription is never seen.   *)
(***************************************************************************)
EveryProcessCovered ==
    \A p \in Pids : pc # "privilege" /\ p \in alive ~> Dealt(p)
=============================================================================
