---------------------------- MODULE SettingsFeed ----------------------------
(***************************************************************************)
(* The settings feed of ComputerLock: the thread UpdateLoop::LoopForever,  *)
(* which asks the admin server for the settings and rewrites the three     *)
(* settings files, the TCP connection it uses, and the server.             *)
(*                                                                         *)
(* The files are read at any moment, without any lock, by                  *)
(* ProcessHandler::IsProcessSafe in this process and by IsImportant in     *)
(* every process the hook library was injected into.  Such a read sees the *)
(* value of file in one state, so what readers may see is what the         *)
(* invariants say of file.                                                 *)
(***************************************************************************)
EXTENDS SettingsText, FiniteSets

CONSTANTS
    Policies,       \* Policies[v]: the v-th version of the settings
    Networks,       \* the networks a behaviour may start with
    Junk,           \* what reading past the end of the vector may produce
    SegmentLengths, \* bound: the lengths of the segments responses are cut to
    MaxOutstanding, \* bound: requests not yet answered and delivered
    MaxFaults       \* bound: crashes, kills and failures of the system

Versions == DOMAIN Policies

ASSUME PoliciesAssumption == Policies \in Seq(PolicyType) \ {<<>>}

ASSUME NetworksAssumption == Networks \subseteq {"prompt", "whole", "segmented"}

ASSUME JunkAssumption == Junk \in Text

ASSUME BoundsAssumption ==
    /\ SegmentLengths \subseteq Nat \ {0}
    /\ MaxOutstanding \in Nat
    /\ MaxFaults \in Nat

VARIABLES
    pc,         \* where LoopForever is; "down" when the process is not running
    sock,       \* the client's socket
    requests,   \* requests the server has received and not answered
    wire,       \* responses sent and not delivered yet, oldest first
    inbox,      \* characters the client's socket holds for recv
    response,   \* the string ReceiveBytes returned
    elem,       \* the element of the response being stored: 1, 2 or 3
    element,    \* its text
    file,       \* the content of the settings files
    missed,     \* the files that could not be opened when they were last to be rewritten
    version,    \* the version of the settings the admin has published last
    serverUp,   \* the server runs
    network,    \* how the network delivers
    faults      \* faults so far

serverVars == <<version, serverUp>>
connection == <<sock, requests, wire, inbox>>
parse      == <<response, elem, element>>
disk       == <<file, missed>>
vars == <<pc, connection, parse, disk, serverVars, network, faults>>

(***************************************************************************)
(* File n is the one ParseSettingsResponse stores element n in: 1 is       *)
(* processes, 2 is file_paths, 3 is file_extensions.                       *)
(***************************************************************************)
Files == 1 .. 3

PolicyField(v, n) ==
    CASE n = 1 -> Policies[v].processes
      [] n = 2 -> Policies[v].paths
      [] n = 3 -> Policies[v].exts

Locations == {"send", "reconnect", "await", "element", "flush", "down"}

(***************************************************************************)
(* A socket is unconnected after socket() or a failed connect; broken when *)
(* the peer is gone and TCP has not noticed (send still succeeds); reset   *)
(* when it has (send fails).                                               *)
(***************************************************************************)
SocketStates == {"unconnected", "connected", "broken", "reset"}

Init ==
    /\ pc = "send"
    /\ sock \in {"unconnected", "connected"}
    /\ requests = 0
    /\ wire = <<>>
    /\ inbox = <<>>
    /\ response = <<>>
    /\ elem = 1
    /\ element = <<>>
    /\ file = [n \in Files |-> <<>>]      \* the installer ships empty files
    /\ missed = {}
    /\ version = 1
    /\ serverUp = (sock = "connected")
    /\ network \in Networks
    /\ faults = 0

-----------------------------------------------------------------------------
(* The client thread.                                                      *)

\* send() returned a count: a connected peer gets the request, a broken one not.
SendRequest ==
    /\ pc = "send"
    /\ sock \in {"connected", "broken"}
    /\ requests + Len(wire) < MaxOutstanding
    /\ requests' = IF sock = "connected" THEN requests + 1 ELSE requests
    /\ pc' = "await"
    /\ UNCHANGED <<sock, wire, inbox, parse, disk, serverVars, network, faults>>

(***************************************************************************)
(* send() returned SOCKET_ERROR: Close, and RecreateSocket, which closes   *)
(* once more and makes a fresh socket.  What the old one held is gone.     *)
(***************************************************************************)
DropConnection_InboxKept ==      \* mutant: what had arrived is read later
    /\ requests' = 0
    /\ wire' = <<>>
    /\ UNCHANGED inbox

DropConnection ==
    /\ requests' = 0
    /\ wire' = <<>>
    /\ inbox' = <<>>

SendFails_NoReconnect ==         \* mutant: the next cycle sends on the new socket
    /\ pc = "send"
    /\ sock \in {"unconnected", "reset"}
    /\ sock' = "unconnected"
    /\ DropConnection
    /\ UNCHANGED <<pc, parse, disk, serverVars, network, faults>>

SendFails ==
    /\ pc = "send"
    /\ sock \in {"unconnected", "reset"}
    /\ sock' = "unconnected"
    /\ DropConnection
    /\ pc' = "reconnect"
    /\ UNCHANGED <<parse, disk, serverVars, network, faults>>

\* ReConnectSocket: a failed connect is printed and otherwise ignored.
ReConnectSocket ==
    /\ pc = "reconnect"
    /\ sock' = IF serverUp THEN "connected" ELSE "unconnected"
    /\ pc' = "send"
    /\ UNCHANGED <<requests, wire, inbox, parse, disk, serverVars, network, faults>>

\* ReceiveBytes takes whatever has arrived, in pieces of 1024 bytes, until none is left.
ReceiveBytes_OnePiece ==         \* mutant: recv is called once
    /\ response' = SubSeq(inbox, 1, Smaller(6, Len(inbox)))
    /\ inbox' = SubSeq(inbox, 7, Len(inbox))

ReceiveBytes ==
    /\ response' = inbox
    /\ inbox' = <<>>

(***************************************************************************)
(* LoopForever sleeps one second before ReceiveBytes.  On a prompt network *)
(* that is enough for the answer to every request that was sent.           *)
(***************************************************************************)
SleptEnough ==
    network = "prompt" /\ sock = "connected" => requests = 0 /\ wire = <<>>

(***************************************************************************)
(* ParseSettingsResponse stores results[1], results[2] and results[3], in  *)
(* this order: the element after n, from 0 (none yet) to 0 (all stored).   *)
(***************************************************************************)
Following_Reversed(n) ==         \* mutant: the extensions are stored first
    IF n = 0 THEN 3 ELSE n - 1

Following(n) ==
    IF n = 3 THEN 0 ELSE n + 1

ReadAnswer ==
    /\ pc = "await"
    /\ SleptEnough
    /\ ReceiveBytes
    /\ elem' = Following(0)
    /\ pc' = IF inbox = <<>> THEN "send" ELSE "element"
    /\ UNCHANGED <<sock, requests, wire, element, disk, serverVars, network, faults>>

(***************************************************************************)
(* The first half of RewriteFile: opening the file for output truncates    *)
(* it.  Nothing asks whether it could be opened: if not, the file stays as *)
(* it is, the stream drops what is written to it, and the next file is     *)
(* rewritten all the same.                                                 *)
(***************************************************************************)
Open(n) ==
    \/ /\ file' = [file EXCEPT ![n] = <<>>]
       /\ missed' = missed \ {n}
       /\ UNCHANGED faults
    \/ /\ faults < MaxFaults
       /\ faults' = faults + 1
       /\ missed' = missed \cup {n}
       /\ UNCHANGED file

\* results[elem], given to RewriteFile.
OpenFile ==
    /\ pc = "element"
    /\ HasElement(response, elem)
    /\ element' = Element(response, elem)
    /\ Open(elem)
    /\ pc' = "flush"
    /\ UNCHANGED <<connection, response, elem, serverVars, network>>

(***************************************************************************)
(* results[elem] past the end of the vector is undefined: the process dies *)
(* or goes on with a string it should not have.                            *)
(***************************************************************************)
ReadPastEnd ==
    /\ pc = "element"
    /\ ~HasElement(response, elem)
    /\ \/ /\ element' = Junk
          /\ Open(elem)
          /\ pc' = "flush"
          /\ UNCHANGED <<connection, response, elem, serverVars, network>>
       \/ /\ pc' = "down"
          /\ sock' = "unconnected"
          /\ DropConnection
          /\ UNCHANGED <<parse, disk, serverVars, network, faults>>

(***************************************************************************)
(* The second half of RewriteFile: the stream, if it is open, is flushed   *)
(* when it is destroyed.  The text is taken to fit the stream's buffer; a  *)
(* longer one reaches the file in pieces.                                  *)
(***************************************************************************)
Flush == file' = IF elem \in missed THEN file ELSE [file EXCEPT ![elem] = element]

FlushFile_NoLast ==              \* mutant: a fourth element is stored
    /\ pc = "flush"
    /\ Flush
    /\ pc' = "element"
    /\ elem' = elem + 1
    /\ UNCHANGED <<connection, response, element, missed, serverVars, network, faults>>

FlushFile ==
    /\ pc = "flush"
    /\ Flush
    /\ IF Following(elem) = 0
       THEN pc' = "send" /\ UNCHANGED elem
       ELSE pc' = "element" /\ elem' = Following(elem)
    /\ UNCHANGED <<connection, response, element, missed, serverVars, network, faults>>

(***************************************************************************)
(* The process ends: killed, the machine stopped, or an exception that     *)
(* nothing catches in the detached thread (socket or getaddrinfo failed).  *)
(* An open file that was not flushed stays empty.                          *)
(***************************************************************************)
Terminate ==
    /\ pc # "down"
    /\ faults < MaxFaults
    /\ faults' = faults + 1
    /\ pc' = "down"
    /\ sock' = "unconnected"
    /\ DropConnection
    /\ UNCHANGED <<parse, disk, serverVars, network>>

\* main starts again: SocketClient's constructor connects, or fails to.
Launch ==
    /\ pc = "down"
    /\ sock' = IF serverUp THEN "connected" ELSE "unconnected"
    /\ pc' = "send"
    /\ UNCHANGED <<requests, wire, inbox, parse, disk, serverVars, network, faults>>

ClientStep ==
    \/ SendRequest \/ SendFails \/ ReConnectSocket \/ ReadAnswer
    \/ OpenFile \/ ReadPastEnd \/ FlushFile

-----------------------------------------------------------------------------
(* The server and the network.                                             *)

Publish ==
    /\ version + 1 \in Versions
    /\ version' = version + 1
    /\ UNCHANGED <<pc, connection, parse, disk, serverUp, network, faults>>

Reply ==
    /\ sock = "connected"
    /\ requests > 0
    /\ requests' = requests - 1
    /\ wire' = Append(wire, Response(Policies[version]))
    /\ UNCHANGED <<pc, sock, inbox, parse, disk, serverVars, network, faults>>

Deliver ==
    /\ sock = "connected"
    /\ wire # <<>>
    /\ inbox' = inbox \o Head(wire)
    /\ wire' = Tail(wire)
    /\ UNCHANGED <<pc, sock, requests, parse, disk, serverVars, network, faults>>

\* TCP keeps the order of the bytes and nothing else: a segment may end anywhere.
DeliverSegment ==
    /\ sock = "connected"
    /\ network = "segmented"
    /\ wire # <<>>
    /\ \E n \in SegmentLengths :
        /\ n < Len(Head(wire))
        /\ inbox' = inbox \o SubSeq(Head(wire), 1, n)
        /\ wire' = <<SubSeq(Head(wire), n + 1, Len(Head(wire)))>> \o Tail(wire)
    /\ UNCHANGED <<pc, sock, requests, parse, disk, serverVars, network, faults>>

\* The network stops delaying and splitting responses.
NetworkCalms ==
    /\ network # "prompt"
    /\ network' = "prompt"
    /\ UNCHANGED <<pc, connection, parse, disk, serverVars, faults>>

ServerCrash ==
    /\ serverUp
    /\ faults < MaxFaults
    /\ faults' = faults + 1
    /\ serverUp' = FALSE
    /\ requests' = 0
    /\ wire' = <<>>
    /\ sock' = IF sock = "connected" THEN "broken" ELSE sock
    /\ UNCHANGED <<pc, inbox, parse, disk, version, network>>

ServerRestart ==
    /\ ~serverUp
    /\ serverUp' = TRUE
    /\ UNCHANGED <<pc, connection, parse, disk, version, network, faults>>

\* The reset reaches the client; what it had not read may be lost with it.
PeerReset ==
    /\ sock = "broken"
    /\ sock' = "reset"
    /\ inbox' \in {inbox, <<>>}
    /\ UNCHANGED <<pc, requests, wire, parse, disk, serverVars, network, faults>>

Environment ==
    \/ Publish \/ Reply \/ Deliver \/ DeliverSegment \/ NetworkCalms
    \/ ServerCrash \/ ServerRestart \/ PeerReset

Next == ClientStep \/ Terminate \/ Launch \/ Environment

(***************************************************************************)
(* The thread is scheduled and its sleeps end; the server answers, TCP     *)
(* delivers on a connection that is up and notices one that is not.        *)
(* Nothing is assumed of the admin, the user or the machine.               *)
(***************************************************************************)
Fairness ==
    /\ WF_vars(ClientStep)
    /\ WF_vars(Reply)
    /\ WF_vars(Deliver)
    /\ WF_vars(PeerReset)

Spec == Init /\ [][Next]_vars

FairSpec == Spec /\ Fairness

-----------------------------------------------------------------------------
(* Properties.                                                             *)

(***************************************************************************)
(* The type invariant: every variable of the feed has its shape; no        *)
(* element of the answer but 1 to 3 is ever looked up.                     *)
(***************************************************************************)
TypeOK ==
    /\ pc \in Locations
    /\ sock \in SocketStates
    /\ requests \in Nat
    /\ wire \in Seq(Text)
    /\ inbox \in Text
    /\ response \in Text
    /\ elem \in Files
    /\ element \in Text
    /\ file \in [Files -> Text]
    /\ missed \subseteq Files
    /\ version \in Versions
    /\ serverUp \in BOOLEAN
    /\ network \in {"prompt", "whole", "segmented"}
    /\ faults \in Nat

\* File n is empty or holds field n of a version the server has had.
Genuine(n) ==
    \/ file[n] = <<>>
    \/ \E v \in 1 .. version : file[n] = PolicyField(v, n)

(***************************************************************************)
(* On a network that answers within the second LoopForever sleeps, no      *)
(* crash, restart or reconnection ever leaves a settings file with         *)
(* anything but the field of one published version, or empty.              *)
(***************************************************************************)
FilesGenuine == \A n \in Files : Genuine(n)

(***************************************************************************)
(* The files are rewritten processes first and extensions last, and the    *)
(* process may die between two of them: a later file is never from a newer *)
(* version than an earlier one, so no answer overtakes an older answer.    *)
(* Only a file that could not be opened when its turn came may be older    *)
(* than those after it, and it is put right by the next rewriting.         *)
(***************************************************************************)
WrittenInOrder ==
    \A m, n \in Files :
        m < n /\ m \notin missed /\ file[m] # <<>> /\ file[n] # <<>> =>
            \E v, w \in 1 .. version :
                /\ w <= v
                /\ file[m] = PolicyField(v, m)
                /\ file[n] = PolicyField(w, n)

(***************************************************************************)
(* On such a network the parser never reads past the end of the elements,  *)
(* whatever crashes and reconnections happen, provided no version's list   *)
(* of extensions is empty: getline yields no element after a delimiter     *)
(* that ends the text.                                                     *)
(***************************************************************************)
NothingReadPastEnd == pc = "element" => HasElement(response, elem)

(***************************************************************************)
(* What the readers conclude, at any moment of the rewriting: a process is *)
(* taken for safe only if a published version lists it, and a file type is *)
(* blocked exactly if one and the same published version blocks it, or     *)
(* nothing is blocked because the file is being rewritten.                 *)
(***************************************************************************)
Listed(n) == UNION {Lines(PolicyField(v, n), Newline) : v \in Versions}

ReadersJudgeByOneVersion ==
    /\ \A processName \in Listed(1) :
          IsProcessSafe(processName, file[1])
              => \E v \in 1 .. version :
                    processName \in Lines(PolicyField(v, 1), Newline)
    /\ file[3] # <<>> =>
          \E v \in 1 .. version : \A fileType \in Listed(3) :
              IsImportant(fileType, file[3])
                  <=> \E line \in Lines(PolicyField(v, 3), Newline) : EndsWith(fileType, line)

(***************************************************************************)
(* While answers may be late but arrive whole, several may be read as one  *)
(* text: the processes and the paths are still those of one version,       *)
(* because the parser indexes from the front.                              *)
(***************************************************************************)
ProcessesAndPathsGenuine == network = "whole" => Genuine(1) /\ Genuine(2)

(***************************************************************************)
(* Whatever the network did before, once it is calm, the server is up and  *)
(* the process runs, the feed repairs itself: the files end up holding     *)
(* nothing but the published settings, and hold them all again and again   *)
(* (each is empty for a moment whenever it is rewritten).                  *)
(***************************************************************************)
Calm == network = "prompt" /\ serverUp /\ pc # "down"

Current(n) == file[n] = PolicyField(version, n)

Converges ==
    <>[]Calm =>
        /\ \A n \in Files : <>[](file[n] = <<>> \/ Current(n))
        /\ []<>(\A n \in Files : Current(n))

(***************************************************************************)
(* Stated by Client.h:98, and not so: a late answer read together with the *)
(* next one leaves that one's length field in file_extensions.             *)
(***************************************************************************)
ExtensionsGenuine == Genuine(3)
=============================================================================
