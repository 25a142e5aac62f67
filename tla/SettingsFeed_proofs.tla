------------------------ MODULE SettingsFeed_proofs ------------------------
(***************************************************************************)
(* Theorems about the settings feed, for every list of policies and every  *)
(* bound: the type invariant, and that on a prompt network the settings    *)
(* files hold published fields only, written in order, and that the parser *)
(* finds every element it looks up; and that on a network that delays the  *)
(* processes and the paths are published ones.                             *)
(***************************************************************************)
EXTENDS SettingsFeed, SettingsText_proofs

\* A version is a number, and the settings of one have the fields they should.
LEMMA PolicyOfVersion ==
    /\ Versions \subseteq Nat \ {0}
    /\ 1 \in Versions
    /\ \A v \in Versions : 1 .. v \subseteq Versions
    /\ \A v \in Versions : Policies[v] \in PolicyType
<1>1. Policies \in Seq(PolicyType) /\ Policies # <<>>
  BY PoliciesAssumption
<1>2. Len(Policies) \in Nat /\ Len(Policies) # 0 /\ DOMAIN Policies = 1 .. Len(Policies)
  BY <1>1, EmptySeq, LenProperties
<1>. QED BY <1>1, <1>2 DEF Versions

\* The response of a version is a text.
LEMMA ResponseType ==
    ASSUME NEW v \in Versions
    PROVE  Response(Policies[v]) \in Text
BY PolicyOfVersion, ResponseElements

\* The empty text is a text: what a file holds after truncation.
LEMMA EmptyText == <<>> \in Text
BY DEF Text

-----------------------------------------------------------------------------
(* The type invariant.                                                     *)

\* The initial state is well typed.
LEMMA TypeInit == Init => TypeOK
BY EmptyText, PolicyOfVersion, NetworksAssumption
   DEF Init, TypeOK, Locations, SocketStates, Files

\* Every step keeps the state well typed, one case per action.
LEMMA TypeNext == TypeOK /\ [Next]_vars => TypeOK'
<1>. SUFFICES ASSUME TypeOK, [Next]_vars PROVE TypeOK'
  OBVIOUS
<1>. USE EmptyText
<1>0. Open(elem) => file' \in [Files -> Text] /\ missed' \subseteq Files /\ faults' \in Nat
  <2>1. CASE file' = [file EXCEPT ![elem] = <<>>] /\ missed' = missed \ {elem}
                /\ UNCHANGED faults
    BY <2>1 DEF TypeOK
  <2>2. CASE faults' = faults + 1 /\ missed' = missed \cup {elem} /\ UNCHANGED file
    BY <2>2 DEF TypeOK
  <2>. QED BY <2>1, <2>2 DEF Open
<1>. USE DEF TypeOK, Locations, SocketStates, Files, connection, parse, disk, serverVars
<1>1. CASE SendRequest
  BY <1>1 DEF SendRequest
<1>2. CASE SendFails
  BY <1>2 DEF SendFails, DropConnection
<1>3. CASE ReConnectSocket
  BY <1>3 DEF ReConnectSocket
<1>4. CASE ReadAnswer
  BY <1>4 DEF ReadAnswer, ReceiveBytes, Following
<1>5. CASE OpenFile
  <2>1. Element(response, elem) \in Text
    BY ElementType
  <2>. QED BY <1>0, <1>5, <2>1 DEF OpenFile
<1>6. CASE ReadPastEnd
  <2>1. CASE pc' = "flush"
    <3>1. element' = Junk /\ Open(elem)
      BY <1>6, <2>1 DEF ReadPastEnd
    <3>2. element' \in Text
      BY <3>1, JunkAssumption
    <3>. QED BY <1>0, <1>6, <2>1, <3>1, <3>2 DEF ReadPastEnd
  <2>2. CASE pc' = "down"
    <3>1. UNCHANGED <<parse, disk, serverVars, network, faults>>
      BY <1>6, <2>2 DEF ReadPastEnd
    <3>2. sock' = "unconnected" /\ requests' = 0 /\ wire' = <<>> /\ inbox' = <<>>
      BY <1>6, <2>2 DEF ReadPastEnd, DropConnection
    <3>. QED BY <2>2, <3>1, <3>2
  <2>. QED BY <1>6, <2>1, <2>2 DEF ReadPastEnd
<1>7. CASE FlushFile
  BY <1>7 DEF FlushFile, Flush, Following
<1>8. CASE Terminate
  BY <1>8 DEF Terminate, DropConnection
<1>9. CASE Launch
  BY <1>9 DEF Launch
<1>10. CASE Publish
  BY <1>10 DEF Publish
<1>11. CASE Reply
  <2>1. Response(Policies[version]) \in Text
    BY ResponseType
  <2>. QED BY <1>11, <2>1 DEF Reply
<1>12. CASE Deliver
  <2>1. Head(wire) \in Text /\ Tail(wire) \in Seq(Text)
    BY <1>12, HeadTailProperties DEF Deliver
  <2>2. inbox \o Head(wire) \in Text
    BY <2>1, Concatenation
  <2>. QED BY <1>12, <2>1, <2>2 DEF Deliver
<1>13. CASE DeliverSegment
  <2>1. PICK n \in SegmentLengths :
          /\ n < Len(Head(wire))
          /\ inbox' = inbox \o SubSeq(Head(wire), 1, n)
          /\ wire' = <<SubSeq(Head(wire), n + 1, Len(Head(wire)))>> \o Tail(wire)
    BY <1>13 DEF DeliverSegment
  <2>. DEFINE h == Head(wire)
  <2>2. h \in Text /\ Tail(wire) \in Seq(Text)
    BY <1>13, HeadTailProperties DEF DeliverSegment
  <2>3. n \in Nat \ {0} /\ Len(h) \in Nat
    BY <2>2, BoundsAssumption DEF Text
  <2>. HIDE DEF h
  <2>4. \A i, j \in Nat \ {0} : j <= Len(h) => SubSeq(h, i, j) \in Text
    <3>. TAKE i, j \in Nat \ {0}
    <3>. HAVE j <= Len(h)
    <3>1. \A k \in i .. j : h[k] \in Char BY <2>2, <2>3 DEF Text
    <3>. QED BY <3>1, SubSeqProperties DEF Text
  <2>5. SubSeq(h, 1, n) \in Text /\ SubSeq(h, n + 1, Len(h)) \in Text
    BY <2>1, <2>3, <2>4 DEF h
  <2>6. inbox \o SubSeq(h, 1, n) \in Text
    BY <2>5, Concatenation
  <2>7. <<SubSeq(h, n + 1, Len(h))>> \o Tail(wire) \in Seq(Text)
    BY <2>2, <2>5
  <2>8. inbox' \in Text /\ wire' \in Seq(Text)
    BY <2>1, <2>6, <2>7 DEF h
  <2>. QED BY <1>13, <2>8 DEF DeliverSegment
<1>14. CASE NetworkCalms
  BY <1>14 DEF NetworkCalms
<1>15. CASE ServerCrash
  <2>1. sock' \in SocketStates
    BY <1>15 DEF ServerCrash
  <2>2. requests' \in Nat /\ wire' \in Seq(Text) /\ faults' \in Nat
    BY <1>15 DEF ServerCrash
  <2>3. serverUp' \in BOOLEAN
    BY <1>15 DEF ServerCrash
  <2>. QED BY <1>15, <2>1, <2>2, <2>3 DEF ServerCrash
<1>16. CASE ServerRestart
  BY <1>16 DEF ServerRestart
<1>17. CASE PeerReset
  BY <1>17 DEF PeerReset
<1>18. CASE UNCHANGED vars
  BY <1>18 DEF vars
<1>. QED
  BY <1>1, <1>2, <1>3, <1>4, <1>5, <1>6, <1>7, <1>8, <1>9, <1>10, <1>11,
     <1>12, <1>13, <1>14, <1>15, <1>16, <1>17, <1>18
     DEF Next, ClientStep, Environment

\* Every variable keeps its shape, whatever the server, the network and the
\* machine do: in particular no element but 1 to 3 is ever looked up.
THEOREM TypeCorrect == Spec => []TypeOK
BY TypeInit, TypeNext, PTL DEF Spec

-----------------------------------------------------------------------------
(***************************************************************************)
(* The inductive invariant of a prompt network.  FilesGenuine alone says   *)
(* nothing of the answer on its way to a file, so it is not inductive: the *)
(* strengthening adds that at most one answer is anywhere between the      *)
(* server and the files, and which version each of the three files and     *)
(* that answer are from: one that could not be opened stays behind.        *)
(***************************************************************************)
Answer(v) == Response(Policies[v])

\* Nothing is under way; or the request is, or the answer, sent or delivered.
InFlight(v) ==
    \/ requests = 0 /\ wire = <<>> /\ inbox = <<>>
    \/ /\ pc = "await"
       /\ \/ sock = "connected" /\ requests = 1 /\ wire = <<>> /\ inbox = <<>>
          \/ sock = "connected" /\ requests = 0 /\ wire = <<Answer(v)>> /\ inbox = <<>>
          \/ requests = 0 /\ wire = <<>> /\ inbox = Answer(v)

\* The answer of version v is being stored: the files before elem are done.
Storing(a, b, v) ==
    pc \in {"element", "flush"} =>
        /\ response = Answer(v)
        /\ pc = "flush" => element = PolicyField(v, elem)
        /\ elem > 1 /\ 1 \notin missed => a = v
        /\ elem > 2 /\ 2 \notin missed => b = v

Stored(a, b, c) ==
    /\ file[1] \in {<<>>, PolicyField(a, 1)}
    /\ file[2] \in {<<>>, PolicyField(b, 2)}
    /\ file[3] \in {<<>>, PolicyField(c, 3)}

Explained(a, b, c, v) ==
    /\ {a, b, c, v} \subseteq 1 .. version
    /\ a <= v /\ b <= v /\ c <= v
    /\ 1 \notin missed => b <= a /\ c <= a
    /\ 2 \notin missed => c <= b
    /\ InFlight(v)
    /\ Storing(a, b, v)
    /\ Stored(a, b, c)

FeedInv ==
    /\ TypeOK
    /\ network = "prompt"
    /\ \E a, b, c, v \in 1 .. version : Explained(a, b, c, v)

\* The networks and the settings the theorem is about: answers arrive within
\* the second the client waits, and every version lists an extension.
PromptAndComplete ==
    /\ Networks = {"prompt"}
    /\ \A v \in Versions : Policies[v].exts # <<>>

\* An element of an answer is the field of its version.
LEMMA AnswerElements ==
    ASSUME PromptAndComplete, NEW v \in Versions, NEW n \in Files
    PROVE  /\ HasElement(Answer(v), n)
           /\ Element(Answer(v), n) = PolicyField(v, n)
<1>1. Policies[v] \in PolicyType
  BY PolicyOfVersion
<1>2. Policies[v].exts # <<>>
  BY DEF PromptAndComplete
<1>3. n = 1 \/ n = 2 \/ n = 3
  BY DEF Files
<1>. QED BY <1>1, <1>2, <1>3, ResponseElements DEF Answer, PolicyField

\* The initial state satisfies the inductive invariant.
LEMMA FeedInit == PromptAndComplete /\ Init => FeedInv
<1>. SUFFICES ASSUME PromptAndComplete, Init PROVE FeedInv
  OBVIOUS
<1>1. TypeOK BY TypeInit
<1>2. network = "prompt" BY DEF Init, PromptAndComplete
<1>3. version = 1 /\ 1 \in 1 .. version BY DEF Init
<1>4. Explained(1, 1, 1, 1)
  BY <1>3 DEF Init, Explained, InFlight, Storing, Stored, Files
<1>. QED BY <1>1, <1>2, <1>3, <1>4 DEF FeedInv

\* Every step preserves the inductive invariant, one case per action.
LEMMA FeedNext == PromptAndComplete /\ FeedInv /\ [Next]_vars => FeedInv'
<1>. SUFFICES ASSUME PromptAndComplete, FeedInv, [Next]_vars PROVE FeedInv'
  OBVIOUS
<1>1. TypeOK /\ TypeOK' /\ network = "prompt"
  BY TypeNext DEF FeedInv
<1>2. PICK a, b, c, v \in 1 .. version : Explained(a, b, c, v)
  BY DEF FeedInv
<1>3. /\ version \in Nat /\ v \in Versions
      /\ a \in Nat /\ b \in Nat /\ c \in Nat /\ v \in Nat
  BY <1>1, PolicyOfVersion DEF TypeOK
\* It is enough to explain the next state with some versions.
<1>4. ASSUME NEW a1, NEW b1, NEW c1, NEW v1,
             network' = network, Explained(a1, b1, c1, v1)'
      PROVE  FeedInv'
  BY <1>1, <1>4 DEF FeedInv, Explained
<1>. USE DEF connection, parse, disk, serverVars
\* A step that does not store anything only has to say what is under way.
<1>5. ASSUME UNCHANGED <<response, elem, element, disk, network>>,
             version' \in Nat, version' >= version,
             NEW w \in v .. version', InFlight(w)',
             pc' \in {"element", "flush"} => pc' = pc /\ w = v
      PROVE  FeedInv'
  <2>1. {a, b, c, w} \subseteq 1 .. version' /\ a <= w /\ b <= w /\ c <= w
    BY <1>2, <1>3, <1>5 DEF Explained
  <2>2. Storing(a, b, w)'
    BY <1>2, <1>5 DEF Explained, Storing, Answer, PolicyField
  <2>3. Stored(a, b, c)'
    BY <1>2, <1>5 DEF Explained, Stored, PolicyField
  <2>4. /\ 1 \notin missed' => b <= a /\ c <= a
        /\ 2 \notin missed' => c <= b
    BY <1>2, <1>5 DEF Explained
  <2>5. Explained(a, b, c, w)'
    BY <1>5, <2>1, <2>2, <2>3, <2>4 DEF Explained
  <2>. QED BY <1>4, <1>5, <2>5
<1>6. CASE SendRequest
  <2>1. InFlight(v)'
    BY <1>2, <1>6 DEF SendRequest, Explained, InFlight
  <2>. QED BY <1>3, <1>5, <1>6, <2>1 DEF SendRequest
<1>7. CASE SendFails
  <2>1. InFlight(v)'
    BY <1>7 DEF SendFails, DropConnection, InFlight
  <2>. QED BY <1>3, <1>5, <1>7, <2>1 DEF SendFails
<1>8. CASE ReConnectSocket
  <2>1. InFlight(v)'
    BY <1>2, <1>8 DEF ReConnectSocket, Explained, InFlight
  <2>. QED BY <1>3, <1>5, <1>8, <2>1 DEF ReConnectSocket
<1>9. CASE ReadAnswer
  <2>1. requests' = 0 /\ wire' = <<>> /\ inbox' = <<>>
    BY <1>1, <1>2, <1>9 DEF ReadAnswer, ReceiveBytes, SleptEnough, Explained, InFlight
  <2>2. inbox = <<>> \/ inbox = Answer(v)
    BY <1>2, <1>9 DEF ReadAnswer, Explained, InFlight
  <2>3. Storing(a, b, v)'
    BY <1>9, <2>2 DEF ReadAnswer, ReceiveBytes, Following, Storing, Answer, PolicyField
  <2>4. Stored(a, b, c)'
    BY <1>2, <1>9 DEF ReadAnswer, Explained, Stored, PolicyField
  <2>5. Explained(a, b, c, v)'
    BY <1>2, <1>9, <2>1, <2>3, <2>4 DEF ReadAnswer, Explained, InFlight
  <2>. QED BY <1>4, <1>9, <2>5 DEF ReadAnswer
<1>10. CASE OpenFile
  <2>1. InFlight(v)'
    BY <1>2, <1>10 DEF OpenFile, Explained, InFlight
  <2>2. element' = PolicyField(v, elem)
    BY <1>1, <1>2, <1>3, <1>10, AnswerElements DEF OpenFile, Explained, Storing, TypeOK
  <2>3. elem = 1 \/ elem = 2 \/ elem = 3
    BY <1>1 DEF TypeOK, Files
  <2>4. response = Answer(v) /\ version' = version /\ network' = network
    BY <1>2, <1>10 DEF OpenFile, Explained, Storing
\* A file that was opened is empty, and counts as one of the version stored.
  <2>5. CASE file' = [file EXCEPT ![elem] = <<>>] /\ missed' = missed \ {elem}
    <3>. PICK a1, b1, c1 : /\ a1 = IF elem = 1 THEN v ELSE a
                           /\ b1 = IF elem = 2 THEN v ELSE b
                           /\ c1 = IF elem = 3 THEN v ELSE c
      OBVIOUS
    <3>1. Storing(a1, b1, v)'
      BY <1>2, <1>10, <2>2, <2>3, <2>4, <2>5
         DEF OpenFile, Explained, Storing, Answer, PolicyField
    <3>2. Stored(a1, b1, c1)'
      BY <1>1, <1>2, <1>10, <2>3, <2>5
         DEF OpenFile, Explained, Stored, PolicyField, TypeOK, Files
    <3>3. {a1, b1, c1, v} \subseteq 1 .. version' /\ a1 <= v /\ b1 <= v /\ c1 <= v
      BY <1>2, <1>3, <2>4 DEF Explained
    <3>4. /\ 1 \notin missed' => b1 <= a1 /\ c1 <= a1
          /\ 2 \notin missed' => c1 <= b1
      BY <1>2, <1>3, <1>10, <2>3, <2>5 DEF OpenFile, Explained, Storing
    <3>5. Explained(a1, b1, c1, v)'
      BY <2>1, <3>1, <3>2, <3>3, <3>4 DEF Explained
    <3>. QED BY <1>4, <2>4, <3>5
\* One that was not keeps what it had.
  <2>6. CASE file' = file /\ missed' = missed \cup {elem}
    <3>1. Storing(a, b, v)'
      BY <1>2, <1>10, <2>2, <2>4, <2>6 DEF OpenFile, Explained, Storing, Answer, PolicyField
    <3>2. Stored(a, b, c)'
      BY <1>2, <2>6 DEF Explained, Stored, PolicyField
    <3>3. Explained(a, b, c, v)'
      BY <1>2, <2>1, <2>4, <2>6, <3>1, <3>2 DEF Explained
    <3>. QED BY <1>4, <2>4, <3>3
  <2>. QED BY <1>10, <2>5, <2>6 DEF OpenFile, Open
<1>11. CASE ReadPastEnd
  <2>1. response = Answer(v) /\ elem \in Files
    BY <1>1, <1>2, <1>11 DEF ReadPastEnd, Explained, Storing, TypeOK
  <2>. QED BY <1>3, <1>11, <2>1, AnswerElements DEF ReadPastEnd
<1>12. CASE FlushFile
  <2>1. /\ response = Answer(v) /\ element = PolicyField(v, elem)
        /\ elem > 1 /\ 1 \notin missed => a = v
        /\ elem > 2 /\ 2 \notin missed => b = v
    BY <1>2, <1>12 DEF FlushFile, Explained, Storing
  <2>2. InFlight(v)'
    BY <1>2, <1>12 DEF FlushFile, Explained, InFlight
  <2>3. elem = 1 \/ elem = 2 \/ elem = 3
    BY <1>1 DEF TypeOK, Files
  <2>4. /\ missed' = missed /\ version' = version /\ network' = network
        /\ response' = response
        /\ pc' \in {"element", "flush"} => elem' = elem + 1 /\ pc' = "element"
    BY <1>12, <2>3 DEF FlushFile, Following
\* A file that was opened holds the version being stored from now on.
  <2>. PICK a1, b1, c1 : /\ a1 = IF elem = 1 /\ 1 \notin missed THEN v ELSE a
                         /\ b1 = IF elem = 2 /\ 2 \notin missed THEN v ELSE b
                         /\ c1 = IF elem = 3 /\ 3 \notin missed THEN v ELSE c
    OBVIOUS
  <2>5. Storing(a1, b1, v)'
    BY <2>1, <2>3, <2>4 DEF Storing, Answer, PolicyField
  <2>6. Stored(a1, b1, c1)'
    BY <1>1, <1>2, <1>12, <2>1, <2>3
       DEF FlushFile, Flush, Explained, Stored, PolicyField, TypeOK, Files
  <2>7. {a1, b1, c1, v} \subseteq 1 .. version' /\ a1 <= v /\ b1 <= v /\ c1 <= v
    BY <1>2, <1>3, <2>4 DEF Explained
  <2>8. /\ 1 \notin missed' => b1 <= a1 /\ c1 <= a1
        /\ 2 \notin missed' => c1 <= b1
    <3>1. /\ 1 \notin missed => b <= a /\ c <= a
          /\ 2 \notin missed => c <= b
          /\ a <= v /\ b <= v /\ c <= v
      BY <1>2 DEF Explained
    <3>2. v <= v /\ missed' = missed
      BY <1>3, <2>4
    <3>. QED BY <2>1, <2>3, <3>1, <3>2
  <2>9. Explained(a1, b1, c1, v)'
    BY <2>2, <2>5, <2>6, <2>7, <2>8 DEF Explained
  <2>. QED BY <1>4, <2>4, <2>9
<1>13. CASE Terminate
  <2>1. InFlight(v)'
    BY <1>13 DEF Terminate, DropConnection, InFlight
  <2>. QED BY <1>3, <1>5, <1>13, <2>1 DEF Terminate
<1>14. CASE Launch
  <2>1. InFlight(v)'
    BY <1>2, <1>14 DEF Launch, Explained, InFlight
  <2>. QED BY <1>3, <1>5, <1>14, <2>1 DEF Launch
<1>15. CASE Publish
  <2>1. InFlight(v)'
    BY <1>2, <1>15 DEF Publish, Explained, InFlight, Answer
  <2>. QED BY <1>3, <1>5, <1>15, <2>1 DEF Publish
<1>16. CASE Reply
  <2>1. pc = "await" /\ requests = 1 /\ wire = <<>> /\ inbox = <<>>
    BY <1>2, <1>16 DEF Reply, Explained, InFlight
  <2>2. InFlight(version)'
    BY <1>16, <2>1 DEF Reply, InFlight, Answer
  <2>. QED BY <1>3, <1>5, <1>16, <2>1, <2>2 DEF Reply
<1>17. CASE Deliver
  <2>1. pc = "await" /\ requests = 0 /\ wire = <<Answer(v)>> /\ inbox = <<>>
    BY <1>2, <1>17 DEF Deliver, Explained, InFlight
  <2>2. Answer(v) \in Text
    BY <1>3, ResponseType DEF Answer
  <2>3. inbox \o Head(wire) = Answer(v) /\ Tail(wire) = <<>>
    BY <2>1, <2>2, ConcatEmptySeq DEF Text
  <2>4. InFlight(v)'
    BY <1>17, <2>1, <2>3 DEF Deliver, InFlight, Answer
  <2>. QED BY <1>3, <1>5, <1>17, <2>1, <2>4 DEF Deliver
<1>18. CASE DeliverSegment
  BY <1>1, <1>18 DEF DeliverSegment
<1>19. CASE NetworkCalms
  BY <1>1, <1>19 DEF NetworkCalms
<1>20. CASE ServerCrash
  <2>1. InFlight(v)'
    BY <1>2, <1>20 DEF ServerCrash, Explained, InFlight, Answer
  <2>. QED BY <1>3, <1>5, <1>20, <2>1 DEF ServerCrash
<1>21. CASE ServerRestart
  <2>1. InFlight(v)'
    BY <1>2, <1>21 DEF ServerRestart, Explained, InFlight, Answer
  <2>. QED BY <1>3, <1>5, <1>21, <2>1 DEF ServerRestart
<1>22. CASE PeerReset
  <2>1. InFlight(v)'
    BY <1>2, <1>22 DEF PeerReset, Explained, InFlight, Answer
  <2>. QED BY <1>3, <1>5, <1>22, <2>1 DEF PeerReset
<1>23. CASE UNCHANGED vars
  <2>1. InFlight(v)'
    BY <1>2, <1>23 DEF vars, Explained, InFlight, Answer
  <2>. QED BY <1>3, <1>5, <1>23, <2>1 DEF vars
<1>. QED
  BY <1>6, <1>7, <1>8, <1>9, <1>10, <1>11, <1>12, <1>13, <1>14, <1>15, <1>16,
     <1>17, <1>18, <1>19, <1>20, <1>21, <1>22, <1>23
     DEF Next, ClientStep, Environment

\* The inductive invariant implies the two properties of the files.
LEMMA FeedInvImplies == FeedInv => FilesGenuine /\ WrittenInOrder
<1>. SUFFICES ASSUME FeedInv PROVE FilesGenuine /\ WrittenInOrder
  OBVIOUS
<1>1. PICK a, b, c, v \in 1 .. version : Explained(a, b, c, v)
  BY DEF FeedInv
<1>2. FilesGenuine
  BY <1>1 DEF Explained, Stored, FilesGenuine, Genuine, Files
<1>3. ASSUME NEW m \in Files, NEW n \in Files,
             m < n, m \notin missed, file[m] # <<>>, file[n] # <<>>
      PROVE  \E x, y \in 1 .. version :
                /\ y <= x
                /\ file[m] = PolicyField(x, m)
                /\ file[n] = PolicyField(y, n)
  <2>1. \/ m = 1 /\ n = 2
        \/ m = 1 /\ n = 3
        \/ m = 2 /\ n = 3
    BY <1>3 DEF Files
  <2>. QED BY <1>1, <1>3, <2>1 DEF Explained, Stored
<1>. QED BY <1>2, <1>3 DEF WrittenInOrder

(***************************************************************************)
(* On a prompt network no crash, reset or restart leaves anything in a     *)
(* settings file but a field of a published version, or nothing.           *)
(***************************************************************************)
THEOREM FilesStayGenuine == PromptAndComplete /\ Spec => []FilesGenuine
<1>. SUFFICES ASSUME PromptAndComplete PROVE Spec => []FilesGenuine
  OBVIOUS
<1>1. Init => FeedInv BY FeedInit
<1>2. FeedInv /\ [Next]_vars => FeedInv' BY FeedNext
<1>3. FeedInv => FilesGenuine BY FeedInvImplies
<1>. QED BY <1>1, <1>2, <1>3, PTL DEF Spec

(***************************************************************************)
(* ... and a file that is written later never holds newer settings than    *)
(* one that is written earlier and could be opened.                        *)
(***************************************************************************)
THEOREM FilesStayInOrder == PromptAndComplete /\ Spec => []WrittenInOrder
<1>. SUFFICES ASSUME PromptAndComplete PROVE Spec => []WrittenInOrder
  OBVIOUS
<1>1. Init => FeedInv BY FeedInit
<1>2. FeedInv /\ [Next]_vars => FeedInv' BY FeedNext
<1>3. FeedInv => WrittenInOrder BY FeedInvImplies
<1>. QED BY <1>1, <1>2, <1>3, PTL DEF Spec

(***************************************************************************)
(* ... and the parser finds every element it indexes.                      *)
(***************************************************************************)
THEOREM NeverReadsPastEnd == PromptAndComplete /\ Spec => []NothingReadPastEnd
<1>. SUFFICES ASSUME PromptAndComplete PROVE Spec => []NothingReadPastEnd
  OBVIOUS
<1>1. Init => FeedInv BY FeedInit
<1>2. FeedInv /\ [Next]_vars => FeedInv' BY FeedNext
<1>3. FeedInv => NothingReadPastEnd
  <2>. SUFFICES ASSUME FeedInv, pc = "element" PROVE HasElement(response, elem)
    BY DEF NothingReadPastEnd
  <2>1. PICK a, b, c, v \in 1 .. version : Explained(a, b, c, v)
    BY DEF FeedInv
  <2>2. v \in Versions /\ elem \in Files
    BY <2>1, PolicyOfVersion DEF FeedInv, TypeOK
  <2>3. response = Answer(v)
    BY <2>1 DEF Explained, Storing
  <2>. QED BY <2>2, <2>3, AnswerElements
<1>. QED BY <1>1, <1>2, <1>3, PTL DEF Spec

-----------------------------------------------------------------------------
(***************************************************************************)
(* The network that delays.  Any number of answers may be under way, and   *)
(* several are read as one text; but what is read begins with a whole      *)
(* answer, and that is where the processes and the paths are taken from.   *)
(***************************************************************************)
BeginsWith(s, v) == \E t \in Text : s = Answer(v) \o t

FromAnswer(s) == \E v \in 1 .. version : BeginsWith(s, v)

\* The answer in front of the response is the one being stored.
StoringFront(v) ==
    /\ BeginsWith(response, v)
    /\ pc = "flush" /\ elem # 3 => element = PolicyField(v, elem)

Late ==
    /\ \A i \in 1 .. Len(wire) : FromAnswer(wire[i])
    /\ inbox = <<>> \/ FromAnswer(inbox)
    /\ pc \in {"element", "flush"} => \E v \in 1 .. version : StoringFront(v)
    /\ Genuine(1)
    /\ Genuine(2)

LateInv == TypeOK /\ (network = "whole" => Late)

\* The element of a late answer is the field of its version.
LEMMA LateElements ==
    ASSUME NEW v \in Versions, NEW s \in Text, BeginsWith(s, v), NEW n \in {1, 2}
    PROVE  HasElement(s, n) /\ Element(s, n) = PolicyField(v, n)
<1>1. PICK t \in Text : s = Response(Policies[v]) \o t
  BY DEF BeginsWith, Answer
<1>2. Policies[v] \in PolicyType
  BY PolicyOfVersion
<1>3. /\ HasElement(s, 1) /\ Element(s, 1) = Policies[v].processes
      /\ HasElement(s, 2) /\ Element(s, 2) = Policies[v].paths
  BY <1>1, <1>2, FrontElements, Zenon
<1>. QED BY <1>3 DEF PolicyField

\* What follows an answer does not change what it begins with.
LEMMA AnswerFollowed ==
    ASSUME NEW v \in Versions
    PROVE  /\ BeginsWith(Answer(v), v)
           /\ \A s, t \in Text : BeginsWith(s, v) => BeginsWith(s \o t, v)
<1>1. Answer(v) \in Text
  BY PolicyOfVersion, ResponseType DEF Answer
<1>2. \A a, b, c \in Text : a \o b \in Text /\ (a \o b) \o c = a \o (b \o c)
  BY ConcatAssociative, ConcatProperties DEF Text
<1>3. BeginsWith(Answer(v), v)
  BY <1>1, EmptyText, ConcatEmptySeq DEF BeginsWith, Text
<1>4. ASSUME NEW s \in Text, NEW t \in Text, BeginsWith(s, v)
      PROVE  BeginsWith(s \o t, v)
  <2>1. PICK u \in Text : s = Answer(v) \o u
    BY <1>4 DEF BeginsWith
  <2>. DEFINE a == Answer(v)
  <2>2. a \in Text BY <1>1
  <2>. HIDE DEF a
  <2>3. (a \o u) \o t = a \o (u \o t) /\ u \o t \in Text
    BY <1>2, <2>2, Zenon
  <2>. QED BY <2>1, <2>3, Zenon DEF a, BeginsWith
<1>. QED BY <1>3, <1>4

\* Nothing is under way at first.
LEMMA LateInit == Init => LateInv
BY TypeInit DEF Init, LateInv, Late, Genuine, Files

\* Every step keeps the invariant, one case per action.
LEMMA LateNext == LateInv /\ [Next]_vars => LateInv'
<1>. SUFFICES ASSUME LateInv, [Next]_vars, network' = "whole" PROVE Late'
  BY TypeNext DEF LateInv
<1>. USE DEF connection, parse, disk, serverVars
<1>1. network = "whole"
  BY DEF Next, ClientStep, Environment, SendRequest, SendFails, ReConnectSocket,
         ReadAnswer, OpenFile, ReadPastEnd, FlushFile, Terminate, Launch, Publish,
         Reply, Deliver, DeliverSegment, NetworkCalms, ServerCrash, ServerRestart,
         PeerReset, vars
<1>2. TypeOK /\ TypeOK' /\ Late
  BY <1>1, TypeNext DEF LateInv
<1>3. /\ version \in Nat /\ version' \in Nat /\ version <= version'
      /\ \A v \in 1 .. version : v \in Versions
  BY <1>2, PolicyOfVersion
     DEF TypeOK, Next, ClientStep, Environment, SendRequest, SendFails, ReConnectSocket,
         ReadAnswer, OpenFile, ReadPastEnd, FlushFile, Terminate, Launch, Publish,
         Reply, Deliver, DeliverSegment, NetworkCalms, ServerCrash, ServerRestart,
         PeerReset, vars
<1>4. \A v \in 1 .. version : v \in 1 .. version'
  BY <1>3
<1>5. \A s : FromAnswer(s) => \E v \in 1 .. version' : BeginsWith(s, v)
  BY <1>4 DEF FromAnswer
\* The files stay genuine when they are not written.
<1>6. ASSUME file' = file PROVE Genuine(1)' /\ Genuine(2)'
  BY <1>2, <1>4, <1>6 DEF Late, Genuine, PolicyField
\* The response stays what it is when nothing is stored.
<1>7. ASSUME UNCHANGED <<response, elem, element>>,
             pc' \in {"element", "flush"} => pc' = pc
      PROVE  (pc \in {"element", "flush"} => \E v \in 1 .. version : StoringFront(v))'
  <2>. SUFFICES ASSUME pc' \in {"element", "flush"}
                PROVE  \E v \in 1 .. version' : StoringFront(v)'
    OBVIOUS
  <2>1. PICK v \in 1 .. version : StoringFront(v)
    BY <1>2, <1>7 DEF Late
  <2>2. StoringFront(v)'
    BY <2>1, <1>7 DEF StoringFront, BeginsWith, Answer, PolicyField
  <2>. QED BY <1>4, <2>2
\* A step that stores nothing only has to say what is under way.
<1>8. ASSUME UNCHANGED <<response, elem, element, file>>,
             pc' \in {"element", "flush"} => pc' = pc,
             \A i \in 1 .. Len(wire') : \E v \in 1 .. version' : BeginsWith(wire'[i], v),
             inbox' = <<>> \/ \E v \in 1 .. version' : BeginsWith(inbox', v)
      PROVE  Late'
  <2>1. (\A i \in 1 .. Len(wire) : FromAnswer(wire[i]))'
    BY <1>8 DEF FromAnswer, BeginsWith, Answer
  <2>2. (inbox = <<>> \/ FromAnswer(inbox))'
    BY <1>8 DEF FromAnswer, BeginsWith, Answer
  <2>. QED BY <1>6, <1>7, <1>8, <2>1, <2>2 DEF Late
<1>9. /\ \A i \in 1 .. Len(wire) : \E v \in 1 .. version' : BeginsWith(wire[i], v)
      /\ inbox = <<>> \/ \E v \in 1 .. version' : BeginsWith(inbox, v)
  BY <1>2, <1>5 DEF Late
\* ... and so does a step that keeps or drops what is under way.
<1>10. ASSUME UNCHANGED <<response, elem, element, file>>,
              pc' \in {"element", "flush"} => pc' = pc,
              wire' \in {wire, <<>>}, inbox' \in {inbox, <<>>}
       PROVE  Late'
  <2>1. \A i \in 1 .. Len(wire') : \E v \in 1 .. version' : BeginsWith(wire'[i], v)
    BY <1>9, <1>10
  <2>2. inbox' = <<>> \/ \E v \in 1 .. version' : BeginsWith(inbox', v)
    BY <1>9, <1>10
  <2>. QED BY <1>8, <1>10, <2>1, <2>2
<1>11. CASE SendRequest
  BY <1>10, <1>11 DEF SendRequest
<1>12. CASE SendFails
  BY <1>10, <1>12 DEF SendFails, DropConnection
<1>13. CASE ReConnectSocket
  BY <1>10, <1>13 DEF ReConnectSocket
<1>14. CASE ReadAnswer
  <2>1. inbox # <<>> => \E v \in 1 .. version' : StoringFront(v)'
    <3>. SUFFICES ASSUME inbox # <<>> PROVE \E v \in 1 .. version' : StoringFront(v)'
      OBVIOUS
    <3>1. PICK v \in 1 .. version' : BeginsWith(inbox, v)
      BY <1>9
    <3>2. StoringFront(v)'
      BY <3>1, <1>14 DEF ReadAnswer, ReceiveBytes, StoringFront, BeginsWith, Answer
    <3>. QED BY <3>2
  <2>2. (pc \in {"element", "flush"} => \E v \in 1 .. version : StoringFront(v))'
    BY <2>1, <1>14 DEF ReadAnswer
  <2>3. (\A i \in 1 .. Len(wire) : FromAnswer(wire[i]))'
    BY <1>9, <1>14 DEF ReadAnswer, FromAnswer, BeginsWith, Answer
  <2>. QED BY <1>6, <1>14, <2>2, <2>3 DEF ReadAnswer, ReceiveBytes, Late
<1>15. ASSUME wire' = wire, inbox' = inbox
       PROVE  (\A i \in 1 .. Len(wire) : FromAnswer(wire[i]))' /\ (inbox = <<>> \/ FromAnswer(inbox))'
  BY <1>9, <1>15 DEF FromAnswer, BeginsWith, Answer
<1>16. CASE OpenFile
  <2>1. PICK v \in 1 .. version : StoringFront(v)
    BY <1>2, <1>16 DEF OpenFile, Late
  <2>2. elem # 3 => element' = PolicyField(v, elem)
    BY <1>2, <1>3, <1>16, <2>1, LateElements DEF OpenFile, StoringFront, TypeOK, Files
  <2>3. StoringFront(v)'
    BY <2>1, <2>2, <1>16 DEF OpenFile, StoringFront, BeginsWith, Answer, PolicyField
  <2>4. Genuine(1)' /\ Genuine(2)'
    BY <1>2, <1>4, <1>16 DEF OpenFile, Open, Late, Genuine, PolicyField, TypeOK, Files
  <2>. QED BY <1>4, <1>15, <1>16, <2>3, <2>4 DEF OpenFile, Late
<1>17. CASE ReadPastEnd
  <2>1. PICK v \in 1 .. version : StoringFront(v)
    BY <1>2, <1>17 DEF ReadPastEnd, Late
  <2>2. elem = 3
    BY <1>2, <1>3, <1>17, <2>1, LateElements DEF ReadPastEnd, StoringFront, TypeOK, Files
  <2>3. CASE pc' = "flush"
    <3>1. StoringFront(v)'
      BY <2>1, <2>2, <2>3, <1>17 DEF ReadPastEnd, StoringFront, BeginsWith, Answer
    <3>2. Genuine(1)' /\ Genuine(2)'
      BY <1>2, <1>4, <1>17, <2>2, <2>3
         DEF ReadPastEnd, Open, Late, Genuine, PolicyField, TypeOK, Files
    <3>. QED BY <1>4, <1>15, <1>17, <2>3, <3>1, <3>2 DEF ReadPastEnd, Late
  <2>4. CASE pc' = "down"
    BY <1>10, <1>17, <2>4 DEF ReadPastEnd, DropConnection
  <2>. QED BY <1>17, <2>3, <2>4 DEF ReadPastEnd
<1>18. CASE FlushFile
  <2>1. PICK v \in 1 .. version : StoringFront(v)
    BY <1>2, <1>18 DEF FlushFile, Late
  <2>2. pc' = "element" => StoringFront(v)'
    BY <2>1, <1>18 DEF FlushFile, StoringFront, BeginsWith, Answer
  <2>3. (pc \in {"element", "flush"} => \E u \in 1 .. version : StoringFront(u))'
    BY <1>4, <1>18, <2>2 DEF FlushFile
  <2>4. elem # 3 => element = PolicyField(v, elem)
    BY <2>1, <1>18 DEF FlushFile, StoringFront
  <2>5. Genuine(1)' /\ Genuine(2)'
    BY <1>2, <1>4, <1>18, <2>4 DEF FlushFile, Flush, Late, Genuine, PolicyField, TypeOK, Files
  <2>. QED BY <1>15, <1>18, <2>3, <2>5 DEF FlushFile, Late
<1>19. CASE Terminate
  BY <1>10, <1>19 DEF Terminate, DropConnection
<1>20. CASE Launch
  BY <1>10, <1>20 DEF Launch
<1>21. CASE Publish
  BY <1>10, <1>21 DEF Publish
<1>22. CASE Reply
  <2>1. wire' = Append(wire, Answer(version)) /\ wire \in Seq(Text)
    BY <1>2, <1>22 DEF Reply, Answer, TypeOK
  <2>2. version \in 1 .. version /\ BeginsWith(Answer(version), version)
    BY <1>2, <1>3, PolicyOfVersion, AnswerFollowed DEF TypeOK
  <2>3. \A i \in 1 .. Len(wire') : \/ i \in 1 .. Len(wire) /\ wire'[i] = wire[i]
                                   \/ wire'[i] = Answer(version)
    BY <2>1
  <2>4. \A i \in 1 .. Len(wire') : \E v \in 1 .. version' : BeginsWith(wire'[i], v)
    BY <1>4, <1>9, <2>2, <2>3
  <2>. QED BY <1>8, <1>9, <1>22, <2>4 DEF Reply
<1>23. CASE Deliver
  <2>1. /\ wire \in Seq(Text) /\ wire # <<>> /\ Head(wire) \in Text
        /\ Head(wire) = wire[1] /\ 1 \in 1 .. Len(wire)
        /\ inbox \in Text
    BY <1>2, <1>23 DEF Deliver, TypeOK
  <2>2. \A i \in 1 .. Len(wire') : i + 1 \in 1 .. Len(wire) /\ wire'[i] = wire[i + 1]
    BY <1>23, <2>1 DEF Deliver
  <2>3. \A i \in 1 .. Len(wire') : \E v \in 1 .. version' : BeginsWith(wire'[i], v)
    BY <1>9, <2>2
  <2>4. \E v \in 1 .. version' : BeginsWith(inbox', v)
    <3>1. CASE inbox = <<>>
      <4>1. inbox' = wire[1]
        BY <1>23, <2>1, <3>1, ConcatEmptySeq DEF Deliver, Text
      <4>. QED BY <1>9, <2>1, <4>1
    <3>2. CASE inbox # <<>>
      <4>1. PICK v \in 1 .. version : BeginsWith(inbox, v)
        BY <1>2, <3>2 DEF Late, FromAnswer
      <4>2. BeginsWith(inbox \o Head(wire), v)
        BY <1>3, <2>1, <4>1, AnswerFollowed
      <4>. QED BY <1>4, <1>23, <4>2 DEF Deliver
    <3>. QED BY <3>1, <3>2
  <2>. QED BY <1>8, <1>23, <2>3, <2>4 DEF Deliver
<1>24. CASE DeliverSegment
  BY <1>1, <1>24 DEF DeliverSegment
<1>25. CASE NetworkCalms
  BY <1>25 DEF NetworkCalms
<1>26. CASE ServerCrash
  BY <1>10, <1>26 DEF ServerCrash
<1>27. CASE ServerRestart
  BY <1>10, <1>27 DEF ServerRestart
<1>28. CASE PeerReset
  BY <1>10, <1>28 DEF PeerReset
<1>29. CASE UNCHANGED vars
  BY <1>10, <1>29 DEF vars
<1>. QED
  BY <1>11, <1>12, <1>13, <1>14, <1>16, <1>17, <1>18, <1>19, <1>20, <1>21, <1>22,
     <1>23, <1>24, <1>25, <1>26, <1>27, <1>28, <1>29
     DEF Next, ClientStep, Environment

(***************************************************************************)
(* While answers arrive late but whole, whatever settings are published,   *)
(* the files of processes and paths hold fields of one version.            *)
(***************************************************************************)
THEOREM FrontStaysGenuine == Spec => []ProcessesAndPathsGenuine
<1>1. LateInv => ProcessesAndPathsGenuine
  BY DEF LateInv, Late, ProcessesAndPathsGenuine
<1>. QED BY <1>1, LateInit, LateNext, PTL DEF Spec

-----------------------------------------------------------------------------
(***************************************************************************)
(* What the process watch sees of the feed: the list of safe processes it  *)
(* reads (GetParamsFromFile) is empty or that of one published version,    *)
(* the two states between which ProcessWatch!RewriteList switches.         *)
(***************************************************************************)
ListOf(v) == GetParamsFromFile(PolicyField(v, 1))

ListReadIsOneVersions ==
    GetParamsFromFile(file[1]) \in {{}} \cup {ListOf(v) : v \in 1 .. version}

\* Nothing is listed by an empty file.
LEMMA EmptyFileListsNothing == GetParamsFromFile(<<>>) = {}
<1>1. Len(<<>>) = 0 /\ <<>> \in Text
  BY EmptyText, EmptySeq
<1>2. FirstIn(<<>>, 1, Char \ Space) = 1 /\ FirstIn(<<>>, 1, Space) = 1
  BY <1>1, FirstInNone
<1>3. FirstWord(<<>>) = SubSeq(<<>>, 1, 0)
  BY <1>2 DEF FirstWord
<1>4. FirstWord(<<>>) = <<>>
  BY <1>3, <1>1
<1>. QED BY <1>1, <1>4 DEF GetParamsFromFile, Lines

(***************************************************************************)
(* On a prompt network the process watch never reads a list that mixes     *)
(* versions or that no version has, but for an empty one.                  *)
(***************************************************************************)
THEOREM ListReadIsPublished == PromptAndComplete /\ Spec => []ListReadIsOneVersions
<1>1. FilesGenuine => ListReadIsOneVersions
  <2>. SUFFICES ASSUME Genuine(1) PROVE ListReadIsOneVersions
    BY DEF FilesGenuine, Files
  <2>. QED BY EmptyFileListsNothing DEF Genuine, ListReadIsOneVersions, ListOf
<1>. QED BY <1>1, FilesStayGenuine, PTL

-----------------------------------------------------------------------------
(***************************************************************************)
(* What is asked of the settings for the readers to understand them: the   *)
(* names of processes have no white space but the line ends between them   *)
(* (>> stops at any), the extensions fit into the buffer of one read, and  *)
(* erasing white space leaves their lines as they are.                     *)
(***************************************************************************)
ReadableByAll ==
    \A v \in Versions :
        /\ \A i \in 1 .. Len(Policies[v].processes) :
              Policies[v].processes[i] \in Space => Policies[v].processes[i] = Newline
        /\ Len(Policies[v].exts) < FileDataBufferLength
        /\ \A line \in Lines(Policies[v].exts, Newline) : EraseSpace(line) = line

\* A list of processes is read as lines of it.
LEMMA ListIsLines ==
    ASSUME ReadableByAll, NEW v \in Versions
    PROVE  GetParamsFromFile(PolicyField(v, 1)) \subseteq Lines(PolicyField(v, 1), Newline)
<1>1. PolicyField(v, 1) = Policies[v].processes
  BY DEF PolicyField
<1>2. Policies[v].processes \in FieldText
  BY PolicyOfVersion DEF PolicyType
<1>3. FieldText \subseteq Text
  BY SeqMonotonic, Char \ {Colon} \subseteq Char DEF FieldText, Text
<1>. QED BY <1>1, <1>2, <1>3, FirstWordIsLine DEF ReadableByAll

\* A path ends as a line of the extensions does, if IsImportant finds so.
LEMMA ImportantByLines ==
    ASSUME ReadableByAll, NEW v \in Versions, NEW filePath
    PROVE  IsImportant(filePath, PolicyField(v, 3)) <=>
             \E line \in Lines(PolicyField(v, 3), Newline) : EndsWith(filePath, line)
<1>. DEFINE content == PolicyField(v, 3)
            read == SubSeq(content, 1, Smaller(Len(content), FileDataBufferLength - 1))
<1>1. content = Policies[v].exts /\ content \in FieldText
  BY PolicyOfVersion DEF PolicyType, PolicyField
<1>2. Len(content) \in Nat /\ Len(content) <= FileDataBufferLength - 1
  BY <1>1, BufferAssumption DEF FieldText, ReadableByAll
<1>3. Smaller(Len(content), FileDataBufferLength - 1) = Len(content)
  BY <1>2 DEF Smaller
<1>4. read = content
  <2>1. SubSeq(content, 1, Len(content)) = content
    BY <1>1, SubSeqFull DEF FieldText
  <2>. QED BY <1>3, <2>1
<1>5. \A line \in Lines(content, Newline) : EraseSpace(line) = line
  BY <1>1 DEF ReadableByAll
<1>6. IsImportant(filePath, content) <=>
        \E line \in Lines(read, Newline) : EndsWith(filePath, EraseSpace(line))
  BY DEF IsImportant
<1>. HIDE DEF content, read
<1>7. IsImportant(filePath, content) <=>
        \E line \in Lines(content, Newline) : EndsWith(filePath, line)
  BY <1>4, <1>5, <1>6
<1>. QED BY <1>7 DEF content

(***************************************************************************)
(* On a prompt network, at every moment of the rewriting, whoever reads a  *)
(* settings file concludes from it what one published version says: no     *)
(* process is taken for safe that no version listed, no file type blocked  *)
(* by a mixture of versions.                                               *)
(***************************************************************************)
THEOREM ReadersAgreeWithOneVersion ==
    PromptAndComplete /\ ReadableByAll /\ Spec => []ReadersJudgeByOneVersion
<1>. SUFFICES ASSUME PromptAndComplete, ReadableByAll
              PROVE  Spec => []ReadersJudgeByOneVersion
  OBVIOUS
<1>1. TypeOK /\ FilesGenuine => ReadersJudgeByOneVersion
  <2>. SUFFICES ASSUME TypeOK, FilesGenuine PROVE ReadersJudgeByOneVersion
    OBVIOUS
  <2>1. \A v \in 1 .. version : v \in Versions
    BY PolicyOfVersion DEF TypeOK
  <2>2. ASSUME NEW name \in Listed(1), IsProcessSafe(name, file[1])
        PROVE  \E v \in 1 .. version : name \in Lines(PolicyField(v, 1), Newline)
    <3>1. file[1] # <<>>
      BY <2>2, EmptyFileListsNothing DEF IsProcessSafe
    <3>2. PICK v \in 1 .. version : file[1] = PolicyField(v, 1)
      BY <3>1 DEF FilesGenuine, Genuine, Files
    <3>. QED BY <2>1, <2>2, <3>2, ListIsLines DEF IsProcessSafe
  <2>3. ASSUME file[3] # <<>>
        PROVE  \E v \in 1 .. version : \A fileType \in Listed(3) :
                  IsImportant(fileType, file[3])
                    <=> \E line \in Lines(PolicyField(v, 3), Newline) : EndsWith(fileType, line)
    <3>1. PICK v \in 1 .. version : file[3] = PolicyField(v, 3)
      BY <2>3 DEF FilesGenuine, Genuine, Files
    <3>. QED BY <2>1, <3>1, ImportantByLines
  <2>. QED BY <2>2, <2>3 DEF ReadersJudgeByOneVersion
<1>. QED BY <1>1, TypeCorrect, FilesStayGenuine, PTL
=============================================================================
