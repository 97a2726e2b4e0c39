---------------------------- MODULE PathsProofs -----------------------------
(***************************************************************************)
(* Proofs about Paths: the types, and that paths make no circle.           *)
(***************************************************************************)
EXTENDS Paths, TLAPS, FiniteSetTheorems, NaturalsInduction, SequenceTheorems, WellFoundedInduction

Calm == Nodes \ Upset

\* v has a path that is newer than the blob, or as new and not longer than hops.
Backed(v, blob, hops) ==
  v \in Calm =>
    \E p \in path[v] :
      \/ emitted[p.blob] > emitted[blob]
      \/ emitted[p.blob] = emitted[blob] /\ p.hops <= hops

PathsBacked == \A n \in Nodes : \A p \in path[n] : Backed(p.via, p.blob, p.hops - 1)
TablesBacked == \A n \in Nodes : \A a \in announce[n] \cup held[n] : Backed(n, a.blob, a.hops)
QueuesBacked == \A q \in queue : Backed(q.node, q.blob, q.hops)
PacketsBacked == \A m \in net \cup limited : m.type = "ANNOUNCE" => Backed(m.via, m.blob, m.hops)

CalmPath(p) == ~p.expired /\ \E i \in DOMAIN p.known : p.known[i] = p.blob

NowIsLatest == \A blob \in Blobs : emitted[blob] <= Now
CalmOnes    == \A n \in Calm : n \notin unresponsive /\ \A p \in path[n] : CalmPath(p)

RouteInv == NowIsLatest /\ CalmOnes /\ PathsBacked /\ TablesBacked /\ QueuesBacked /\ PacketsBacked

-----------------------------------------------------------------------------
\* A transmission makes announces of the blob.
LEMMA SentType ==
  ASSUME NodesAssumption, NEW n \in Nodes \cup {Home}, NEW s \in Segments, NEW B, NEW blob \in B,
         NEW hops \in Nat, NEW response \in BOOLEAN
  PROVE  Sent(n, s, blob, hops, response) \subseteq
           [type: {"ANNOUNCE"}, to: Nodes, seg: Segments, via: Nodes \cup {Home},
            blob: B, hops: Nat, response: BOOLEAN]
BY DEF Sent

\* A path request is one, with the tag it is sent with.
LEMMA AsksType ==
  ASSUME NodesAssumption, NEW n \in Nodes, NEW on, on \subseteq Segments, NEW T, NEW tag \in T
  PROVE  Asks(n, on, tag) \subseteq
           [type: {"REQUEST"}, to: Nodes \cup {Home}, seg: Segments, tag: T, from: SUBSET Nodes]
BY DEF Asks, NodesAssumption

\* One more announce leaves what there was as it was.
LEMMA EmitGrows ==
  ASSUME emitted \in Seq(Nat), Emit
  PROVE  /\ emitted' \in Seq(Nat) /\ Len(emitted') = Len(emitted) + 1
         /\ \A blob \in Blobs : emitted'[blob] = emitted[blob]
         /\ emitted'[Len(emitted')] \in {Now, Now + 1}
         /\ Blobs \subseteq Blobs' /\ Len(emitted) + 1 \in Blobs'
<1>1. Now \in Nat
  BY DEF Now
<1>2. PICK second \in {Now, Now + 1} : emitted' = Append(emitted, second)
  BY DEF Emit
<1>3. second \in Nat
  BY <1>1
<1>4. QED
  BY <1>2, <1>3, AppendProperties DEF Blobs

\* What was of a type is, with more announces and requests.
LEMMA TypesGrow ==
  ASSUME Blobs \subseteq Blobs', DOMAIN asked \subseteq (DOMAIN asked)'
  PROVE  /\ Path \subseteq Path' /\ Pending \subseteq Pending' /\ Queued \subseteq Queued'
         /\ Announce \subseteq Announce' /\ Message \subseteq Message'
BY DEF Path, Pending, Queued, Announce, Request, Message

\* The tables are empty at the start, which are values of the types.
LEMMA InitType == Init => TypeOK
BY DEF Init, TypeOK, AtMostOne

\* The types are the same when no announce and no request is made.
LEMMA TypesSame ==
  ASSUME emitted' = emitted, asked' = asked
  PROVE  /\ Blobs' = Blobs /\ Path' = Path /\ Pending' = Pending /\ Queued' = Queued
         /\ Announce' = Announce /\ Message' = Message
BY DEF Blobs, Path, Pending, Queued, Announce, Request, Message

\* Packets that are announces.
LEMMA MessageKinds ==
  ASSUME NEW m \in Message
  PROVE  /\ m.type = "ANNOUNCE" => m \in Announce
         /\ m.type = "REQUEST" => m \in Request
BY DEF Message, Announce, Request

\* The fields of an announce, by name.
LEMMA AnnounceFields ==
  ASSUME NEW m \in Announce
  PROVE  /\ m.type = "ANNOUNCE" /\ m.to \in Nodes /\ m.seg \in Segments /\ m.via \in Nodes \cup {Home}
         /\ m.blob \in Blobs /\ m.hops \in Nat /\ m.response \in BOOLEAN /\ m \in Message
BY DEF Announce, Message

\* What is left of a pending rebroadcast after a neighbour's.
LEMMA HeardType ==
  ASSUME TypeOK, NumbersAssumption, NEW m \in Announce, NEW prompt \in BOOLEAN
  PROVE  /\ Heard(m, prompt) \in SUBSET Pending /\ AtMostOne(Heard(m, prompt))
         /\ \A x \in Heard(m, prompt) : \E a \in announce[m.to] : x.blob = a.blob /\ x.hops = a.hops
<1> DEFINE Counted(a) == IF m.hops = a.hops
                           THEN [a EXCEPT !.heard = Lowest(@ + 1, LOCAL_REBROADCASTS_MAX)] ELSE a
<1>1. m.to \in Nodes
  BY AnnounceFields
<1>2. announce[m.to] \in SUBSET Pending /\ AtMostOne(announce[m.to])
  BY <1>1 DEF TypeOK
<1>3. ASSUME NEW a \in Pending
      PROVE  Counted(a) \in Pending /\ Counted(a).blob = a.blob /\ Counted(a).hops = a.hops
  BY NumbersAssumption DEF Pending, Lowest, NumbersAssumption
<1>4. Heard(m, prompt) \subseteq announce[m.to] \/ Heard(m, prompt) \subseteq {Counted(a) : a \in announce[m.to]}
  BY DEF Heard
<1> HIDE DEF Counted
<1>5. QED
  BY <1>2, <1>3, <1>4 DEF AtMostOne

\* What inbound() enters in the path table is an entry of it.
LEMMA NewPathType ==
  ASSUME TypeOK, NumbersAssumption, NEW m \in Announce, Accepts(m)
  PROVE  /\ NewPath(m) \in Path
         /\ NewPath(m).via = m.via /\ NewPath(m).blob = m.blob /\ NewPath(m).hops = m.hops + 1
         /\ CalmPath(NewPath(m))
<1>1. m.to \in Nodes /\ m.via \in Nodes \cup {Home} /\ m.seg \in Segments /\ m.blob \in Blobs /\ m.hops \in Nat
  BY AnnounceFields
<1>2. KnownBlobs(m.to) \in Seq(Blobs)
  <2>1. CASE path[m.to] = {}
    BY <2>1 DEF KnownBlobs
  <2>2. CASE path[m.to] # {}
    <3>1. (CHOOSE p \in path[m.to] : TRUE) \in Path
      BY <1>1, <2>2 DEF TypeOK
    <3>2. QED
      BY <2>2, <3>1 DEF KnownBlobs, Path
  <2>3. QED
    BY <2>1, <2>2
<1> DEFINE k == KnownBlobs(m.to)
           new == IF \E i \in DOMAIN k : k[i] = m.blob THEN k ELSE Append(k, m.blob)
<1>3. new \in Seq(Blobs) /\ \E i \in DOMAIN new : new[i] = m.blob
  <2>1. CASE \E i \in DOMAIN k : k[i] = m.blob
    BY <1>2, <2>1
  <2>2. CASE ~ \E i \in DOMAIN k : k[i] = m.blob
    <3>1. Append(k, m.blob) \in Seq(Blobs) /\ Len(Append(k, m.blob)) = Len(k) + 1
          /\ Append(k, m.blob)[Len(k) + 1] = m.blob /\ Len(k) \in Nat
      BY <1>1, <1>2, AppendProperties
    <3>2. Len(k) + 1 \in DOMAIN Append(k, m.blob)
      BY <3>1
    <3>3. QED
      BY <2>2, <3>1, <3>2
  <2>3. QED
    BY <2>1, <2>2
<1>4. m.hops + 1 \in 1 .. PATHFINDER_M
  BY <1>1, NumbersAssumption DEF Accepts, NumbersAssumption
<1>5. NewPath(m) = [via |-> m.via, hops |-> m.hops + 1, seg |-> m.seg, blob |-> m.blob,
                    known |-> new, expired |-> FALSE]
  BY DEF NewPath
<1> HIDE DEF new
<1>6. QED
  BY <1>1, <1>3, <1>4, <1>5 DEF Path, CalmPath

-----------------------------------------------------------------------------
(***************************************************************************)
(* Types: one lemma for each action.                                       *)
(***************************************************************************)

\* Destination.announce() keeps the types.
LEMMA MakeAnnounceType ==
  ASSUME TypeOK, NodesAssumption, MakeAnnounce
  PROVE  TypeOK'
<1> DEFINE b == Len(emitted) + 1
<1>1. emitted \in Seq(Nat) /\ Emit /\ asked' = asked
  BY DEF TypeOK, MakeAnnounce
<1>2. emitted' \in Seq(Nat) /\ Blobs \subseteq Blobs' /\ b \in Blobs'
  BY <1>1, EmitGrows
<1>3. /\ Path \subseteq Path' /\ Pending \subseteq Pending' /\ Queued \subseteq Queued'
      /\ Announce \subseteq Announce' /\ Message \subseteq Message'
  BY <1>1, <1>2, TypesGrow
<1>4. ASSUME NEW s \in Interfaces(Home)
      PROVE  Sent(Home, s, b, 0, FALSE) \subseteq Message'
  <2>1. s \in Segments
    BY DEF Interfaces
  <2>2. Sent(Home, s, b, 0, FALSE) \subseteq
           [type: {"ANNOUNCE"}, to: Nodes, seg: Segments, via: Nodes \cup {Home},
            blob: Blobs', hops: Nat, response: BOOLEAN]
    BY <1>2, <2>1, SentType
  <2>3. QED
    BY <2>2 DEF Message, Announce
<1> DEFINE sent == {Sent(Home, s, b, 0, FALSE) : s \in Interfaces(Home)}
<1>5. net' \subseteq Message'
  <2>1. net' = net \cup UNION sent
    BY DEF MakeAnnounce
  <2>2. \A x \in sent : x \subseteq Message'
    BY <1>4
  <2> HIDE DEF sent
  <2>3. QED
    BY <1>3, <2>1, <2>2 DEF TypeOK
<1>6. announced' \in {0} \cup Blobs'
  BY <1>2 DEF MakeAnnounce
<1> HIDE DEF b
<1>7. QED
  BY <1>1, <1>2, <1>3, <1>5, <1>6 DEF MakeAnnounce, TypeOK, tables

\* The answer of the destination itself to a path request keeps the types.
LEMMA AnswerAtHomeType ==
  ASSUME TypeOK, NodesAssumption, NEW m \in net, AnswerAtHome(m)
  PROVE  TypeOK'
<1> DEFINE b == Len(emitted) + 1
<1>1. emitted \in Seq(Nat) /\ asked' = asked /\ m \in Message /\ m.type = "REQUEST" /\ m.to = Home
  BY DEF TypeOK, AnswerAtHome
<1>2. m \in Request
  BY <1>1, MessageKinds
<1>3. m.seg \in Segments /\ m.tag \in DOMAIN asked
  BY <1>2 DEF Request
<1>4. CASE m.tag \in tags[Home]
  <2>1. emitted' = emitted /\ net' \subseteq net /\ tags' = tags
    BY <1>4 DEF AnswerAtHome
  <2>2. QED
    BY <1>1, <2>1, TypesSame DEF AnswerAtHome, TypeOK
<1>5. CASE m.tag \notin tags[Home]
  <2>1. Emit /\ net' = (net \ {m}) \cup Sent(Home, m.seg, b, 0, TRUE)
        /\ tags' = [tags EXCEPT ![Home] = @ \cup {m.tag}]
    BY <1>5 DEF AnswerAtHome
  <2>2. emitted' \in Seq(Nat) /\ Blobs \subseteq Blobs' /\ b \in Blobs'
    BY <1>1, <2>1, EmitGrows
  <2>3. /\ Path \subseteq Path' /\ Pending \subseteq Pending' /\ Queued \subseteq Queued'
        /\ Announce \subseteq Announce' /\ Message \subseteq Message'
    BY <1>1, <2>2, TypesGrow
  <2>4. Sent(Home, m.seg, b, 0, TRUE) \subseteq
           [type: {"ANNOUNCE"}, to: Nodes, seg: Segments, via: Nodes \cup {Home},
            blob: Blobs', hops: Nat, response: BOOLEAN]
    BY <1>3, <2>2, SentType
  <2>5. net' \subseteq Message'
    BY <2>1, <2>3, <2>4 DEF Message, Announce, TypeOK
  <2>6. tags' \in [Nodes \cup {Home} -> SUBSET DOMAIN asked']
    BY <1>1, <1>3, <2>1 DEF TypeOK
  <2> HIDE DEF b
  <2>7. QED
    BY <1>1, <2>2, <2>3, <2>5, <2>6 DEF AnswerAtHome, TypeOK
<1>6. QED
  BY <1>4, <1>5

\* An announce that an interface holds back keeps the types.
LEMMA HoldAnnounceType ==
  ASSUME TypeOK, NEW m \in net, HoldAnnounce(m)
  PROVE  TypeOK'
<1>1. m \in Announce
  BY MessageKinds DEF HoldAnnounce, TypeOK
<1>2. QED
  BY <1>1, TypesSame DEF HoldAnnounce, TypeOK, tables

\* An announce that is not accepted keeps the types.
LEMMA IgnoreAnnounceType ==
  ASSUME TypeOK, NumbersAssumption, NEW m \in net, IgnoreAnnounce(m)
  PROVE  TypeOK'
<1>1. PICK prompt \in BOOLEAN :
        /\ m.type = "ANNOUNCE"
        /\ announce' = [announce EXCEPT ![m.to] = Heard(m, prompt)] /\ net' = net \ {m}
        /\ UNCHANGED <<emitted, announced, asked, path, unresponsive, held, discovery, tags, queue, limited>>
  BY DEF IgnoreAnnounce
<1>2. m \in Announce
  BY <1>1, MessageKinds DEF TypeOK
<1>3. Heard(m, prompt) \in SUBSET Pending /\ AtMostOne(Heard(m, prompt))
  BY <1>2, HeardType
<1>4. QED
  BY <1>1, <1>3, TypesSame DEF TypeOK

\* An announce that is accepted keeps the types.
LEMMA AcceptAnnounceType ==
  ASSUME TypeOK, NodesAssumption, NumbersAssumption, NEW m \in net, AcceptAnnounce(m)
  PROVE  TypeOK'
<1> DEFINE new == [blob |-> m.blob, hops |-> m.hops + 1, retries |-> 0, heard |-> 0, answers |-> {}]
<1>1. m \in Announce
  BY MessageKinds DEF TypeOK, AcceptAnnounce
<1>2. m.to \in Nodes /\ m.blob \in Blobs /\ m.hops \in Nat
  BY <1>1, AnnounceFields
<1>3. PICK prompt, blocked \in BOOLEAN :
        /\ Accepts(m) /\ path' = [path EXCEPT ![m.to] = {NewPath(m)}]
        /\ unresponsive' = IF Forgives(m) THEN unresponsive \ {m.to} ELSE unresponsive
        /\ announce' = [announce EXCEPT ![m.to] =
                          IF m.to \in Relays /\ ~m.response /\ ~blocked THEN {new} ELSE Heard(m, prompt)]
        /\ net' = (net \ {m}) \cup UNION {Sent(m.to, s, m.blob, m.hops + 1, TRUE) : s \in discovery[m.to]}
        /\ UNCHANGED <<emitted, announced, asked, held, discovery, tags, queue, limited>>
  BY DEF AcceptAnnounce
<1>4. Heard(m, prompt) \in SUBSET Pending /\ AtMostOne(Heard(m, prompt))
  BY <1>1, HeardType
<1>5. NewPath(m) \in Path
  BY <1>1, <1>3, NewPathType
<1>6. new \in Pending
  BY <1>2, NumbersAssumption DEF Pending, NumbersAssumption
<1>7. ASSUME NEW s \in discovery[m.to]
      PROVE  Sent(m.to, s, m.blob, m.hops + 1, TRUE) \subseteq Message
  <2>1. s \in Segments /\ m.hops + 1 \in Nat
    BY <1>2 DEF TypeOK
  <2>2. Sent(m.to, s, m.blob, m.hops + 1, TRUE) \subseteq Announce
    BY <1>2, <2>1, SentType DEF Announce
  <2>3. QED
    BY <2>2 DEF Message
<1> DEFINE sent == {Sent(m.to, s, m.blob, m.hops + 1, TRUE) : s \in discovery[m.to]}
<1>8. net' \subseteq Message
  <2>1. net' = (net \ {m}) \cup UNION sent
    BY <1>3
  <2>2. \A x \in sent : x \subseteq Message
    BY <1>7
  <2> HIDE DEF sent
  <2>3. QED
    BY <2>1, <2>2 DEF TypeOK
<1>9. path' \in [Nodes -> SUBSET Path] /\ \A n \in Nodes : AtMostOne(path'[n])
  BY <1>2, <1>3, <1>5 DEF TypeOK, AtMostOne
<1> HIDE DEF new
<1>10. announce' \in [Nodes -> SUBSET Pending] /\ \A n \in Nodes : AtMostOne(announce'[n])
  BY <1>2, <1>3, <1>4, <1>6 DEF TypeOK, AtMostOne
<1>11. unresponsive' \subseteq Nodes
  BY <1>3 DEF TypeOK
<1>12. QED
  BY <1>3, <1>8, <1>9, <1>10, <1>11, TypesSame DEF TypeOK

\* A rebroadcast that is done with keeps the types.
LEMMA CompleteType ==
  ASSUME TypeOK, NEW n \in Nodes, Complete(n)
  PROVE  TypeOK'
BY TypesSame DEF Complete, TypeOK, AtMostOne

\* What an announce adds to the queues of interfaces are entries of them.
LEMMA RequeuedType ==
  ASSUME TypeOK, NEW n \in Nodes, NEW a \in Pending, NEW waits \in SUBSET Segments
  PROVE  Requeued(n, a, waits) \subseteq Queued
<1> DEFINE stays == {q \in queue : q.node = n /\ q.seg \in waits /\ emitted[q.blob] >= emitted[a.blob]}
           goes  == {q \in queue : q.node = n /\ q.seg \in waits} \ stays
           added == {[node |-> n, seg |-> s, blob |-> a.blob, hops |-> a.hops] :
                       s \in {w \in waits : \A q \in stays : q.seg # w}}
<1>1. Requeued(n, a, waits) = (queue \ goes) \cup added
  BY DEF Requeued
<1>2. added \subseteq Queued
  BY DEF Queued, Pending
<1> HIDE DEF goes, added
<1>3. QED
  BY <1>1, <1>2 DEF TypeOK

\* A rebroadcast of the job loop keeps the types.
LEMMA RebroadcastType ==
  ASSUME TypeOK, NodesAssumption, NumbersAssumption, NEW n \in Nodes, Rebroadcast(n)
  PROVE  TypeOK'
<1>1. PICK a \in announce[n] :
        /\ ~Completed(a)
        /\ announce' = [announce EXCEPT ![n] =
                          IF held[n] = {} THEN {[a EXCEPT !.retries = @ + 1]} ELSE held[n]]
        /\ held' = [held EXCEPT ![n] = {}]
        /\ \/ /\ net' = net \cup UNION {Sent(n, s, a.blob, a.hops, TRUE) : s \in a.answers}
              /\ UNCHANGED queue
           \/ \E more \in SUBSET CanWait(n) :
                /\ net' = net \cup UNION {Sent(n, s, a.blob, a.hops, FALSE) :
                                           s \in Open(n) \ (Busy(n) \cup more)}
                /\ queue' = Requeued(n, a, Busy(n) \cup more)
        /\ UNCHANGED <<emitted, announced, asked, path, unresponsive, discovery, tags, limited>>
  BY DEF Rebroadcast
<1>2. a \in Pending
  BY DEF TypeOK
<1>3. a.blob \in Blobs /\ a.hops \in Nat /\ a.answers \subseteq Segments /\ a.retries \in 0 .. PATHFINDER_R + 1
  BY <1>2 DEF Pending
<1>4. [a EXCEPT !.retries = @ + 1] \in Pending
  <2>1. a.retries <= PATHFINDER_R
    BY <1>1, <1>3, NumbersAssumption DEF Completed, NumbersAssumption
  <2>2. a.retries + 1 \in 0 .. PATHFINDER_R + 1
    BY <1>3, <2>1, NumbersAssumption DEF NumbersAssumption
  <2>3. QED
    BY <1>2, <2>2 DEF Pending
<1>5. announce' \in [Nodes -> SUBSET Pending] /\ \A k \in Nodes : AtMostOne(announce'[k])
  <2> DEFINE again == [a EXCEPT !.retries = @ + 1]
  <2>1. announce' = [announce EXCEPT ![n] = IF held[n] = {} THEN {again} ELSE held[n]] /\ again \in Pending
    BY <1>1, <1>4
  <2> HIDE DEF again
  <2>2. QED
    BY <2>1 DEF TypeOK, AtMostOne
<1>6. ASSUME NEW S, S \subseteq Segments, NEW response \in BOOLEAN
      PROVE  UNION {Sent(n, s, a.blob, a.hops, response) : s \in S} \subseteq Message
  <2> DEFINE sent == {Sent(n, s, a.blob, a.hops, response) : s \in S}
  <2>1. ASSUME NEW s \in S PROVE Sent(n, s, a.blob, a.hops, response) \subseteq Message
    <3>1. Sent(n, s, a.blob, a.hops, response) \subseteq Announce
      BY <1>3, <1>6, SentType DEF Announce
    <3>2. QED
      BY <3>1 DEF Message
  <2>2. \A x \in sent : x \subseteq Message
    BY <2>1
  <2> HIDE DEF sent
  <2>3. UNION sent \subseteq Message
    BY <2>2
  <2>4. QED
    BY <2>3 DEF sent
<1>7. Open(n) \subseteq Segments /\ Busy(n) \subseteq Segments /\ CanWait(n) \subseteq Segments
  BY DEF Open, Busy, CanWait, Interfaces
<1>8. net' \subseteq Message /\ queue' \subseteq Queued
  <2>1. CASE net' = net \cup UNION {Sent(n, s, a.blob, a.hops, TRUE) : s \in a.answers} /\ UNCHANGED queue
    BY <1>3, <1>6, <2>1 DEF TypeOK
  <2>2. ASSUME NEW more \in SUBSET CanWait(n),
               net' = net \cup UNION {Sent(n, s, a.blob, a.hops, FALSE) : s \in Open(n) \ (Busy(n) \cup more)},
               queue' = Requeued(n, a, Busy(n) \cup more)
        PROVE  net' \subseteq Message /\ queue' \subseteq Queued
    <3>1. UNION {Sent(n, s, a.blob, a.hops, FALSE) : s \in Open(n) \ (Busy(n) \cup more)} \subseteq Message
      BY <1>6, <1>7
    <3>2. Busy(n) \cup more \in SUBSET Segments
      BY <1>7
    <3>3. QED
      BY <1>2, <2>2, <3>1, <3>2, RequeuedType DEF TypeOK
  <2>3. QED
    BY <1>1, <2>1, <2>2
<1>9. held' \in [Nodes -> SUBSET Pending] /\ \A k \in Nodes : AtMostOne(held'[k])
  BY <1>1 DEF TypeOK, AtMostOne
<1>10. QED
  BY <1>1, <1>5, <1>8, <1>9, TypesSame DEF TypeOK

\* The release of held announces keeps the types.
LEMMA ProcessQueueType ==
  ASSUME TypeOK, NodesAssumption, NEW n \in Nodes, ProcessQueue(n)
  PROVE  TypeOK'
<1>1. PICK q \in queue :
        /\ queue' = queue \ {q} /\ net' = net \cup Sent(n, q.seg, q.blob, q.hops, FALSE)
        /\ UNCHANGED <<emitted, announced, asked, tables, limited, past>>
  BY DEF ProcessQueue
<1>2. q.seg \in Segments /\ q.blob \in Blobs /\ q.hops \in Nat
  BY DEF TypeOK, Queued
<1>3. Sent(n, q.seg, q.blob, q.hops, FALSE) \subseteq Announce
  BY <1>2, SentType DEF Announce
<1>4. QED
  BY <1>1, <1>3, TypesSame DEF TypeOK, Message, tables

\* A node asks on its own account.
LEMMA AskingType ==
  ASSUME TypeOK, NodesAssumption, NEW n \in Nodes, NEW on, on \subseteq Segments,
         asked' = Append(asked, n), net' = net \cup Asks(n, on, Len(asked')), emitted' = emitted
  PROVE  /\ asked' \in Seq(Nodes) /\ net' \subseteq Message' /\ DOMAIN asked \subseteq DOMAIN asked'
         /\ Path' = Path /\ Pending' = Pending /\ Queued' = Queued /\ Announce' = Announce /\ Blobs' = Blobs
<1>1. asked' \in Seq(Nodes) /\ Len(asked') = Len(asked) + 1 /\ Len(asked) \in Nat
  BY AppendProperties DEF TypeOK
<1>2. DOMAIN asked' = 1 .. Len(asked) + 1 /\ DOMAIN asked = 1 .. Len(asked)
  BY <1>1 DEF TypeOK
<1>3. Path' = Path /\ Pending' = Pending /\ Queued' = Queued /\ Announce' = Announce /\ Blobs' = Blobs
  BY DEF Path, Pending, Queued, Announce, Blobs
<1>4. Message \subseteq Message'
  BY <1>2, <1>3, TypesGrow
<1>5. Asks(n, on, Len(asked')) \subseteq
         [type: {"REQUEST"}, to: Nodes \cup {Home}, seg: Segments, tag: DOMAIN asked', from: SUBSET Nodes]
  <2> DEFINE T == DOMAIN asked'
  <2>1. Len(asked') \in T
    BY <1>1, <1>2
  <2> HIDE DEF T
  <2>2. Asks(n, on, Len(asked')) \subseteq
          [type: {"REQUEST"}, to: Nodes \cup {Home}, seg: Segments, tag: T, from: SUBSET Nodes]
    BY <2>1, AsksType
  <2>3. QED
    BY <2>2 DEF T
<1>6. Asks(n, on, Len(asked')) \subseteq Message'
  <2> DEFINE asks == Asks(n, on, Len(asked'))
  <2>1. asks \subseteq Request'
    BY <1>5 DEF Request
  <2>2. Request' \subseteq Message'
    BY DEF Message
  <2> HIDE DEF asks
  <2>3. asks \subseteq Message'
    BY <2>1, <2>2
  <2>4. QED
    BY <2>3 DEF asks
<1>7. QED
  BY <1>1, <1>2, <1>3, <1>4, <1>6 DEF TypeOK

\* request_path() keeps the types.
LEMMA RequestPathType ==
  ASSUME TypeOK, NodesAssumption, NEW n \in Nodes, RequestPath(n)
  PROVE  TypeOK'
<1>1. Interfaces(n) \subseteq Segments
  BY DEF Interfaces
<1>2. /\ asked' \in Seq(Nodes) /\ net' \subseteq Message' /\ DOMAIN asked \subseteq DOMAIN asked'
      /\ Path' = Path /\ Pending' = Pending /\ Queued' = Queued /\ Announce' = Announce /\ Blobs' = Blobs
  BY <1>1, AskingType DEF RequestPath
<1>3. tags' \in [Nodes \cup {Home} -> SUBSET DOMAIN asked']
  BY <1>2 DEF RequestPath, TypeOK, tables
<1>4. QED
  BY <1>2, <1>3 DEF RequestPath, TypeOK, tables

\* mark_path_unresponsive() keeps the types.
LEMMA MarkUnresponsiveType ==
  ASSUME TypeOK, NodesAssumption, NEW n \in Nodes, MarkUnresponsive(n)
  PROVE  TypeOK'
<1>1. PICK blocked_if \in Interfaces(n) : net' = net \cup Asks(n, Interfaces(n) \ {blocked_if}, Len(asked'))
  BY DEF MarkUnresponsive
<1>2. Interfaces(n) \ {blocked_if} \subseteq Segments
  BY DEF Interfaces
<1>3. /\ asked' \in Seq(Nodes) /\ net' \subseteq Message' /\ DOMAIN asked \subseteq DOMAIN asked'
      /\ Path' = Path /\ Pending' = Pending /\ Queued' = Queued /\ Announce' = Announce /\ Blobs' = Blobs
  BY <1>1, <1>2, AskingType DEF MarkUnresponsive
<1>4. tags' \in [Nodes \cup {Home} -> SUBSET DOMAIN asked']
  BY <1>3 DEF MarkUnresponsive, TypeOK
<1>5. QED
  BY <1>3, <1>4 DEF MarkUnresponsive, TypeOK

\* The tag of a request is remembered.
LEMMA TagsType ==
  ASSUME TypeOK, NEW m \in net, m.type = "REQUEST", m.to # Home,
         tags' = [tags EXCEPT ![m.to] = @ \cup {m.tag}]
  PROVE  /\ m.to \in Nodes /\ m.seg \in Segments /\ m.tag \in DOMAIN asked
         /\ tags' \in [Nodes \cup {Home} -> SUBSET DOMAIN asked]
<1>1. m \in Request
  BY MessageKinds DEF TypeOK
<1>2. m.to \in Nodes /\ m.seg \in Segments /\ m.tag \in DOMAIN asked
  BY <1>1 DEF Request
<1>3. QED
  BY <1>2 DEF TypeOK

\* The answer that is to be sent has the blob and the hops of the path.
LEMMA AnswerType ==
  ASSUME TypeOK, NodesAssumption, NumbersAssumption, NEW m \in net, AnswerRequest(m)
  PROVE  /\ m.to \in Nodes /\ TypeOK'
         /\ \A a \in announce'[m.to] : \E p \in path[m.to] : a.blob = p.blob /\ a.hops = p.hops
         /\ \A k \in Nodes \ {m.to} : announce'[k] = announce[k] /\ held'[k] = held[k]
         /\ held'[m.to] \in {held[m.to], announce[m.to]}
<1> DEFINE answer(p) == [blob |-> p.blob, hops |-> p.hops, retries |-> PATHFINDER_R, heard |-> 0,
                         answers |-> {m.seg}]
<1>1. /\ m.to \in Nodes /\ m.seg \in Segments
      /\ tags' \in [Nodes \cup {Home} -> SUBSET DOMAIN asked]
  BY TagsType DEF AnswerRequest, NewTag
<1>2. /\ held' = [held EXCEPT ![m.to] = IF announce[m.to] = {} THEN @ ELSE announce[m.to]]
      /\ announce' = [announce EXCEPT ![m.to] = {answer(p) : p \in path[m.to]}]
      /\ net' = net \ {m}
      /\ UNCHANGED <<emitted, announced, asked, path, unresponsive, discovery, queue, limited>>
  BY DEF AnswerRequest
<1>3. ASSUME NEW p \in path[m.to] PROVE answer(p) \in Pending /\ answer(p).blob = p.blob /\ answer(p).hops = p.hops
  <2>1. p \in Path
    BY <1>1 DEF TypeOK
  <2>2. p.blob \in Blobs /\ p.hops \in Nat
    BY <2>1, NumbersAssumption DEF Path, NumbersAssumption
  <2>3. PATHFINDER_R \in 0 .. PATHFINDER_R + 1 /\ 0 \in 0 .. LOCAL_REBROADCASTS_MAX
    BY NumbersAssumption DEF NumbersAssumption
  <2>4. QED
    BY <1>1, <2>2, <2>3 DEF Pending
<1> HIDE DEF answer
<1>4. announce' \in [Nodes -> SUBSET Pending] /\ \A k \in Nodes : AtMostOne(announce'[k])
  <2>1. AtMostOne(path[m.to])
    BY <1>1 DEF TypeOK
  <2>2. AtMostOne({answer(p) : p \in path[m.to]}) /\ {answer(p) : p \in path[m.to]} \subseteq Pending
    BY <1>3, <2>1 DEF AtMostOne
  <2>3. QED
    BY <1>1, <1>2, <2>2 DEF TypeOK
<1>5. held' \in [Nodes -> SUBSET Pending] /\ \A k \in Nodes : AtMostOne(held'[k])
  BY <1>1, <1>2 DEF TypeOK
<1>6. TypeOK'
  BY <1>1, <1>2, <1>4, <1>5, TypesSame DEF TypeOK
<1>7. announce'[m.to] = {answer(p) : p \in path[m.to]}
  BY <1>1, <1>2 DEF TypeOK
<1>8. \A k \in Nodes \ {m.to} : announce'[k] = announce[k] /\ held'[k] = held[k]
  BY <1>1, <1>2 DEF TypeOK
<1>9. held'[m.to] \in {held[m.to], announce[m.to]}
  BY <1>1, <1>2 DEF TypeOK
<1>10. QED
  BY <1>1, <1>3, <1>6, <1>7, <1>8, <1>9

\* A path request that starts a discovery keeps the types.
LEMMA DiscoverType ==
  ASSUME TypeOK, NodesAssumption, NEW m \in net, Discover(m)
  PROVE  TypeOK'
<1> DEFINE others == {s \in Interfaces(m.to) \ {m.seg} : QueueOf(m.to, s) = {}}
<1>1. /\ m.to \in Nodes /\ m.seg \in Segments /\ m.tag \in DOMAIN asked
      /\ tags' \in [Nodes \cup {Home} -> SUBSET DOMAIN asked]
  BY TagsType DEF Discover, NewTag
<1>2. PICK mute \in SUBSET {s \in others : <<m.to, s>> \in Capped} :
        net' = (net \ {m}) \cup Asks(m.to, others \ mute, m.tag)
  BY DEF Discover
<1>3. others \ mute \subseteq Segments
  BY DEF Interfaces
<1> HIDE DEF others
<1>4. Asks(m.to, others \ mute, m.tag) \subseteq Request
  BY <1>1, <1>3, AsksType DEF Request
<1>5. net' \subseteq Message
  BY <1>2, <1>4 DEF Message, TypeOK
<1>6. discovery' = [discovery EXCEPT ![m.to] = @ \cup {m.seg}] /\ discovery[m.to] = {}
      /\ UNCHANGED <<emitted, announced, asked, path, unresponsive, announce, held, queue, limited, past>>
  BY DEF Discover, Discovers
<1>7. discovery' \in [Nodes -> SUBSET Segments] /\ \A k \in Nodes : AtMostOne(discovery'[k])
  BY <1>1, <1>6 DEF TypeOK, AtMostOne
<1>8. QED
  BY <1>1, <1>5, <1>6, <1>7, TypesSame DEF TypeOK

\* A path request nobody answers keeps the types.
LEMMA IgnoreRequestType ==
  ASSUME TypeOK, NEW m \in net, IgnoreRequest(m)
  PROVE  TypeOK'
<1>1. tags' \in [Nodes \cup {Home} -> SUBSET DOMAIN asked]
  BY TagsType DEF IgnoreRequest
<1>2. QED
  BY <1>1, TypesSame DEF IgnoreRequest, TypeOK

\* Paths that expire or are lost, and requests that are forgotten, keep the types.
LEMMA MishapType ==
  ASSUME TypeOK, NEW n \in Nodes, Expire(n) \/ LosePath(n) \/ CullState(n) \/ ForgetRequest(n)
  PROVE  TypeOK'
<1>1. CASE Expire(n)
  <2> DEFINE old(p) == [p EXCEPT !.expired = TRUE]
  <2>1. \A p \in Path : old(p) \in Path
    BY DEF Path
  <2>2. path' = [path EXCEPT ![n] = {old(p) : p \in path[n]}]
    BY <1>1 DEF Expire
  <2> HIDE DEF old
  <2>3. path' \in [Nodes -> SUBSET Path] /\ \A k \in Nodes : AtMostOne(path'[k])
    BY <2>1, <2>2 DEF TypeOK, AtMostOne
  <2>4. QED
    BY <1>1, <2>3, TypesSame DEF Expire, TypeOK
<1>2. CASE LosePath(n)
  BY <1>2, TypesSame DEF LosePath, TypeOK, AtMostOne
<1>3. CASE CullState(n)
  BY <1>3, TypesSame DEF CullState, TypeOK
<1>4. CASE ForgetRequest(n)
  BY <1>4, TypesSame DEF ForgetRequest, TypeOK, AtMostOne
<1>5. QED
  BY <1>1, <1>2, <1>3, <1>4

\* Every step keeps the types.
LEMMA NextType == TypeOK /\ NodesAssumption /\ NumbersAssumption /\ [Next]_vars => TypeOK'
<1> SUFFICES ASSUME TypeOK, NodesAssumption, NumbersAssumption, [Next]_vars PROVE TypeOK'
  OBVIOUS
<1>1. CASE MakeAnnounce
  BY <1>1, MakeAnnounceType
<1>2. ASSUME NEW m \in net, ReceiveAnnounce(m) PROVE TypeOK'
  BY <1>2, HoldAnnounceType, IgnoreAnnounceType, AcceptAnnounceType DEF ReceiveAnnounce
<1>3. ASSUME NEW m \in net, ReceiveRequest(m) PROVE TypeOK'
  BY <1>3, AnswerAtHomeType, AnswerType, DiscoverType, IgnoreRequestType DEF ReceiveRequest
<1>4. ASSUME NEW n \in Nodes, Jobs(n) \/ ProcessQueue(n) PROVE TypeOK'
  BY <1>4, CompleteType, RebroadcastType, ProcessQueueType DEF Jobs
<1>5. ASSUME NEW n \in Nodes, ReleaseHeld(n) PROVE TypeOK'
  <2>1. emitted' = emitted /\ asked' = asked /\ limited' \subseteq limited /\ net' \subseteq Message
    BY <1>5, AnnounceFields DEF ReleaseHeld, TypeOK
  <2>2. QED
    BY <1>5, <2>1, TypesSame DEF ReleaseHeld, TypeOK, tables
<1>6. ASSUME NEW n \in Nodes, CullState(n) \/ RequestPath(n) \/ MishapOf(n) PROVE TypeOK'
  BY <1>6, RequestPathType, MarkUnresponsiveType, MishapType DEF MishapOf
<1>7. CASE UNCHANGED vars
  BY <1>7, TypesSame DEF vars, tables, TypeOK
<1>8. QED
  BY <1>1, <1>2, <1>3, <1>4, <1>5, <1>6, <1>7 DEF Next

\* Types, for every network and every set of mishaps.
THEOREM TypeCorrect == Spec => []TypeOK
<1>1. TypeOK /\ [Next]_vars => TypeOK'
  BY NextType, NodesAssumption, NumbersAssumption
<1>2. QED
  BY <1>1, InitType, PTL DEF Spec

-----------------------------------------------------------------------------
(***************************************************************************)
(* No circle: what a step must do for the invariant to stay.               *)
(***************************************************************************)

\* Paths of calm nodes get only newer.
Evolves ==
  /\ Calm' \subseteq Calm
  /\ \A blob \in Blobs : emitted'[blob] = emitted[blob]
  /\ \A n \in Calm' : \A p \in path[n] :
       \E new \in path'[n] :
         \/ emitted'[new.blob] > emitted[p.blob]
         \/ emitted'[new.blob] = emitted[p.blob] /\ new.hops <= p.hops

\* Backed before the step, or after it.
Holds(v, blob, hops) == (blob \in Blobs /\ Backed(v, blob, hops)) \/ Backed(v, blob, hops)'

PathsMove ==
  /\ Evolves /\ NowIsLatest' /\ CalmOnes'
  /\ \A n \in Nodes : \A p \in path'[n] : Holds(p.via, p.blob, p.hops - 1)
TablesMove  == \A n \in Nodes : \A a \in announce'[n] \cup held'[n] : Holds(n, a.blob, a.hops)
QueuesMove  == \A q \in queue' : Holds(q.node, q.blob, q.hops)
PacketsMove == \A m \in net' \cup limited' : m.type = "ANNOUNCE" => Holds(m.via, m.blob, m.hops)

Moves == PathsMove /\ TablesMove /\ QueuesMove /\ PacketsMove

\* What types say of emissions and hops.
LEMMA Numbers ==
  ASSUME TypeOK, NumbersAssumption
  PROVE  /\ \A blob \in Blobs : emitted[blob] \in Nat
         /\ Now \in Nat
         /\ \A n \in Nodes : \A p \in path[n] :
              p.blob \in Blobs /\ p.hops \in Nat \ {0} /\ p.via \in Nodes \cup {Home}
<1>1. \A blob \in Blobs : emitted[blob] \in Nat
  BY DEF TypeOK, Blobs
<1>2. Now \in Nat
  BY DEF Now, TypeOK
<1>3. ASSUME NEW n \in Nodes, NEW p \in path[n]
      PROVE  p.blob \in Blobs /\ p.hops \in Nat \ {0} /\ p.via \in Nodes \cup {Home}
  <2>1. p \in Path
    BY DEF TypeOK
  <2>2. QED
    BY <2>1, NumbersAssumption DEF Path, NumbersAssumption
<1>4. QED
  BY <1>1, <1>2, <1>3

\* Who was backed stays so.
LEMMA BackedStays ==
  ASSUME TypeOK, TypeOK', NumbersAssumption, Evolves,
         NEW v, NEW blob \in Blobs, NEW hops \in Int, Backed(v, blob, hops)
  PROVE  Backed(v, blob, hops)'
<1> SUFFICES ASSUME v \in Calm'
             PROVE  \E p \in path'[v] :
                      \/ emitted'[p.blob] > emitted'[blob]
                      \/ emitted'[p.blob] = emitted'[blob] /\ p.hops <= hops
  BY DEF Backed
<1>1. v \in Calm /\ v \in Nodes
  BY DEF Evolves, Calm
<1>2. PICK p \in path[v] :
        \/ emitted[p.blob] > emitted[blob]
        \/ emitted[p.blob] = emitted[blob] /\ p.hops <= hops
  BY <1>1 DEF Backed
<1>3. PICK new \in path'[v] :
        \/ emitted'[new.blob] > emitted[p.blob]
        \/ emitted'[new.blob] = emitted[p.blob] /\ new.hops <= p.hops
  BY DEF Evolves
<1>4. emitted'[blob] = emitted[blob] /\ emitted[blob] \in Nat /\ emitted[p.blob] \in Nat /\ p.hops \in Nat
  BY <1>1, Numbers DEF Evolves
<1>5. emitted'[new.blob] \in Nat /\ new.hops \in Nat
  <2>1. new \in Path' /\ emitted' \in Seq(Nat)
    BY <1>1 DEF TypeOK
  <2>2. new.blob \in Blobs' /\ new.hops \in Nat
    BY <2>1, NumbersAssumption DEF Path, NumbersAssumption
  <2>3. QED
    BY <2>1, <2>2 DEF Blobs
<1>6. QED
  BY <1>2, <1>3, <1>4, <1>5

\* What a step leaves in the tables is backed as before.
LEMMA OldHolds ==
  ASSUME TypeOK, NumbersAssumption, RouteInv
  PROVE  /\ \A n \in Nodes : /\ \A p \in path[n] : Holds(p.via, p.blob, p.hops - 1)
                             /\ \A a \in announce[n] \cup held[n] : Holds(n, a.blob, a.hops)
         /\ \A q \in queue : Holds(q.node, q.blob, q.hops)
         /\ \A m \in net \cup limited : m.type = "ANNOUNCE" => Holds(m.via, m.blob, m.hops)
<1>1. \A n \in Nodes : \A a \in announce[n] \cup held[n] : a.blob \in Blobs
  BY DEF TypeOK, Pending
<1>2. \A q \in queue : q.blob \in Blobs
  BY DEF TypeOK, Queued
<1>3. \A m \in net \cup limited : m.type = "ANNOUNCE" => m.blob \in Blobs
  <2>1. \A m \in net \cup limited : m.type = "ANNOUNCE" => m \in Announce
    BY MessageKinds DEF TypeOK
  <2>2. QED
    BY <2>1, AnnounceFields
<1>4. \A n \in Nodes : \A p \in path[n] : p.blob \in Blobs
  BY Numbers
<1>5. QED
  BY <1>1, <1>2, <1>3, <1>4 DEF Holds, RouteInv, PathsBacked, TablesBacked, QueuesBacked, PacketsBacked

\* A step that leaves calm nodes' paths as new or makes them newer, and everything on
\* its way backed by a path, keeps RouteInv.
LEMMA RouteStep ==
  ASSUME TypeOK, TypeOK', NumbersAssumption, Moves
  PROVE  RouteInv'
<1>1. ASSUME NEW v, NEW blob, NEW hops \in Int, Holds(v, blob, hops)
      PROVE  Backed(v, blob, hops)'
  BY <1>1, BackedStays DEF Holds, Moves, PathsMove
<1>2. PathsBacked'
  <2>1. \A n \in Nodes : \A p \in path'[n] : p.hops - 1 \in Int
    <3>1. \A p \in Path' : p.hops \in Int
      BY NumbersAssumption DEF Path, NumbersAssumption
    <3>2. QED
      BY <3>1 DEF TypeOK
  <2>2. \A n \in Nodes : \A p \in path'[n] : Backed(p.via, p.blob, p.hops - 1)'
    BY <1>1, <2>1 DEF Moves, PathsMove, TablesMove, QueuesMove, PacketsMove
  <2>3. QED
    BY <2>2 DEF PathsBacked
<1>3. TablesBacked'
  <2>1. \A n \in Nodes : \A a \in announce'[n] \cup held'[n] : a.hops \in Int
    <3>1. \A a \in Pending' : a.hops \in Int
      BY DEF Pending
    <3>2. QED
      BY <3>1 DEF TypeOK
  <2>2. \A n \in Nodes : \A a \in announce'[n] \cup held'[n] : Backed(n, a.blob, a.hops)'
    BY <1>1, <2>1 DEF Moves, PathsMove, TablesMove, QueuesMove, PacketsMove
  <2>3. QED
    BY <2>2 DEF TablesBacked
<1>4. QueuesBacked'
  <2>1. \A q \in queue' : q.hops \in Int
    BY DEF TypeOK, Queued
  <2>2. \A q \in queue' : Backed(q.node, q.blob, q.hops)'
    BY <1>1, <2>1 DEF Moves, PathsMove, TablesMove, QueuesMove, PacketsMove
  <2>3. QED
    BY <2>2 DEF QueuesBacked
<1>5. PacketsBacked'
  <2>1. \A m \in net' \cup limited' : m.type = "ANNOUNCE" => m.hops \in Int
    BY DEF TypeOK, Message, Announce, Request
  <2>2. \A m \in net' \cup limited' : m.type = "ANNOUNCE" => Backed(m.via, m.blob, m.hops)'
    BY <1>1, <2>1 DEF Moves, PathsMove, TablesMove, QueuesMove, PacketsMove
  <2>3. QED
    BY <2>2 DEF PacketsBacked
<1>6. QED
  BY <1>2, <1>3, <1>4, <1>5 DEF RouteInv, Moves, PathsMove

-----------------------------------------------------------------------------
(***************************************************************************)
(* No circle: what each action does to the paths.                          *)
(***************************************************************************)

\* Calm nodes are so because they were.
LEMMA CalmShrinks ==
  ASSUME past \subseteq past'
  PROVE  Calm' \subseteq Calm
BY DEF Calm, Upset

\* A step that leaves the path tables alone keeps the part about paths.
LEMMA PathsKept ==
  ASSUME TypeOK, NumbersAssumption, RouteInv,
         past \subseteq past', path' = path, \A n \in Calm' : n \in unresponsive' => n \in unresponsive,
         emitted' = emitted \/ Emit
  PROVE  PathsMove
<1>1. Calm' \subseteq Calm
  BY CalmShrinks
<1>2. \A blob \in Blobs : emitted'[blob] = emitted[blob]
  BY EmitGrows DEF TypeOK
<1>3. NowIsLatest'
  <2>1. CASE emitted' = emitted
    BY <2>1 DEF RouteInv, NowIsLatest, Now, Blobs
  <2>2. CASE Emit
    <3>1. /\ emitted' \in Seq(Nat) /\ Len(emitted') = Len(emitted) + 1 /\ Len(emitted) \in Nat
          /\ emitted'[Len(emitted')] \in {Now, Now + 1}
      BY <2>2, EmitGrows DEF TypeOK
    <3>2. Now' = emitted'[Len(emitted')]
      BY <3>1 DEF Now
    <3>3. ASSUME NEW blob \in Blobs' PROVE emitted'[blob] <= Now'
      <4>1. CASE blob \in Blobs
        <5>1. emitted'[blob] <= Now /\ emitted[blob] \in Nat /\ Now \in Nat
          BY <1>2, <4>1, Numbers DEF RouteInv, NowIsLatest
        <5>2. QED
          BY <1>2, <3>1, <3>2, <4>1, <5>1
      <4>2. CASE blob = Len(emitted')
        BY <3>1, <3>2, <4>2, Numbers
      <4>3. QED
        BY <3>1, <4>1, <4>2 DEF Blobs
    <3>4. QED
      BY <3>3 DEF NowIsLatest
  <2>3. QED
    BY <2>1, <2>2
<1>4. CalmOnes'
  BY <1>1 DEF RouteInv, CalmOnes, CalmPath
<1>5. Evolves
  <2>1. ASSUME NEW n \in Calm', NEW p \in path[n]
        PROVE  emitted'[p.blob] = emitted[p.blob] /\ p.hops <= p.hops
    <3>1. n \in Nodes
      BY DEF Calm
    <3>2. p.blob \in Blobs /\ p.hops \in Nat
      BY <3>1, Numbers
    <3>3. QED
      BY <1>2, <3>2
  <2>2. QED
    BY <1>1, <1>2, <2>1 DEF Evolves
<1>6. \A n \in Nodes : \A p \in path'[n] : Holds(p.via, p.blob, p.hops - 1)
  BY OldHolds
<1>7. QED
  BY <1>3, <1>4, <1>5, <1>6 DEF PathsMove

\* A path that is lost or gets too old leaves its node upset.
LEMMA PathsUpset ==
  ASSUME TypeOK, NodesAssumption, NumbersAssumption, RouteInv, NEW n \in Nodes, Expire(n) \/ LosePath(n)
  PROVE  PathsMove
<1>1. emitted' = emitted /\ unresponsive' = unresponsive /\ past \subseteq past'
  BY DEF Expire, LosePath, Mishap
<1>2. n \notin Calm' /\ Calm' \subseteq Calm
  <2>1. Calm' \subseteq Calm
    BY <1>1, CalmShrinks
  <2>2. n \in Upset'
    BY DEF Expire, LosePath, Mishap, Upset
  <2>3. QED
    BY <2>1, <2>2 DEF Calm
<1>3. /\ path' \in [Nodes -> SUBSET Path] /\ \A k \in Nodes \ {n} : path'[k] = path[k]
      /\ \A p \in path'[n] : \E old \in path[n] : p.via = old.via /\ p.blob = old.blob /\ p.hops = old.hops
  <2>1. CASE LosePath(n)
    BY <2>1 DEF LosePath, TypeOK
  <2>2. CASE Expire(n)
    <3> DEFINE old(p) == [p EXCEPT !.expired = TRUE]
    <3>1. \A p \in Path : old(p) \in Path /\ old(p).via = p.via /\ old(p).blob = p.blob /\ old(p).hops = p.hops
      BY DEF Path
    <3>2. path' = [path EXCEPT ![n] = {old(p) : p \in path[n]}]
      BY <2>2 DEF Expire
    <3> HIDE DEF old
    <3>3. QED
      BY <3>1, <3>2 DEF TypeOK
  <2>3. QED
    BY <2>1, <2>2
<1>4. \A k \in Calm' : k \in Nodes /\ k # n /\ path'[k] = path[k]
  BY <1>2, <1>3 DEF Calm
<1>5. NowIsLatest'
  BY <1>1 DEF RouteInv, NowIsLatest, Now, Blobs
<1>6. CalmOnes'
  BY <1>1, <1>2, <1>4 DEF RouteInv, CalmOnes, CalmPath
<1>7. Evolves
  <2>1. ASSUME NEW k \in Calm', NEW p \in path[k]
        PROVE  p \in path'[k] /\ emitted'[p.blob] = emitted[p.blob] /\ p.hops <= p.hops
    BY <1>1, <1>4, Numbers
  <2>2. QED
    BY <1>1, <1>2, <2>1 DEF Evolves
<1>8. \A k \in Nodes : \A p \in path'[k] : Holds(p.via, p.blob, p.hops - 1)
  <2>1. \A k \in Nodes : \A p \in path'[k] :
          \E old \in path[k] : p.via = old.via /\ p.blob = old.blob /\ p.hops = old.hops
    BY <1>3
  <2>2. QED
    BY <2>1, OldHolds
<1>9. QED
  BY <1>5, <1>6, <1>7, <1>8 DEF PathsMove

\* An announce that is accepted replaces the path of a calm node by a newer one.
LEMMA PathsAccept ==
  ASSUME TypeOK, NodesAssumption, NumbersAssumption, RouteInv, NEW m \in net, AcceptAnnounce(m)
  PROVE  PathsMove
<1> DEFINE n == m.to
           new == NewPath(m)
<1>1. m \in Announce
  BY MessageKinds DEF TypeOK, AcceptAnnounce
<1>2. n \in Nodes /\ m.blob \in Blobs /\ m.hops \in Nat /\ m.type = "ANNOUNCE"
  BY <1>1, AnnounceFields
<1>3. /\ Accepts(m) /\ path' = [path EXCEPT ![n] = {new}] /\ unresponsive' \subseteq unresponsive
      /\ emitted' = emitted /\ past \subseteq past'
  BY DEF AcceptAnnounce, Mishap
<1>4. new.via = m.via /\ new.blob = m.blob /\ new.hops = m.hops + 1 /\ CalmPath(new)
  BY <1>1, <1>3, NewPathType
<1> HIDE DEF n, new
<1>5. path'[n] = {new} /\ \A k \in Nodes \ {n} : path'[k] = path[k]
  BY <1>2, <1>3 DEF TypeOK
<1>6. Calm' \subseteq Calm
  BY <1>3, CalmShrinks
<1>7. ASSUME n \in Calm', NEW p \in path[n] PROVE emitted[p.blob] < emitted[m.blob]
  <2>1. CalmPath(p) /\ n \notin unresponsive
    BY <1>6, <1>7 DEF RouteInv, CalmOnes
  <2>2. Updates(m, p)
    BY <1>3 DEF Accepts, n
  <2>3. Newest(p.known, emitted[m.blob])
    BY <2>1, <2>2 DEF Updates, CalmPath, n
  <2>4. QED
    BY <2>1, <2>3 DEF CalmPath, Newest
<1>8. NowIsLatest'
  BY <1>3 DEF RouteInv, NowIsLatest, Now, Blobs
<1>9. CalmOnes'
  <2>1. \A k \in Calm' : k \notin unresponsive' /\ \A p \in path'[k] : CalmPath(p)
    BY <1>3, <1>4, <1>5, <1>6 DEF RouteInv, CalmOnes, Calm
  <2>2. QED
    BY <2>1 DEF CalmOnes, CalmPath
<1>10. Evolves
  <2>1. ASSUME NEW k \in Calm', NEW p \in path[k]
        PROVE  \E q \in path'[k] :
                 \/ emitted'[q.blob] > emitted[p.blob]
                 \/ emitted'[q.blob] = emitted[p.blob] /\ q.hops <= p.hops
    <3>1. k \in Nodes /\ p.hops \in Nat /\ emitted[p.blob] \in Nat /\ emitted[m.blob] \in Nat
      BY <1>2, Numbers DEF Calm
    <3>2. CASE k = n
      BY <1>3, <1>4, <1>5, <1>7, <3>1, <3>2
    <3>3. CASE k # n
      BY <1>3, <1>5, <3>1, <3>3
    <3>4. QED
      BY <3>2, <3>3
  <2>2. QED
    BY <1>3, <1>6, <2>1 DEF Evolves
<1>11. ASSUME NEW k \in Nodes, NEW p \in path'[k] PROVE Holds(p.via, p.blob, p.hops - 1)
  <2>1. CASE k = n
    <3>1. p = new /\ p.hops - 1 = m.hops
      BY <1>2, <1>4, <1>5, <2>1
    <3>2. Holds(m.via, m.blob, m.hops)
      BY <1>2, OldHolds
    <3>3. QED
      BY <1>4, <3>1, <3>2
  <2>2. CASE k # n
    BY <1>5, <2>2, OldHolds
  <2>3. QED
    BY <2>1, <2>2
<1>12. QED
  BY <1>8, <1>9, <1>10, <1>11 DEF PathsMove

-----------------------------------------------------------------------------
(***************************************************************************)
(* No circle: what each action does to the rest.                           *)
(***************************************************************************)

\* The destination's own node needs no path.
LEMMA HomeHolds ==
  ASSUME NodesAssumption, NEW blob, NEW hops
  PROVE  Holds(Home, blob, hops)
BY DEF Holds, Backed, Calm, NodesAssumption

\* A new announce is newer than every path to its destination.
LEMMA MakeAnnounceMoves ==
  ASSUME TypeOK, NodesAssumption, NumbersAssumption, RouteInv, MakeAnnounce
  PROVE  Moves
<1> DEFINE sent == {Sent(Home, s, Len(emitted) + 1, 0, FALSE) : s \in Interfaces(Home)}
<1>1. Emit /\ UNCHANGED <<asked, tables, queue, limited, past>> /\ net' = net \cup UNION sent
  BY DEF MakeAnnounce
<1>2. PathsMove
  BY <1>1, PathsKept DEF tables
<1>3. ASSUME NEW s \in Interfaces(Home), NEW x \in Sent(Home, s, Len(emitted) + 1, 0, FALSE)
      PROVE  Holds(x.via, x.blob, x.hops)
  <2>1. x.via = Home
    BY DEF Sent
  <2>2. QED
    BY <2>1, HomeHolds
<1>4. \A S \in sent : \A x \in S : Holds(x.via, x.blob, x.hops)
  BY <1>3
<1> HIDE DEF sent
<1>5. PacketsMove
  BY <1>1, <1>4, OldHolds DEF PacketsMove
<1>6. QED
  BY <1>1, <1>2, <1>5, OldHolds DEF Moves, TablesMove, QueuesMove, tables

\* So is the answer of the destination itself.
LEMMA AnswerAtHomeMoves ==
  ASSUME TypeOK, NodesAssumption, NumbersAssumption, RouteInv, NEW m \in net, AnswerAtHome(m)
  PROVE  Moves
<1>1. /\ emitted' = emitted \/ Emit
      /\ UNCHANGED <<announced, asked, path, unresponsive, announce, held, discovery, queue, limited, past>>
      /\ net' \subseteq net \cup Sent(Home, m.seg, Len(emitted) + 1, 0, TRUE)
  BY DEF AnswerAtHome
<1>2. PathsMove
  BY <1>1, PathsKept
<1>3. ASSUME NEW x \in Sent(Home, m.seg, Len(emitted) + 1, 0, TRUE)
      PROVE  Holds(x.via, x.blob, x.hops)
  <2>1. x.via = Home
    BY DEF Sent
  <2>2. QED
    BY <2>1, HomeHolds
<1>4. PacketsMove
  BY <1>1, <1>3, OldHolds DEF PacketsMove
<1>5. QED
  BY <1>1, <1>2, <1>4, OldHolds DEF Moves, TablesMove, QueuesMove

\* Announces held back and released leave the paths alone.
LEMMA HoldAnnounceMoves ==
  ASSUME TypeOK, NodesAssumption, NumbersAssumption, RouteInv,
         (\E m \in net : HoldAnnounce(m)) \/ \E n \in Nodes : ReleaseHeld(n)
  PROVE  Moves
<1>1. /\ UNCHANGED <<emitted, announced, asked, tables, queue>> /\ past \subseteq past'
      /\ net' \cup limited' \subseteq net \cup limited
  BY DEF HoldAnnounce, ReleaseHeld, Mishap
<1>2. PathsMove
  BY <1>1, PathsKept DEF tables
<1>3. QED
  BY <1>1, <1>2, OldHolds DEF Moves, TablesMove, QueuesMove, PacketsMove, tables

\* So does an announce that is not accepted.
LEMMA IgnoreAnnounceMoves ==
  ASSUME TypeOK, NodesAssumption, NumbersAssumption, RouteInv, NEW m \in net, IgnoreAnnounce(m)
  PROVE  Moves
<1>1. PICK prompt \in BOOLEAN :
        /\ m.type = "ANNOUNCE" /\ past \subseteq past'
        /\ announce' = [announce EXCEPT ![m.to] = Heard(m, prompt)] /\ net' = net \ {m}
        /\ UNCHANGED <<emitted, announced, asked, path, unresponsive, held, discovery, tags, queue, limited>>
  BY DEF IgnoreAnnounce
<1>2. m \in Announce
  BY <1>1, MessageKinds DEF TypeOK
<1>3. m.to \in Nodes
  BY <1>2, AnnounceFields
<1>4. PathsMove
  BY <1>1, PathsKept
<1>5. \A x \in Heard(m, prompt) : Holds(m.to, x.blob, x.hops)
  BY <1>2, <1>3, HeardType, OldHolds
<1>6. TablesMove
  BY <1>1, <1>3, <1>5, OldHolds DEF TablesMove, TypeOK
<1>7. QED
  BY <1>1, <1>4, <1>6, OldHolds DEF Moves, QueuesMove, PacketsMove

\* An announce that is accepted makes a path that is newer, or no longer.
LEMMA AcceptAnnounceMoves ==
  ASSUME TypeOK, NodesAssumption, NumbersAssumption, RouteInv, NEW m \in net, AcceptAnnounce(m)
  PROVE  Moves
<1> DEFINE new == [blob |-> m.blob, hops |-> m.hops + 1, retries |-> 0, heard |-> 0, answers |-> {}]
           sent == {Sent(m.to, s, m.blob, m.hops + 1, TRUE) : s \in discovery[m.to]}
<1>1. m \in Announce
  BY MessageKinds DEF TypeOK, AcceptAnnounce
<1>2. m.to \in Nodes /\ m.blob \in Blobs /\ m.hops \in Nat
  BY <1>1, AnnounceFields
<1>3. PICK prompt, blocked \in BOOLEAN :
        /\ Accepts(m) /\ path' = [path EXCEPT ![m.to] = {NewPath(m)}]
        /\ announce' = [announce EXCEPT ![m.to] =
                          IF m.to \in Relays /\ ~m.response /\ ~blocked THEN {new} ELSE Heard(m, prompt)]
        /\ net' = (net \ {m}) \cup UNION sent
        /\ UNCHANGED <<emitted, announced, asked, held, discovery, tags, queue, limited>>
  BY DEF AcceptAnnounce
<1>4. PathsMove
  BY PathsAccept
<1>5. Holds(m.to, m.blob, m.hops + 1)
  <2>1. path'[m.to] = {NewPath(m)} /\ NewPath(m).blob = m.blob /\ NewPath(m).hops = m.hops + 1
    BY <1>1, <1>2, <1>3, NewPathType DEF TypeOK
  <2>2. Backed(m.to, m.blob, m.hops + 1)'
    BY <1>2, <2>1 DEF Backed
  <2>3. QED
    BY <2>2 DEF Holds
<1>6. \A x \in Heard(m, prompt) : Holds(m.to, x.blob, x.hops)
  BY <1>1, <1>2, HeardType, OldHolds
<1>7. new.blob = m.blob /\ new.hops = m.hops + 1
  OBVIOUS
<1>8. \A S \in sent : \A x \in S : x.via = m.to /\ x.blob = m.blob /\ x.hops = m.hops + 1
  <2>1. ASSUME NEW s \in discovery[m.to], NEW x \in Sent(m.to, s, m.blob, m.hops + 1, TRUE)
        PROVE  x.via = m.to /\ x.blob = m.blob /\ x.hops = m.hops + 1
    BY DEF Sent
  <2>2. QED
    BY <2>1
<1> HIDE DEF new, sent
<1>9. TablesMove
  BY <1>2, <1>3, <1>5, <1>6, <1>7, OldHolds DEF TablesMove, TypeOK
<1>10. PacketsMove
  BY <1>3, <1>5, <1>8, OldHolds DEF PacketsMove
<1>11. QED
  BY <1>3, <1>4, <1>9, <1>10, OldHolds DEF Moves, QueuesMove

\* The end of a rebroadcast leaves the paths alone.
LEMMA CompleteMoves ==
  ASSUME TypeOK, NodesAssumption, NumbersAssumption, RouteInv, NEW n \in Nodes, Complete(n)
  PROVE  Moves
<1>1. /\ announce' = [announce EXCEPT ![n] = {}]
      /\ UNCHANGED <<emitted, announced, asked, path, unresponsive, held, discovery, tags, queue, limited, net, past>>
  BY DEF Complete
<1>2. PathsMove
  BY <1>1, PathsKept
<1>3. QED
  BY <1>1, <1>2, OldHolds DEF Moves, TablesMove, QueuesMove, PacketsMove, TypeOK

\* What is rebroadcast is backed as the entry of the announce table was.
LEMMA RebroadcastMoves ==
  ASSUME TypeOK, NodesAssumption, NumbersAssumption, RouteInv, NEW n \in Nodes, Rebroadcast(n)
  PROVE  Moves
<1>1. PICK a \in announce[n] :
        /\ announce' = [announce EXCEPT ![n] =
                          IF held[n] = {} THEN {[a EXCEPT !.retries = @ + 1]} ELSE held[n]]
        /\ held' = [held EXCEPT ![n] = {}]
        /\ \/ /\ net' = net \cup UNION {Sent(n, s, a.blob, a.hops, TRUE) : s \in a.answers}
              /\ UNCHANGED queue
           \/ \E more \in SUBSET CanWait(n) :
                /\ net' = net \cup UNION {Sent(n, s, a.blob, a.hops, FALSE) :
                                           s \in Open(n) \ (Busy(n) \cup more)}
                /\ queue' = Requeued(n, a, Busy(n) \cup more)
        /\ UNCHANGED <<emitted, announced, asked, path, unresponsive, discovery, tags, limited, past>>
  BY DEF Rebroadcast
<1>2. PathsMove
  BY <1>1, PathsKept
<1>3. Holds(n, a.blob, a.hops)
  BY OldHolds
<1>4. [a EXCEPT !.retries = @ + 1].blob = a.blob /\ [a EXCEPT !.retries = @ + 1].hops = a.hops
  BY DEF TypeOK, Pending
<1>5. TablesMove
  <2> DEFINE again == [a EXCEPT !.retries = @ + 1]
  <2>1. announce' = [announce EXCEPT ![n] = IF held[n] = {} THEN {again} ELSE held[n]]
        /\ again.blob = a.blob /\ again.hops = a.hops
    BY <1>1, <1>4
  <2> HIDE DEF again
  <2>2. QED
    BY <1>1, <1>3, <2>1, OldHolds DEF TablesMove, TypeOK
<1>6. ASSUME NEW S, NEW response \in BOOLEAN,
             net' = net \cup UNION {Sent(n, s, a.blob, a.hops, response) : s \in S}
      PROVE  PacketsMove
  <2> DEFINE sent == {Sent(n, s, a.blob, a.hops, response) : s \in S}
  <2>1. ASSUME NEW s \in S, NEW x \in Sent(n, s, a.blob, a.hops, response)
        PROVE  Holds(x.via, x.blob, x.hops)
    <3>1. x.via = n /\ x.blob = a.blob /\ x.hops = a.hops
      BY DEF Sent
    <3>2. QED
      BY <1>3, <3>1
  <2>2. \A T \in sent : \A x \in T : Holds(x.via, x.blob, x.hops)
    BY <2>1
  <2>3. net' = net \cup UNION sent
    BY <1>6
  <2> HIDE DEF sent
  <2>4. QED
    BY <1>1, <2>2, <2>3, OldHolds DEF PacketsMove
<1>7. ASSUME NEW waits PROVE \A q \in Requeued(n, a, waits) : Holds(q.node, q.blob, q.hops)
  <2> DEFINE stays == {q \in queue : q.node = n /\ q.seg \in waits /\ emitted[q.blob] >= emitted[a.blob]}
             goes  == {q \in queue : q.node = n /\ q.seg \in waits} \ stays
             added == {[node |-> n, seg |-> s, blob |-> a.blob, hops |-> a.hops] :
                         s \in {w \in waits : \A q \in stays : q.seg # w}}
  <2>1. Requeued(n, a, waits) = (queue \ goes) \cup added
    BY DEF Requeued
  <2>2. \A q \in added : q.node = n /\ q.blob = a.blob /\ q.hops = a.hops
    OBVIOUS
  <2> HIDE DEF goes, added
  <2>3. QED
    BY <1>3, <2>1, <2>2, OldHolds
<1>8. QueuesMove /\ PacketsMove
  <2>1. CASE net' = net \cup UNION {Sent(n, s, a.blob, a.hops, TRUE) : s \in a.answers} /\ UNCHANGED queue
    BY <1>6, <2>1, OldHolds DEF QueuesMove
  <2>2. ASSUME NEW more \in SUBSET CanWait(n),
               net' = net \cup UNION {Sent(n, s, a.blob, a.hops, FALSE) : s \in Open(n) \ (Busy(n) \cup more)},
               queue' = Requeued(n, a, Busy(n) \cup more)
        PROVE  QueuesMove /\ PacketsMove
    BY <1>6, <1>7, <2>2 DEF QueuesMove
  <2>3. QED
    BY <1>1, <2>1, <2>2
<1>9. QED
  BY <1>2, <1>5, <1>8 DEF Moves

\* What leaves the queue of an interface is backed as it was there.
LEMMA ProcessQueueMoves ==
  ASSUME TypeOK, NodesAssumption, NumbersAssumption, RouteInv, NEW n \in Nodes, ProcessQueue(n)
  PROVE  Moves
<1>1. PICK q \in queue :
        /\ q.node = n /\ queue' = queue \ {q} /\ net' = net \cup Sent(n, q.seg, q.blob, q.hops, FALSE)
        /\ UNCHANGED <<emitted, announced, asked, tables, limited, past>>
  BY DEF ProcessQueue
<1>2. PathsMove
  BY <1>1, PathsKept DEF tables
<1>3. ASSUME NEW x \in Sent(n, q.seg, q.blob, q.hops, FALSE) PROVE Holds(x.via, x.blob, x.hops)
  <2>1. x.via = n /\ x.blob = q.blob /\ x.hops = q.hops
    BY DEF Sent
  <2>2. QED
    BY <1>1, <2>1, OldHolds
<1>4. QED
  BY <1>1, <1>2, <1>3, OldHolds DEF Moves, TablesMove, QueuesMove, PacketsMove, tables

\* Requests move nothing but themselves.
LEMMA AsksMove ==
  ASSUME TypeOK, NodesAssumption, NumbersAssumption, RouteInv, PathsMove,
         announce' = announce, held' = held, queue' = queue, limited' = limited,
         NEW n, NEW on, NEW tag, net' \subseteq net \cup Asks(n, on, tag)
  PROVE  Moves
<1>1. \A x \in Asks(n, on, tag) : x.type = "REQUEST"
  BY DEF Asks
<1>2. QED
  BY <1>1, OldHolds DEF Moves, TablesMove, QueuesMove, PacketsMove

\* Path requests put no announce on its way that is not backed.
LEMMA RequestsMove ==
  ASSUME TypeOK, NodesAssumption, NumbersAssumption, RouteInv, NEW n \in Nodes,
         RequestPath(n) \/ MarkUnresponsive(n) \/ (\E m \in net : Discover(m) \/ IgnoreRequest(m))
  PROVE  Moves
<1>1. CASE RequestPath(n)
  <2>1. PathsMove
    BY <1>1, PathsKept DEF RequestPath, tables
  <2>2. QED
    BY <1>1, <2>1, AsksMove DEF RequestPath, tables
<1>2. CASE MarkUnresponsive(n)
  <2>1. /\ past \subseteq past' /\ path' = path /\ emitted' = emitted /\ unresponsive' = unresponsive \cup {n}
        /\ <<"UNRESPONSIVE", n>> \in past'
    BY <1>2 DEF MarkUnresponsive, Mishap
  <2>2. n \notin Calm'
    BY <2>1 DEF Calm, Upset
  <2>3. PathsMove
    BY <2>1, <2>2, PathsKept
  <2>4. PICK blocked_if \in Interfaces(n) : net' = net \cup Asks(n, Interfaces(n) \ {blocked_if}, Len(asked'))
    BY <1>2 DEF MarkUnresponsive
  <2>5. QED
    BY <1>2, <2>3, <2>4, AsksMove DEF MarkUnresponsive
<1>3. ASSUME NEW m \in net, Discover(m) PROVE Moves
  <2> DEFINE others == {s \in Interfaces(m.to) \ {m.seg} : QueueOf(m.to, s) = {}}
  <2>1. PICK mute \in SUBSET {s \in others : <<m.to, s>> \in Capped} :
          net' = (net \ {m}) \cup Asks(m.to, others \ mute, m.tag)
    BY <1>3 DEF Discover
  <2>2. PathsMove
    BY <1>3, PathsKept DEF Discover
  <2> HIDE DEF others
  <2>3. net' \subseteq net \cup Asks(m.to, others \ mute, m.tag)
    BY <2>1
  <2>4. announce' = announce /\ held' = held /\ queue' = queue /\ limited' = limited
    BY <1>3 DEF Discover
  <2>5. QED
    BY <2>2, <2>3, <2>4, AsksMove
<1>4. ASSUME NEW m \in net, IgnoreRequest(m) PROVE Moves
  <2>1. /\ past \subseteq past' /\ net' \subseteq net
        /\ UNCHANGED <<emitted, announced, asked, path, unresponsive, announce, held, discovery, queue, limited>>
    BY <1>4 DEF IgnoreRequest
  <2>2. PathsMove
    BY <2>1, PathsKept
  <2>3. QED
    BY <2>1, <2>2, OldHolds DEF Moves, TablesMove, QueuesMove, PacketsMove
<1>5. QED
  BY <1>1, <1>2, <1>3, <1>4

\* The answer to a path request has what the path has.
LEMMA AnswerMoves ==
  ASSUME TypeOK, NodesAssumption, NumbersAssumption, RouteInv, NEW m \in net, AnswerRequest(m)
  PROVE  Moves
<1>1. /\ past \subseteq past' /\ net' = net \ {m}
      /\ UNCHANGED <<emitted, announced, asked, path, unresponsive, discovery, queue, limited>>
  BY DEF AnswerRequest
<1>2. PathsMove
  BY <1>1, PathsKept
<1>3. m.to \in Nodes
  BY AnswerType
<1>4. ASSUME NEW a \in announce'[m.to] PROVE Holds(m.to, a.blob, a.hops)
  <2>1. PICK p \in path[m.to] : a.blob = p.blob /\ a.hops = p.hops
    BY AnswerType
  <2>2. p.blob \in Blobs /\ p.hops \in Nat
    BY <1>3, Numbers
  <2>3. Backed(m.to, a.blob, a.hops)
    BY <2>1, <2>2 DEF Backed
  <2>4. QED
    BY <2>1, <2>2, <2>3 DEF Holds
<1>5. TablesMove
  BY <1>3, <1>4, AnswerType, OldHolds DEF TablesMove
<1>6. QED
  BY <1>1, <1>2, <1>5, OldHolds DEF Moves, QueuesMove, PacketsMove

\* Paths that expire, are lost or are no longer marked are excused from the circle.
LEMMA UpsetMoves ==
  ASSUME TypeOK, NodesAssumption, NumbersAssumption, RouteInv, NEW n \in Nodes,
         Expire(n) \/ LosePath(n) \/ CullState(n) \/ ForgetRequest(n)
  PROVE  Moves
<1>1. /\ UNCHANGED <<emitted, announced, asked, announce, held, tags, queue, limited, net>>
      /\ past \subseteq past' /\ unresponsive' \subseteq unresponsive
  BY DEF Expire, LosePath, CullState, ForgetRequest, Mishap
<1>2. PathsMove
  <2>1. CASE Expire(n) \/ LosePath(n)
    BY <2>1, PathsUpset
  <2>2. CASE CullState(n) \/ ForgetRequest(n)
    BY <1>1, <2>2, PathsKept DEF CullState, ForgetRequest
  <2>3. QED
    BY <2>1, <2>2
<1>3. QED
  BY <1>1, <1>2, OldHolds DEF Moves, TablesMove, QueuesMove, PacketsMove

\* Every step keeps RouteInv.
LEMMA RouteNext ==
  TypeOK /\ RouteInv /\ NodesAssumption /\ NumbersAssumption /\ [Next]_vars => RouteInv'
<1> SUFFICES ASSUME TypeOK, RouteInv, NodesAssumption, NumbersAssumption, [Next]_vars PROVE RouteInv'
  OBVIOUS
<1>1. TypeOK'
  BY NextType
<1>2. CASE MakeAnnounce
  BY <1>1, <1>2, MakeAnnounceMoves, RouteStep
<1>3. ASSUME NEW m \in net, ReceiveAnnounce(m) PROVE RouteInv'
  <2>1. Moves
    BY <1>3, HoldAnnounceMoves, IgnoreAnnounceMoves, AcceptAnnounceMoves DEF ReceiveAnnounce
  <2>2. QED
    BY <1>1, <2>1, RouteStep
<1>4. ASSUME NEW m \in net, ReceiveRequest(m) PROVE RouteInv'
  <2>1. CASE AnswerAtHome(m) \/ AnswerRequest(m)
    BY <1>1, <2>1, AnswerAtHomeMoves, AnswerMoves, RouteStep
  <2>2. CASE Discover(m) \/ IgnoreRequest(m)
    <3>1. PICK n \in Nodes : TRUE
      <4>1. m.to \in Nodes
        BY <2>2, TagsType DEF Discover, NewTag, IgnoreRequest
      <4>2. QED
        BY <4>1
    <3>2. QED
      BY <1>1, <2>2, <3>1, RequestsMove, RouteStep
  <2>3. QED
    BY <1>4, <2>1, <2>2 DEF ReceiveRequest
<1>5. ASSUME NEW n \in Nodes, Jobs(n) \/ ProcessQueue(n) PROVE RouteInv'
  <2>1. Moves
    BY <1>5, CompleteMoves, RebroadcastMoves, ProcessQueueMoves DEF Jobs
  <2>2. QED
    BY <1>1, <2>1, RouteStep
<1>6. ASSUME NEW n \in Nodes, ReleaseHeld(n) PROVE RouteInv'
  BY <1>1, <1>6, HoldAnnounceMoves, RouteStep
<1>7. ASSUME NEW n \in Nodes, CullState(n) \/ RequestPath(n) \/ MishapOf(n) PROVE RouteInv'
  <2>1. Moves
    BY <1>7, RequestsMove, UpsetMoves DEF MishapOf
  <2>2. QED
    BY <1>1, <2>1, RouteStep
<1>8. CASE UNCHANGED vars
  <2>1. PathsMove
    BY <1>8, PathsKept DEF vars, tables
  <2>2. Moves
    BY <1>8, <2>1, OldHolds DEF Moves, TablesMove, QueuesMove, PacketsMove, vars, tables
  <2>3. QED
    BY <1>1, <2>2, RouteStep
<1>9. QED
  BY <1>2, <1>3, <1>4, <1>5, <1>6, <1>7, <1>8 DEF Next

\* There are no paths at the start.
LEMMA InitRoute == Init => RouteInv
BY DEF Init, RouteInv, NowIsLatest, CalmOnes, PathsBacked, TablesBacked, QueuesBacked, PacketsBacked, Blobs, Calm

\* A set of natural numbers has a least one.
LEMMA LeastExists ==
  ASSUME NEW S \in SUBSET Nat, S # {}
  PROVE  \E k \in S : \A i \in S : k <= i
<1> DEFINE R == OpToRel(<, Nat)
<1>1. IsWellFoundedOn(R, Nat)
  BY NatLessThanWellFounded
<1>2. PICK k \in S : \A i \in S : <<i, k>> \notin R
  <2> HIDE DEF R
  <2> QED
    BY <1>1, WFMin
<1>3. \A i \in S : ~(i < k)
  BY <1>2 DEF OpToRel
<1>4. QED
  BY <1>3

\* A circle of calm nodes would have a node with the newest path, and of these
\* the one with the shortest: its next hop has a newer or a shorter one.
LEMMA RouteInvIsLoopFree == TypeOK /\ RouteInv /\ NumbersAssumption => LoopFree
<1> SUFFICES ASSUME TypeOK, RouteInv, NumbersAssumption,
                    NEW circle \in SUBSET Calm, circle # {},
                    \A n \in circle : \E p \in path[n] : p.via \in circle
             PROVE  FALSE
  BY DEF LoopFree, Calm
<1> DEFINE Age(p) == Now - emitted[p.blob]
           Ages == {k \in Nat : \E n \in circle : \E p \in path[n] : Age(p) = k}
<1>1. \A n \in circle : n \in Nodes /\ n \in Calm
  BY DEF Calm
<1>2. \A n \in circle : \A p \in path[n] :
        /\ p.hops \in Nat \ {0} /\ Age(p) \in Nat /\ Now \in Nat
        /\ p.blob \in Blobs /\ emitted[p.blob] \in Nat
  BY <1>1, Numbers DEF RouteInv, NowIsLatest
<1>3. Ages \in SUBSET Nat /\ Ages # {}
  BY <1>2
<1>4. PICK k \in Ages : \A i \in Ages : k <= i
  <2> HIDE DEF Ages
  <2> QED
    BY <1>3, LeastExists
<1> DEFINE Lengths == {h \in Nat : \E n \in circle : \E p \in path[n] : Age(p) = k /\ p.hops = h}
<1>5. Lengths \in SUBSET Nat /\ Lengths # {}
  BY <1>2, <1>4
<1>6. PICK h \in Lengths : \A i \in Lengths : h <= i
  <2> HIDE DEF Lengths
  <2> QED
    BY <1>5, LeastExists
<1>7. PICK n \in circle : \E p \in path[n] : Age(p) = k /\ p.hops = h
  BY <1>6
<1>8. PICK p \in path[n] : Age(p) = k /\ p.hops = h
  BY <1>7
<1>9. p.via \in circle
  BY <1>1, <1>8 DEF TypeOK, AtMostOne
<1>10. PICK q \in path[p.via] :
        \/ emitted[q.blob] > emitted[p.blob]
        \/ emitted[q.blob] = emitted[p.blob] /\ q.hops <= p.hops - 1
  <2>1. Backed(p.via, p.blob, p.hops - 1)
    BY <1>1 DEF RouteInv, PathsBacked
  <2>2. QED
    BY <1>1, <1>9, <2>1 DEF Backed
<1>11. CASE emitted[q.blob] > emitted[p.blob]
  <2>1. Age(q) \in Ages /\ Age(q) < k
    BY <1>2, <1>8, <1>9, <1>11
  <2>2. QED
    BY <1>2, <1>4, <1>8, <1>9, <2>1
<1>12. CASE emitted[q.blob] = emitted[p.blob] /\ q.hops <= p.hops - 1
  <2>1. q.hops \in Lengths /\ q.hops < h
    BY <1>2, <1>8, <1>9, <1>12
  <2>2. QED
    BY <1>2, <1>6, <1>8, <1>9, <2>1
<1>13. QED
  BY <1>10, <1>11, <1>12

\* In every network, with every mishap: packets are sent in a circle only through
\* a node whose path was lost, expired or unresponsive.
THEOREM NoCircle == Spec => []LoopFree
<1>1. Init => TypeOK /\ RouteInv
  BY InitType, InitRoute
<1>2. TypeOK /\ RouteInv /\ [Next]_vars => (TypeOK /\ RouteInv)'
  BY NextType, RouteNext, NodesAssumption, NumbersAssumption
<1>3. TypeOK /\ RouteInv => LoopFree
  BY RouteInvIsLoopFree, NumbersAssumption
<1>4. QED
  BY <1>1, <1>2, <1>3, PTL DEF Spec
=============================================================================
