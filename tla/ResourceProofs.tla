--------------------------- MODULE ResourceProofs ---------------------------
(***************************************************************************)
(* What is proved of Resource for every size of the transfer, every window *)
(* and every number of retries.                                            *)
(***************************************************************************)
EXTENDS Resource, FiniteSetTheorems, WellFoundedInduction, SequenceTheorems, TLAPS

-----------------------------------------------------------------------------
(***************************************************************************)
(* The inductive invariants.                                               *)
(***************************************************************************)

\* The receiver knows hashes of parts that exist.
KnownExist == \A s \in Segment : inc[s].known \subseteq 1 .. parts[s]

TypeInv == TypeOK /\ KnownExist

\* All segments before s are proved.
Started(s) == \A t \in 1 .. s - 1 : out[t].status = "COMPLETE"

\* A segment that is not started has left no trace.
Untouched(s) ==
  /\ out[s] = NewOutgoing /\ inc[s] = NewIncoming
  /\ s \notin outgoing /\ s \notin incoming
  /\ \A m \in net : m.seg # s

OneAtATime == \A s \in Segment : Started(s) \/ Untouched(s)

\* While it is being advertised a segment is not listed.
ListedOnce == \A s \in Segment : out[s].job # "none" => s \notin outgoing

\* What the sender takes for complete is stored, and left alone.
CompleteIsStored ==
  \A s \in Segment : out[s].status = "COMPLETE" =>
    /\ out[s].job = "none" /\ s \notin outgoing
    /\ s \in cached /\ Started(s)

ProofsAreTrue == \A m \in net : m.type = "PRF" => m.seg \in cached

\* A segment of which parts have arrived is not advertised any more.
Arrived(s) == inc[s].got # {} \/ inc[s].assembly # "none"
Past(s) == Started(s) /\ out[s].job = "none" /\ out[s].status # "ADVERTISED"

\* It will never be advertised again, and no advertisement is left on its way.
Settled(s) == Past(s) /\ Advertisement(s) \notin net
StaySettled == \A s \in Segment : (Past(s) => Past(s)') /\ (Settled(s) => Settled(s)')

NotAdvertisedAgain ==
  /\ \A s \in Segment : Arrived(s) => Past(s) /\ Advertisement(s) \notin net
  /\ \A m \in net : m.type = "PART" => Past(m.seg)

\* A stored segment is not assembled again.
StoredOnce == \A s \in 1 .. Len(file) : inc[s].assembly \in {"concludes", "ended"}

FileInOrder ==
  /\ file = [k \in 1 .. Len(file) |-> k]
  /\ cached \subseteq 1 .. Len(file) /\ Len(file) <= Segments

TransferInv ==
  /\ OneAtATime /\ ListedOnce /\ CompleteIsStored /\ ProofsAreTrue
  /\ NotAdvertisedAgain /\ StoredOnce /\ FileInOrder

-----------------------------------------------------------------------------
(***************************************************************************)
(* Types.                                                                  *)
(***************************************************************************)

\* What a Resource of segment s at the receiver may be.
Receiving(s) == {r \in Incoming : r.known \subseteq 1 .. parts[s]}

\* Segments and their sizes are natural numbers.
LEMMA SegmentsType ==
  ASSUME TypeInv
  PROVE  /\ Segments \in Nat
         /\ \A s \in Segment : s \in Nat /\ parts[s] \in Nat \ {0}
  BY SizesAssumption DEF TypeInv, TypeOK, Segment, Segments

\* TypeInv, in terms of Receiving.
LEMMA IncType ==
  ASSUME TypeInv
  PROVE  \A s \in Segment : inc[s] \in Receiving(s)
  BY DEF TypeInv, TypeOK, KnownExist, Receiving

\* What the network carries are packets.
LEMMA CarriedType ==
  ASSUME NEW others \in SUBSET Message, NEW packets \in SUBSET Message,
         NEW carried \in Carried(others, packets)
  PROVE  carried \subseteq Message
  BY DEF Carried

\* Parts of an interval can be counted.
LEMMA Countable ==
  ASSUME NEW a \in Nat, NEW b \in Nat, NEW S \in SUBSET (a .. b)
  PROVE  Cardinality(S) \in Nat
  <1>1. IsFiniteSet(a .. b) BY FS_Interval
  <1>2. IsFiniteSet(S) BY <1>1, FS_Subset
  <1> QED BY <1>2, FS_CardinalityType

\* A set of natural numbers has a smallest element.
LEMMA SmallestExists ==
  ASSUME NEW S \in SUBSET Nat, S # {}
  PROVE  \E n \in S : \A k \in S : n <= k
  <1> DEFINE R == OpToRel(<, Nat)
  <1>1. IsWellFoundedOn(R, Nat) BY NatLessThanWellFounded
  <1>2. PICK n \in S : \A k \in S : <<k, n>> \notin R
    <2> HIDE DEF R
    <2> QED BY <1>1, WFMin
  <1>3. \A k \in S : ~(k < n) BY <1>2 DEF OpToRel
  <1> QED BY <1>3

\* The constants are numbers of the ranges that are assumed.
LEMMA ConstantsType ==
  /\ HASHMAP_MAX_LEN \in Nat \ {0} /\ WINDOW_FLEXIBILITY \in Nat \ {0}
  /\ WINDOW \in Nat /\ WINDOW_MIN \in Nat /\ WINDOW_MAX_SLOW \in Nat
  /\ WINDOW_MAX_FAST \in Nat /\ WINDOW_MAX_VERY_SLOW \in Nat
  /\ MAX_RETRIES \in Nat /\ MAX_ADV_RETRIES \in Nat /\ PROOF_RETRIES \in Nat
  BY WindowAssumption, RetriesAssumption

\* cancel() and the end of a Resource at the sender keep its type.
LEMMA OutgoingType ==
  ASSUME NEW r \in Outgoing
  PROVE  /\ Cancelled(r) \in Outgoing /\ Ended(r) \in Outgoing
         /\ Ended(Cancelled(r)) \in Outgoing
  <1>1. ASSUME NEW q \in Outgoing PROVE Ended(q) \in Outgoing
    BY <1>1, ConstantsType DEF Ended, NewOutgoing, Outgoing
  <1>2. Cancelled(r) \in Outgoing
    <2>1. "FAILED" \in Status BY DEF Status
    <2>2. Append(r.told, "FAILED") \in Seq(Status)
      BY <2>1, AppendProperties DEF Outgoing
    <2> QED BY <2>1, <2>2 DEF Cancelled, Outgoing
  <1> QED BY <1>1, <1>2

\* A new Resource at the receiver has its type.
LEMMA NewIncomingType ==
  ASSUME NEW s \in Segment
  PROVE  NewIncoming \in Receiving(s)
  <1>1. <<>> \in Seq(Status) OBVIOUS
  <1> QED BY <1>1, ConstantsType DEF NewIncoming, Receiving, Incoming, Status, Open, Waiting

\* cancel() at the receiver keeps the type, and so does what is left out after it.
LEMMA DroppedType ==
  ASSUME NEW s \in Segment, NEW r \in Receiving(s)
  PROVE  /\ Cancelled(r) \in Receiving(s) /\ Dropped(r) \in Receiving(s)
         /\ Dropped(Cancelled(r)) \in Receiving(s)
  <1>1. ASSUME NEW q \in Receiving(s) PROVE Dropped(q) \in Receiving(s)
    BY <1>1, NewIncomingType DEF Dropped, Receiving, Incoming
  <1>2. Cancelled(r) \in Receiving(s)
    <2>1. "FAILED" \in Status BY DEF Status
    <2>2. Append(r.told, "FAILED") \in Seq(Status)
      BY <2>1, AppendProperties DEF Receiving, Incoming
    <2> QED BY <2>1, <2>2 DEF Cancelled, Receiving, Incoming
  <1> QED BY <1>1, <1>2

\* What request_next() asks for is a finite number of parts.
LEMMA AskedType ==
  ASSUME TypeInv, NEW s \in Segment, NEW r \in Receiving(s)
  PROVE  /\ Asked(r, s) \subseteq Nat /\ Cardinality(Asked(r, s)) \in Nat
         /\ Cardinality(r.known) \in Nat
  <1>1. r.height \in Nat /\ r.window \in Nat /\ parts[s] \in Nat
    BY SegmentsType DEF Receiving, Incoming
  <1>2. Lowest(r.height + r.window, parts[s]) \in Nat
    BY <1>1 DEF Lowest
  <1>3. Asked(r, s) \subseteq r.height + 1 .. Lowest(r.height + r.window, parts[s])
    BY DEF Asked, Missing
  <1>4. r.known \subseteq 1 .. parts[s] BY DEF Receiving
  <1>5. Cardinality(Asked(r, s)) \in Nat
    <2>1. r.height + 1 \in Nat BY <1>1
    <2> QED BY <2>1, <1>2, <1>3, Countable
  <1>6. Cardinality(r.known) \in Nat BY <1>1, <1>4, Countable
  <1> QED BY <1>1, <1>2, <1>3, <1>5, <1>6

\* request_next() keeps the type, and sends requests.
LEMMA NextRequestedType ==
  ASSUME TypeInv, NEW s \in Segment, NEW r \in Receiving(s)
  PROVE  NextRequested(r, s) \in Receiving(s) /\ Request(r, s) \subseteq Message
  <1> DEFINE asking == [r EXCEPT !.outstanding = Cardinality(Asked(r, s)),
                                 !.waiting = Unknown(r, s) # {}]
  <1>1. asking \in Receiving(s)
    <2>1. Cardinality(Asked(r, s)) \in Int /\ (Unknown(r, s) # {}) \in BOOLEAN
      BY AskedType
    <2> QED BY <2>1 DEF Receiving, Incoming
  <1>2. Dropped(Cancelled(asking)) \in Receiving(s)
    BY <1>1, DroppedType
  <1>3. NextRequested(r, s) \in Receiving(s)
    BY <1>1, <1>2 DEF NextRequested
  <1>4. Request(r, s) \subseteq Message
    BY AskedType DEF Request, Send, Message
  <1> QED BY <1>3, <1>4

\* hashmap_update() keeps the type.
LEMMA MappedType ==
  ASSUME TypeInv, NEW s \in Segment, NEW r \in Receiving(s), NEW from \in Nat
  PROVE  Mapped(r, s, from) \in Receiving(s)
  <1>1. HashesFrom(s, from) \subseteq 1 .. parts[s]
    BY SegmentsType, ConstantsType DEF HashesFrom, Lowest
  <1>2. "TRANSFERRING" \in Status BY DEF Status, Open, Waiting
  <1>3. HashesFrom(s, from) \subseteq Nat BY <1>1, SegmentsType
  <1> QED BY <1>1, <1>2, <1>3 DEF Mapped, Receiving, Incoming

\* The windows stay natural numbers.
LEMMA WindowType ==
  ASSUME NEW s \in Segment, NEW r \in Receiving(s), NEW slow \in BOOLEAN
  PROVE  Widened(r, slow) \in Receiving(s) /\ Narrowed(r) \in Receiving(s)
  <1>1. /\ r.window \in Nat /\ r.window_min \in Nat /\ r.window_max \in Nat
        /\ WINDOW_MAX_VERY_SLOW \in Nat /\ WINDOW_FLEXIBILITY \in Nat \ {0}
    BY ConstantsType DEF Receiving, Incoming
  <1>2. ASSUME NEW width \in Nat, NEW min \in Nat, NEW max \in Nat
        PROVE  [r EXCEPT !.window = width, !.window_max = max, !.window_min = min]
                 \in Receiving(s)
    BY <1>2 DEF Receiving, Incoming
  <1>3. Widened(r, slow) \in Receiving(s)
    <2> DEFINE grows == r.window < r.window_max
               width == IF grows THEN r.window + 1 ELSE r.window
               max   == IF slow THEN WINDOW_MAX_VERY_SLOW ELSE r.window_max
               min   == IF grows /\ width - r.window_min > WINDOW_FLEXIBILITY - 1
                          THEN r.window_min + 1 ELSE r.window_min
    <2>1. width \in Nat /\ max \in Nat /\ min \in Nat BY <1>1
    <2>2. Widened(r, slow) = [r EXCEPT !.window = width, !.window_max = max,
                                       !.window_min = min]
      BY DEF Widened
    <2>3. [r EXCEPT !.window = width, !.window_max = max, !.window_min = min]
            \in Receiving(s)
      <3> HIDE DEF width, max, min
      <3> QED BY <2>1, <1>2
    <2> QED BY <2>2, <2>3
  <1>4. Narrowed(r) \in Receiving(s)
    <2> DEFINE width == r.window - 1
               max   == r.window_max - 1
               lower == IF max - width > WINDOW_FLEXIBILITY - 1 THEN max - 1 ELSE max
    <2>1. CASE r.window > r.window_min /\ r.window_max > r.window_min
      <3>1. width \in Nat /\ lower \in Nat BY <2>1, <1>1
      <3>2. Narrowed(r) = [r EXCEPT !.window = width, !.window_max = lower]
        BY <2>1, <1>1 DEF Narrowed
      <3>3. [r EXCEPT !.window = width, !.window_max = lower] \in Receiving(s)
        BY <3>1 DEF Receiving, Incoming
      <3> QED BY <3>2, <3>3
    <2>2. CASE r.window > r.window_min /\ r.window_max <= r.window_min
      <3>1. width \in Nat BY <2>2, <1>1
      <3>2. Narrowed(r) = [r EXCEPT !.window = width] BY <2>2, <1>1 DEF Narrowed
      <3>3. [r EXCEPT !.window = width] \in Receiving(s)
        BY <3>1 DEF Receiving, Incoming
      <3> QED BY <3>2, <3>3
    <2>3. CASE r.window <= r.window_min
      BY <2>3 DEF Narrowed
    <2> QED BY <1>1, <2>1, <2>2, <2>3
  <1> QED BY <1>3, <1>4

\* consecutive_completed_height moves to a part that exists.
LEMMA TakenType ==
  ASSUME TypeInv, NEW s \in Segment, NEW r \in Receiving(s), NEW p \in Nat
  PROVE  Taken(r, s, p) \in Receiving(s)
  <1> DEFINE start == Highest(r.height, 1)
             got   == r.got \cup {p}
             first == IF p = r.height + 1 THEN p ELSE r.height
             stops == {q \in first .. parts[s] : q = parts[s] \/ q + 1 \notin got}
             shown == ((start .. start + r.window - 1) \cap r.known) \ r.got
  <1>1. r.height \in Nat /\ r.window \in Nat /\ parts[s] \in Nat /\ r.got \subseteq Nat
    BY SegmentsType DEF Receiving, Incoming
  <1>2. CASE p \in shown
    <2>1. p \in 1 .. parts[s] /\ start <= p BY <1>2 DEF Receiving
    <2>2. first \in Nat /\ first <= parts[s] BY <1>1, <2>1 DEF Highest
    <2>3. stops \subseteq Nat /\ stops # {} /\ parts[s] \in stops BY <1>1, <2>2
    <2>4. PICK q \in stops : \A t \in stops : q <= t
      BY <2>3, SmallestExists
    <2>5. (CHOOSE u \in stops : \A t \in stops : u <= t) \in Nat
      BY <2>3, <2>4
    <2> DEFINE height == CHOOSE u \in stops : \A t \in stops : u <= t
    <2>6. Taken(r, s, p) = [r EXCEPT !.got = got, !.outstanding = @ - 1, !.height = height]
      BY <1>2 DEF Taken
    <2>7. got \subseteq Nat /\ height \in Nat BY <1>1, <2>5
    <2>8. r.outstanding - 1 \in Int BY DEF Receiving, Incoming
    <2>9. ASSUME NEW g \in SUBSET Nat, NEW h \in Nat, NEW o \in Int
          PROVE  [r EXCEPT !.got = g, !.outstanding = o, !.height = h] \in Receiving(s)
      BY <2>9 DEF Receiving, Incoming
    <2>10. [r EXCEPT !.got = got, !.outstanding = @ - 1, !.height = height]
             \in Receiving(s)
      <3> HIDE DEF got, height
      <3> QED BY <2>7, <2>8, <2>9
    <2> QED BY <2>6, <2>10
  <1>3. CASE p \notin shown
    BY <1>3 DEF Taken
  <1> QED BY <1>2, <1>3

\* receive_part() keeps the type.
LEMMA ReceivedType ==
  ASSUME TypeInv, NEW s \in Segment, NEW r \in Receiving(s), NEW p \in Nat,
         NEW fast \in BOOLEAN, NEW slow \in BOOLEAN
  PROVE  Received(r, s, p, fast, slow) \in Receiving(s)
  <1> DEFINE heard == [r EXCEPT !.retries = MAX_RETRIES,
                                !.window_max = IF fast THEN WINDOW_MAX_FAST ELSE @]
             alive == [heard EXCEPT !.status = "TRANSFERRING"]
             taken == IF p = 0 THEN alive ELSE Taken(alive, s, p)
  <1>1. heard \in Receiving(s) BY ConstantsType DEF Receiving, Incoming
  <1>2. alive \in Receiving(s) BY <1>1 DEF Receiving, Incoming, Status, Open, Waiting
  <1>3. taken \in Receiving(s) BY <1>2, TakenType
  <1>4. [taken EXCEPT !.assembly = "starts"] \in Receiving(s)
    BY <1>3 DEF Receiving, Incoming
  <1>5. Widened(taken, slow) \in Receiving(s) BY <1>3, WindowType
  <1> HIDE DEF heard, taken
  <1> QED BY <1>1, <1>3, <1>4, <1>5 DEF Received, heard, taken

\* An update of one Resource at the sender keeps the type of all of them.
LEMMA OutUpdate ==
  ASSUME TypeInv, NEW s \in Segment, NEW q \in Outgoing
  PROVE  [out EXCEPT ![s] = q] \in [Segment -> Outgoing]
  BY DEF TypeInv, TypeOK

\* Each step of the sender's threads and of its watchdog changes its own state
\* and puts packets on their way.
SenderType ==
  /\ out' \in [Segment -> Outgoing]
  /\ outgoing' \subseteq Segment /\ busy' \in BOOLEAN /\ net' \subseteq Message

\* A step of the sender leaves what the receiver has.
LEMMA SenderKeepsType ==
  ASSUME TypeInv, SenderType, UNCHANGED senderKeeps
  PROVE  TypeInv'
  BY DEF TypeInv, TypeOK, KnownExist, SenderType, senderKeeps, Segment, Segments,
         Message

\* cancel() of the sender keeps its types.
LEMMA CancelOutgoingType ==
  ASSUME TypeInv, NEW s \in Segment, CancelOutgoing(s)
  PROVE  /\ out' \in [Segment -> Outgoing]
         /\ outgoing' \subseteq Segment /\ net' \subseteq Message
  <1>1. out[s] \in Outgoing BY DEF TypeInv, TypeOK
  <1>2. Ended(Cancelled(out[s])) \in Outgoing BY <1>1, OutgoingType
  <1>3. out' \in [Segment -> Outgoing] BY <1>2, OutUpdate DEF CancelOutgoing
  <1>4. Send("sender", {[type |-> "ICL", seg |-> s]}) \subseteq Message
    BY DEF Send, Message
  <1>5. net' \subseteq Message
    BY <1>4, CarriedType DEF CancelOutgoing, TypeInv, TypeOK
  <1> QED BY <1>3, <1>5 DEF CancelOutgoing, TypeInv, TypeOK

\* The advertising thread keeps the types.
LEMMA AdvertiseType ==
  ASSUME TypeInv, NEW s \in Segment,
         AdvertiseQueued(s) \/ AdvertiseSend(s) \/ AdvertiseRegister(s)
  PROVE  TypeInv'
  <1>1. out[s] \in Outgoing BY DEF TypeInv, TypeOK
  <1>2. CASE AdvertiseQueued(s)
    <2>1. [out[s] EXCEPT !.status = "QUEUED"] \in Outgoing
      BY <1>1 DEF Outgoing, Status, Open, Waiting
    <2>2. SenderType
      BY <1>2, <2>1, OutUpdate DEF AdvertiseQueued, SenderType, TypeInv, TypeOK
    <2> QED BY <1>2, <2>2, SenderKeepsType DEF AdvertiseQueued
  <1>3. CASE AdvertiseSend(s)
    <2>1. [out[s] EXCEPT !.job = "sent"] \in Outgoing BY <1>1 DEF Outgoing
    <2>2. Send("sender", {Advertisement(s)}) \subseteq Message
      BY DEF Send, Advertisement, Message
    <2>3. net' \subseteq Message
      BY <1>3, <2>2, CarriedType DEF AdvertiseSend, TypeInv, TypeOK
    <2>4. SenderType
      BY <1>3, <2>1, <2>3, OutUpdate DEF AdvertiseSend, SenderType, TypeInv, TypeOK
    <2> QED BY <1>3, <2>4, SenderKeepsType DEF AdvertiseSend
  <1>4. CASE AdvertiseRegister(s)
    <2>1. [out[s] EXCEPT !.job = "none", !.status = "ADVERTISED",
                         !.retries = MAX_ADV_RETRIES] \in Outgoing
      BY <1>1, ConstantsType DEF Outgoing, Status, Open, Waiting
    <2>2. out' = [out EXCEPT ![s] = [out[s] EXCEPT !.job = "none", !.status = "ADVERTISED",
                                                    !.retries = MAX_ADV_RETRIES]]
      BY <1>4 DEF AdvertiseRegister, TypeInv, TypeOK
    <2>3. SenderType
      BY <1>4, <2>1, <2>2, OutUpdate DEF AdvertiseRegister, SenderType, TypeInv, TypeOK
    <2> QED BY <1>4, <2>3, SenderKeepsType DEF AdvertiseRegister
  <1> QED BY <1>2, <1>3, <1>4

\* The watchdog of the sender keeps the types.
LEMMA SenderTimeoutType ==
  ASSUME TypeInv, NEW s \in Segment, SenderTimeout(s)
  PROVE  TypeInv'
  <1>1. out[s] \in Outgoing BY DEF TypeInv, TypeOK
  <1>2. CASE CancelOutgoing(s) /\ UNCHANGED <<senderKeeps, busy>>
    <2>1. SenderType BY <1>2, CancelOutgoingType DEF SenderType, TypeInv, TypeOK
    <2> QED BY <1>2, <2>1, SenderKeepsType
  <1>3. ASSUME NEW packets \in SUBSET Message, out[s].retries > 0,
               out' = [out EXCEPT ![s].retries = @ - 1],
               net' \in Carried(net, packets),
               UNCHANGED <<senderKeeps, busy, outgoing>>
        PROVE  TypeInv'
    <2>1. [out[s] EXCEPT !.retries = @ - 1] \in Outgoing BY <1>1, <1>3 DEF Outgoing
    <2>2. net' \subseteq Message BY <1>3, CarriedType DEF TypeInv, TypeOK
    <2>3. SenderType
      BY <1>3, <2>1, <2>2, OutUpdate DEF SenderType, TypeInv, TypeOK
    <2> QED BY <1>3, <2>3, SenderKeepsType
  <1>4. /\ Send("sender", {Advertisement(s)}) \subseteq Message
        /\ Send("sender", {[type |-> "CACHE_REQUEST", seg |-> s]}) \subseteq Message
    BY DEF Send, Advertisement, Message
  <1>5. CASE SenderTimeoutAdvertised(s)
    BY <1>2, <1>3, <1>4, <1>5 DEF SenderTimeoutAdvertised
  <1>6. CASE SenderTimeoutTransferring(s)
    BY <1>2, <1>6 DEF SenderTimeoutTransferring
  <1>7. CASE SenderTimeoutProof(s)
    BY <1>2, <1>3, <1>4, <1>7 DEF SenderTimeoutProof
  <1> QED BY <1>5, <1>6, <1>7 DEF SenderTimeout

\* request() keeps the types.
LEMMA ReceiveRequestType ==
  ASSUME TypeInv, NEW m \in net, ReceiveRequest(m)
  PROVE  TypeInv'
  <1> DEFINE s       == m.seg
             index   == PartIndex(s, m.last)
             floor   == Floor(index)
             found   == Found(s, m.asked)
             sent    == out[s].sent \cup found
             packets == {PartPacket(s, p) : p \in found}
             serving == [out[s] EXCEPT !.status = "TRANSFERRING", !.retries = MAX_RETRIES,
                                       !.sent = sent]
             served(r) == IF Cardinality(sent) = parts[s]
                            THEN [r EXCEPT !.status = "AWAITING_PROOF",
                                           !.retries = PROOF_RETRIES] ELSE r
  <1>1. /\ m \in Message /\ m.type = "REQ"
    BY DEF ReceiveRequest, TypeInv, TypeOK
  <1>2. s \in Segment /\ m.asked \subseteq Nat /\ m.last \in Nat
    BY <1>1 DEF Message
  <1>3. out[s] \in Outgoing /\ out[s].floor \in Nat /\ out[s].sent \subseteq Nat
    BY <1>2 DEF TypeInv, TypeOK, Outgoing
  <1>4. index \in Nat
    <2>1. parts[s] \in Nat /\ COLLISION_GUARD_SIZE \in Nat
      BY <1>2, SegmentsType, ConstantsType DEF COLLISION_GUARD_SIZE, WINDOW_MAX
    <2> QED BY <1>2, <1>3, <2>1 DEF PartIndex, Lowest
  <1>5. floor \in Nat
    BY <1>4, ConstantsType DEF Floor, Highest, WINDOW_MAX
  <1>6. found \subseteq Nat /\ sent \subseteq Nat BY <1>2, <1>3 DEF Found
  <1>7. packets \subseteq Message
    <2>1. ASSUME NEW p \in found PROVE PartPacket(s, p) \in Message
      <3>1. p \in Nat /\ (p \in out[s].sent) \in BOOLEAN BY <2>1, <1>6
      <3> HIDE DEF s
      <3> QED BY <1>2, <3>1 DEF PartPacket, Message
    <2> HIDE DEF found
    <2> QED BY <2>1
  <1>8. serving \in Outgoing /\ [serving EXCEPT !.floor = floor] \in Outgoing
    <2>1. serving \in Outgoing
      BY <1>3, <1>6, ConstantsType DEF Outgoing, Status, Open, Waiting
    <2> HIDE DEF serving, floor
    <2> QED BY <2>1, <1>5 DEF Outgoing
  <1>9. ASSUME NEW r \in Outgoing PROVE served(r) \in Outgoing
    BY <1>9, ConstantsType DEF Outgoing, Status, Open, Waiting
  <1>10. Ended(Cancelled(serving)) \in Outgoing BY <1>8, OutgoingType
  <1>11. /\ {[type |-> "HMU", seg |-> s, from |-> index]} \subseteq Message
         /\ {[type |-> "ICL", seg |-> s]} \subseteq Message
    BY <1>2, <1>4 DEF Message
  <1>12. net' \subseteq Message
    <2>1. ASSUME NEW sending \in SUBSET Message, net' \in Carried(net \ {m}, sending)
          PROVE  net' \subseteq Message
      BY <2>1, CarriedType DEF TypeInv, TypeOK
    <2>2. \/ net' \in Carried(net \ {m}, packets)
          \/ net' \in Carried(net \ {m}, packets \cup {[type |-> "HMU", seg |-> s, from |-> index]})
          \/ net' \in Carried(net \ {m}, packets \cup {[type |-> "ICL", seg |-> s]})
      BY DEF ReceiveRequest
    <2>3. /\ packets \cup {[type |-> "HMU", seg |-> s, from |-> index]} \subseteq Message
          /\ packets \cup {[type |-> "ICL", seg |-> s]} \subseteq Message
      BY <1>7, <1>11
    <2> HIDE DEF packets
    <2> QED BY <1>7, <2>1, <2>2, <2>3
  <1>13. out' \in [Segment -> Outgoing] /\ outgoing' \subseteq Segment
    <2>1. /\ \/ out' = [out EXCEPT ![s] = served(serving)]
             \/ out' = [out EXCEPT ![s] = served([serving EXCEPT !.floor = floor])]
             \/ out' = [out EXCEPT ![s] = Ended(Cancelled(serving))]
          /\ outgoing' \subseteq outgoing
      BY DEF ReceiveRequest
    <2> HIDE DEF serving, served, floor, s
    <2>2. served(serving) \in Outgoing /\ served([serving EXCEPT !.floor = floor]) \in Outgoing
      BY <1>8, <1>9
    <2> QED BY <1>2, <1>10, <2>1, <2>2, OutUpdate DEF TypeInv, TypeOK
  <1>14. SenderType
    BY <1>12, <1>13 DEF SenderType, ReceiveRequest, TypeInv, TypeOK
  <1> QED BY <1>14, SenderKeepsType DEF ReceiveRequest

\* validate_proof() keeps the types.
LEMMA ReceiveProofType ==
  ASSUME TypeInv, NEW m \in net, ReceiveProof(m)
  PROVE  TypeInv'
  <1> DEFINE s == m.seg
             done == Ended([out[s] EXCEPT !.status = "COMPLETE",
                              !.told = IF s = Segments THEN Append(@, "COMPLETE") ELSE @])
  <1>1. s \in Segment BY DEF ReceiveProof, TypeInv, TypeOK, Message
  <1>2. \A t \in Segment : out[t] \in Outgoing BY DEF TypeInv, TypeOK
  <1>3. done \in Outgoing
    <2>1. "COMPLETE" \in Status BY DEF Status
    <2>2. out[s].told \in Seq(Status) BY <1>1, <1>2 DEF Outgoing
    <2>3. Append(out[s].told, "COMPLETE") \in Seq(Status)
      BY <2>1, <2>2, AppendProperties
    <2>4. [out[s] EXCEPT !.status = "COMPLETE",
                         !.told = IF s = Segments THEN Append(@, "COMPLETE") ELSE @] \in Outgoing
      BY <1>1, <1>2, <2>1, <2>2, <2>3 DEF Outgoing
    <2> QED BY <2>4, OutgoingType
  <1>4. \A t \in Segment : [out[t] EXCEPT !.job = "waits"] \in Outgoing
    BY <1>2 DEF Outgoing
  <1>5. out' = [t \in Segment |-> IF t = s THEN done
                                  ELSE IF t = s + 1 THEN [out[t] EXCEPT !.job = "waits"]
                                  ELSE out[t]]
    BY DEF ReceiveProof
  <1>6. out' \in [Segment -> Outgoing]
    <2> HIDE DEF done, s
    <2> QED BY <1>2, <1>3, <1>4, <1>5
  <1>7. SenderType
    BY <1>6 DEF SenderType, ReceiveProof, TypeInv, TypeOK
  <1> QED BY <1>7, SenderKeepsType DEF ReceiveProof

\* _rejected() keeps the types.
LEMMA ReceiveRejectionType ==
  ASSUME TypeInv, NEW m \in net, ReceiveRejection(m)
  PROVE  TypeInv'
  <1> DEFINE s == m.seg
             told == [out[s] EXCEPT !.status = "REJECTED", !.told = Append(@, "REJECTED")]
  <1>1. s \in Segment BY DEF ReceiveRejection, TypeInv, TypeOK, Message
  <1>2. out[s] \in Outgoing BY <1>1 DEF TypeInv, TypeOK
  <1>3. told \in Outgoing
    <2>1. "REJECTED" \in Status BY DEF Status, Open, Waiting
    <2>2. Append(out[s].told, "REJECTED") \in Seq(Status)
      BY <1>2, <2>1, AppendProperties DEF Outgoing
    <2> QED BY <1>2, <2>1, <2>2 DEF Outgoing
  <1>4. Ended(told) \in Outgoing BY <1>3, OutgoingType
  <1>5. out' = [out EXCEPT ![s] = Ended(told)] BY DEF ReceiveRejection
  <1>6. out' \in [Segment -> Outgoing]
    <2> HIDE DEF told, s
    <2> QED BY <1>1, <1>4, <1>5, OutUpdate
  <1>7. SenderType
    BY <1>6 DEF SenderType, ReceiveRejection, TypeInv, TypeOK
  <1> QED BY <1>7, SenderKeepsType DEF ReceiveRejection

\* Each step of the receiver changes its own state, and puts packets on their way.
ReceiverType ==
  /\ \A s \in Segment : inc'[s] \in Receiving(s)
  /\ inc' = [s \in Segment |-> inc'[s]]
  /\ incoming' \subseteq Segment /\ last' \in Nat
  /\ file' \in Seq(Segment) /\ net' \subseteq Message

\* A step of the receiver leaves what the sender has.
LEMMA ReceiverKeepsType ==
  ASSUME TypeInv, ReceiverType, UNCHANGED <<parts, link, out, outgoing, busy>>,
         cached' \subseteq Segment
  PROVE  TypeInv'
  <1>1. inc' \in [Segment -> Incoming] BY DEF ReceiverType, Receiving
  <1>2. \A s \in Segment : inc'[s].known \subseteq 1 .. parts[s]
    BY DEF ReceiverType, Receiving
  <1> QED
    BY <1>1, <1>2 DEF TypeInv, TypeOK, KnownExist, ReceiverType, Segment, Segments, Message

\* An update of one Resource at the receiver keeps the type of all of them.
LEMMA IncUpdate ==
  ASSUME TypeInv, NEW s \in Segment, NEW q \in Receiving(s), inc' = [inc EXCEPT ![s] = q]
  PROVE  /\ \A t \in Segment : inc'[t] \in Receiving(t)
         /\ inc' = [t \in Segment |-> inc'[t]]
  BY IncType DEF TypeInv, TypeOK

\* accept() keeps the types.
LEMMA AcceptType ==
  ASSUME TypeInv, NEW m \in net, Accept(m) \/ Reject(m)
  PROVE  TypeInv'
  <1> DEFINE s     == m.seg
             fresh == [NewIncoming EXCEPT !.window = IF last = 0 THEN WINDOW ELSE last,
                                          !.watch = TRUE]
             first == Mapped(fresh, s, 0)
  <1>1. s \in Segment /\ last \in Nat BY DEF Accept, Reject, TypeInv, TypeOK, Message
  <1>2. CASE Accept(m)
    <2>1. fresh \in Receiving(s)
      <3>1. (IF last = 0 THEN WINDOW ELSE last) \in Nat BY <1>1, ConstantsType
      <3>2. NewIncoming \in Receiving(s) BY <1>1, NewIncomingType
      <3>3. ASSUME NEW w \in Nat, NEW r \in Receiving(s)
            PROVE  [r EXCEPT !.window = w, !.watch = TRUE] \in Receiving(s)
        BY <3>3 DEF Receiving, Incoming
      <3> HIDE DEF s
      <3> QED BY <3>1, <3>2, <3>3
    <2>2. first \in Receiving(s)
      <3>1. 0 \in Nat OBVIOUS
      <3> HIDE DEF s, fresh
      <3> QED BY <1>1, <2>1, <3>1, MappedType
    <2>3. NextRequested(first, s) \in Receiving(s) /\ Request(first, s) \subseteq Message
      <3> HIDE DEF first, s
      <3> QED BY <1>1, <2>2, NextRequestedType
    <2>4. net' \subseteq Message
      BY <1>2, <2>3, CarriedType DEF Accept, TypeInv, TypeOK
    <2>5. inc' = [inc EXCEPT ![s] = NextRequested(first, s)] BY <1>2 DEF Accept
    <2>6. ReceiverType
      <3>1. /\ \A t \in Segment : inc'[t] \in Receiving(t)
            /\ inc' = [t \in Segment |-> inc'[t]]
        <4> HIDE DEF first, s
        <4> QED BY <1>1, <2>3, <2>5, IncUpdate
      <3> QED BY <1>1, <1>2, <2>4, <3>1 DEF Accept, ReceiverType, TypeInv, TypeOK
    <2> QED BY <1>2, <2>6, ReceiverKeepsType DEF Accept, receiverKeeps, TypeInv, TypeOK
  <1>3. CASE Reject(m)
    <2>1. {[type |-> "RCL", seg |-> m.seg]} \subseteq Message BY <1>1 DEF Message
    <2>2. net' \subseteq Message BY <1>3, <2>1, CarriedType DEF Reject, TypeInv, TypeOK
    <2>3. ReceiverType
      BY <1>3, <2>2, IncType DEF Reject, ReceiverType, TypeInv, TypeOK
    <2> QED BY <1>3, <2>3, ReceiverKeepsType DEF Reject, receiverKeeps, TypeInv, TypeOK
  <1> QED BY <1>2, <1>3

\* receive_part() of all incoming resources keeps the types.
LEMMA ReceivePartType ==
  ASSUME TypeInv, NEW m \in net, ReceivePart(m)
  PROVE  TypeInv'
  <1>1. PICK fast \in BOOLEAN, slow \in BOOLEAN :
          LET got(s)  == Received(inc[s], s, IF s = m.seg THEN m.part ELSE 0, fast, slow)
              more(s) == Continues(inc[s], got(s))
          IN  /\ inc' = [s \in Segment |->
                           IF s \notin incoming THEN inc[s]
                           ELSE IF more(s) THEN NextRequested(got(s), s) ELSE got(s)]
              /\ net' \in Carried(net \ {m}, UNION {IF more(s) THEN Request(got(s), s) ELSE {} :
                                                   s \in incoming})
    BY DEF ReceivePart
  <1> DEFINE got(s)  == Received(inc[s], s, IF s = m.seg THEN m.part ELSE 0, fast, slow)
             more(s) == Continues(inc[s], got(s))
             asking  == UNION {IF more(s) THEN Request(got(s), s) ELSE {} : s \in incoming}
  <1>2. \A s \in Segment : got(s) \in Receiving(s)
    <2>1. \A s \in Segment : (IF s = m.seg THEN m.part ELSE 0) \in Nat
      BY DEF ReceivePart, TypeInv, TypeOK, Message
    <2> QED BY <2>1, IncType, ReceivedType
  <1>3. /\ \A s \in Segment : NextRequested(got(s), s) \in Receiving(s)
        /\ \A s \in Segment : Request(got(s), s) \subseteq Message
    <2> HIDE DEF got
    <2> QED BY <1>2, NextRequestedType
  <1>4. /\ inc' = [s \in Segment |-> IF s \notin incoming THEN inc[s]
                                     ELSE IF more(s) THEN NextRequested(got(s), s) ELSE got(s)]
        /\ net' \in Carried(net \ {m}, asking)
    BY <1>1
  <1> HIDE DEF got, more
  <1>5. asking \subseteq Message BY <1>3 DEF TypeInv, TypeOK
  <1> HIDE DEF asking
  <1>6. net' \subseteq Message BY <1>4, <1>5, CarriedType DEF TypeInv, TypeOK
  <1>7. /\ \A s \in Segment : inc'[s] \in Receiving(s)
        /\ inc' = [s \in Segment |-> inc'[s]]
    BY <1>2, <1>3, <1>4, IncType
  <1>8. ReceiverType
    BY <1>6, <1>7 DEF ReceivePart, ReceiverType, TypeInv, TypeOK
  <1> QED BY <1>8, ReceiverKeepsType DEF ReceivePart, receiverKeeps, TypeInv, TypeOK

\* hashmap_update_packet() keeps the types.
LEMMA ReceiveHashmapType ==
  ASSUME TypeInv, NEW m \in net, ReceiveHashmap(m)
  PROVE  TypeInv'
  <1> DEFINE s     == m.seg
             heard == [inc[s] EXCEPT !.retries = MAX_RETRIES]
             next  == Mapped(heard, s, m.from)
  <1>1. s \in Segment /\ m.from \in Nat BY DEF ReceiveHashmap, TypeInv, TypeOK, Message
  <1>2. heard \in Receiving(s)
    <2>1. inc[s] \in Receiving(s) BY <1>1, IncType
    <2>2. ASSUME NEW r \in Receiving(s) PROVE [r EXCEPT !.retries = MAX_RETRIES] \in Receiving(s)
      BY <2>2, ConstantsType DEF Receiving, Incoming
    <2> HIDE DEF s
    <2> QED BY <2>1, <2>2
  <1>3. next \in Receiving(s)
    <2> HIDE DEF heard, s
    <2> QED BY <1>1, <1>2, MappedType
  <1>4. NextRequested(next, s) \in Receiving(s) /\ Request(next, s) \subseteq Message
    <2> HIDE DEF next, s
    <2> QED BY <1>1, <1>3, NextRequestedType
  <1>5. /\ inc' = [inc EXCEPT ![s] = NextRequested(next, s)]
        /\ net' \in Carried(net \ {m}, Request(next, s))
    BY DEF ReceiveHashmap
  <1> HIDE DEF next, s
  <1>6. net' \subseteq Message BY <1>4, <1>5, CarriedType DEF TypeInv, TypeOK
  <1>7. /\ \A t \in Segment : inc'[t] \in Receiving(t)
        /\ inc' = [t \in Segment |-> inc'[t]]
    BY <1>1, <1>4, <1>5, IncUpdate
  <1>8. ReceiverType
    BY <1>6, <1>7 DEF ReceiveHashmap, ReceiverType, TypeInv, TypeOK
  <1> QED BY <1>8, ReceiverKeepsType DEF ReceiveHashmap, receiverKeeps, TypeInv, TypeOK

\* cancel() of the receiver keeps its types.
LEMMA CancelIncomingType ==
  ASSUME TypeInv, NEW s \in Segment, CancelIncoming(s)
  PROVE  /\ \A t \in Segment : inc'[t] \in Receiving(t)
         /\ inc' = [t \in Segment |-> inc'[t]]
         /\ incoming' \subseteq Segment
  <1>1. inc[s] \in Receiving(s) BY IncType
  <1>2. Dropped(Cancelled(inc[s])) \in Receiving(s) BY <1>1, DroppedType
  <1>3. PICK q \in Receiving(s) : inc' = [inc EXCEPT ![s] = q]
    BY <1>1, <1>2 DEF CancelIncoming
  <1> QED BY <1>3, IncUpdate DEF CancelIncoming, TypeInv, TypeOK

\* The watchdog of the receiver keeps the types.
LEMMA ReceiverTimeoutType ==
  ASSUME TypeInv, NEW s \in Segment, ReceiverTimeout(s)
  PROVE  TypeInv'
  <1> DEFINE retry == [Narrowed(inc[s]) EXCEPT !.retries = @ - 1, !.waiting = FALSE]
  <1>1. inc[s] \in Receiving(s) BY IncType
  <1>2. CASE inc[s].retries > 0
    <2>1. retry \in Receiving(s)
      <3>1. Narrowed(inc[s]) \in Receiving(s) BY <1>1, WindowType
      <3>2. Narrowed(inc[s]).retries = inc[s].retries
        BY <1>1 DEF Narrowed, Receiving, Incoming
      <3>3. inc[s].retries - 1 \in Nat BY <1>1, <1>2 DEF Receiving, Incoming
      <3>4. ASSUME NEW r \in Receiving(s), r.retries - 1 \in Nat
            PROVE  [r EXCEPT !.retries = @ - 1, !.waiting = FALSE] \in Receiving(s)
        BY <3>4 DEF Receiving, Incoming
      <3> QED BY <3>1, <3>2, <3>3, <3>4
    <2>2. NextRequested(retry, s) \in Receiving(s) /\ Request(retry, s) \subseteq Message
      <3> HIDE DEF retry
      <3> QED BY <2>1, NextRequestedType
    <2>3. /\ inc' = [inc EXCEPT ![s] = NextRequested(retry, s)]
          /\ incoming' \subseteq incoming
          /\ net' \in Carried(net, Request(retry, s))
      BY <1>2 DEF ReceiverTimeout
    <2> HIDE DEF retry
    <2>4. net' \subseteq Message BY <2>2, <2>3, CarriedType DEF TypeInv, TypeOK
    <2>5. /\ \A t \in Segment : inc'[t] \in Receiving(t)
          /\ inc' = [t \in Segment |-> inc'[t]]
      BY <2>2, <2>3, IncUpdate
    <2>6. ReceiverType
      BY <2>3, <2>4, <2>5 DEF ReceiverTimeout, ReceiverType, TypeInv, TypeOK
    <2> QED BY <2>6, ReceiverKeepsType DEF ReceiverTimeout, receiverKeeps, TypeInv, TypeOK
  <1>3. CASE ~(inc[s].retries > 0)
    <2>1. CancelIncoming(s) /\ UNCHANGED net BY <1>3 DEF ReceiverTimeout
    <2>2. ReceiverType
      BY <2>1, CancelIncomingType DEF ReceiverTimeout, ReceiverType, TypeInv, TypeOK
    <2> QED BY <2>2, ReceiverKeepsType DEF ReceiverTimeout, receiverKeeps, TypeInv, TypeOK
  <1> QED BY <1>2, <1>3

\* assemble() keeps the types.
LEMMA AssembleType ==
  ASSUME TypeInv, NEW s \in Segment, Assemble(s) \/ WatchdogEnds(s)
  PROVE  TypeInv'
  <1>1. inc[s] \in Receiving(s) BY IncType
  <1>2. CASE WatchdogEnds(s)
    <2>1. [inc[s] EXCEPT !.watch = FALSE] \in Receiving(s)
      BY <1>1 DEF Receiving, Incoming
    <2>2. inc' = [inc EXCEPT ![s] = [inc[s] EXCEPT !.watch = FALSE]]
      BY <1>2 DEF WatchdogEnds
    <2>3. ReceiverType
      BY <1>2, <2>1, <2>2, IncUpdate DEF WatchdogEnds, ReceiverType, TypeInv, TypeOK
    <2> QED BY <1>2, <2>3, ReceiverKeepsType DEF WatchdogEnds, receiverKeeps, TypeInv, TypeOK
  <1>3. CASE AssembleStart(s)
    <2> DEFINE q == IF inc[s].status = "FAILED" THEN [inc[s] EXCEPT !.assembly = "ended"]
                    ELSE [inc[s] EXCEPT !.status = "ASSEMBLING", !.assembly = "joins"]
    <2>1. q \in Receiving(s) BY <1>1 DEF Receiving, Incoming, Status, Open
    <2>2. inc' = [inc EXCEPT ![s] = q] BY <1>3 DEF AssembleStart
    <2> HIDE DEF q
    <2>3. ReceiverType
      BY <1>3, <2>1, <2>2, IncUpdate DEF AssembleStart, ReceiverType, TypeInv, TypeOK
    <2> QED BY <1>3, <2>3, ReceiverKeepsType DEF AssembleStart, receiverKeeps, TypeInv, TypeOK
  <1>4. CASE AssembleStore(s)
    <2> DEFINE q == [inc[s] EXCEPT !.status = "COMPLETE", !.assembly = "concludes"]
    <2>1. q \in Receiving(s) BY <1>1 DEF Receiving, Incoming, Status
    <2>2. inc' = [inc EXCEPT ![s] = q] BY <1>4 DEF AssembleStore, TypeInv, TypeOK
    <2> HIDE DEF q
    <2>3. Send("receiver", {[type |-> "PRF", seg |-> s]}) \subseteq Message BY DEF Send, Message
    <2>4. net' \subseteq Message BY <1>4, <2>3, CarriedType DEF AssembleStore, TypeInv, TypeOK
    <2>5. file' \in Seq(Segment) BY <1>4, AppendProperties DEF AssembleStore, TypeInv, TypeOK
    <2>6. ReceiverType
      BY <1>4, <2>1, <2>2, <2>4, <2>5, IncUpdate DEF AssembleStore, ReceiverType, TypeInv, TypeOK
    <2> QED BY <1>4, <2>6, ReceiverKeepsType DEF AssembleStore, TypeInv, TypeOK
  <1>5. CASE AssembleFail(s)
    <2> DEFINE q == [inc[s] EXCEPT !.status = "CORRUPT", !.assembly = "concludes"]
    <2>1. q \in Receiving(s) BY <1>1 DEF Receiving, Incoming, Status
    <2>2. inc' = [inc EXCEPT ![s] = q] BY <1>5 DEF AssembleFail, TypeInv, TypeOK
    <2> HIDE DEF q
    <2>3. ReceiverType
      BY <1>5, <2>1, <2>2, IncUpdate DEF AssembleFail, ReceiverType, TypeInv, TypeOK
    <2> QED BY <1>5, <2>3, ReceiverKeepsType DEF AssembleFail, receiverKeeps, TypeInv, TypeOK
  <1>6. CASE AssembleConclude(s)
    <2> DEFINE told == IF s = Segments THEN Append(inc[s].told, inc[s].status) ELSE inc[s].told
               q == [inc[s] EXCEPT !.assembly = "ended", !.told = told]
    <2>1. told \in Seq(Status) BY <1>1, AppendProperties DEF Receiving, Incoming
    <2>2. q \in Receiving(s)
      <3> HIDE DEF told
      <3> QED BY <1>1, <2>1 DEF Receiving, Incoming
    <2>3. Dropped(q) \in Receiving(s)
      <3> HIDE DEF q
      <3> QED BY <2>2, DroppedType
    <2>4. inc' = [inc EXCEPT ![s] = Dropped(q)] BY <1>6 DEF AssembleConclude
    <2>5. last' \in Nat
      BY <1>1, <1>6 DEF AssembleConclude, Receiving, Incoming, TypeInv, TypeOK
    <2> HIDE DEF q
    <2>6. ReceiverType
      BY <1>6, <2>3, <2>4, <2>5, IncUpdate DEF AssembleConclude, ReceiverType, TypeInv, TypeOK
    <2> QED BY <1>6, <2>6, ReceiverKeepsType DEF AssembleConclude, receiverKeeps, TypeInv, TypeOK
  <1> QED BY <1>2, <1>3, <1>4, <1>5, <1>6 DEF Assemble

\* The other packets the receiver gets, and what its application does.
LEMMA ReceiverOtherType ==
  ASSUME TypeInv
  PROVE  /\ \A m \in net : ReceiveCancel(m) \/ ReceiveCacheRequest(m) => TypeInv'
         /\ \A s \in Segment : ReceiverCancels(s) => TypeInv'
  <1>1. ASSUME NEW m \in net, ReceiveCancel(m) PROVE TypeInv'
    <2>1. m.seg \in Segment BY <1>1 DEF ReceiveCancel, TypeInv, TypeOK
    <2>2. ReceiverType
      BY <1>1, <2>1, CancelIncomingType DEF ReceiveCancel, ReceiverType, TypeInv, TypeOK
    <2> QED BY <1>1, <2>2, ReceiverKeepsType DEF ReceiveCancel, receiverKeeps, TypeInv, TypeOK
  <1>2. ASSUME NEW m \in net, ReceiveCacheRequest(m) PROVE TypeInv'
    <2>1. {[type |-> "PRF", seg |-> m.seg]} \subseteq Message
      BY <1>2 DEF ReceiveCacheRequest, TypeInv, TypeOK, Message
    <2>2. net' \subseteq Message
      BY <1>2, <2>1, CarriedType DEF ReceiveCacheRequest, TypeInv, TypeOK
    <2>3. ReceiverType
      BY <1>2, <2>2, IncType DEF ReceiveCacheRequest, ReceiverType, TypeInv, TypeOK
    <2> QED
      BY <1>2, <2>3, ReceiverKeepsType DEF ReceiveCacheRequest, receiverKeeps, TypeInv, TypeOK
  <1>3. ASSUME NEW s \in Segment, ReceiverCancels(s) PROVE TypeInv'
    <2>1. ReceiverType
      BY <1>3, CancelIncomingType DEF ReceiverCancels, ReceiverType, TypeInv, TypeOK
    <2> QED BY <1>3, <2>1, ReceiverKeepsType DEF ReceiverCancels, receiverKeeps, TypeInv, TypeOK
  <1> QED BY <1>1, <1>2, <1>3

\* link_closed() of either end keeps the types.
LEMMA CloseType ==
  ASSUME TypeInv, CloseSender \/ CloseReceiver
  PROVE  TypeInv'
  <1>1. CASE CloseSender
    <2>1. PICK some \in Walked(outgoing, out) :
            /\ out' = [s \in Segment |-> IF s \in some THEN Ended(Cancelled(out[s])) ELSE out[s]]
            /\ outgoing' = outgoing \ some
      BY <1>1 DEF CloseSender
    <2>2. \A s \in Segment : out[s] \in Outgoing /\ Ended(Cancelled(out[s])) \in Outgoing
      BY OutgoingType DEF TypeInv, TypeOK
    <2>3. out' \in [Segment -> Outgoing] BY <2>1, <2>2
    <2> QED
      BY <1>1, <2>1, <2>3 DEF CloseSender, TypeInv, TypeOK, KnownExist, Segment, Segments, Message
  <1>2. CASE CloseReceiver
    <2>1. PICK some \in Walked(incoming, inc) :
            /\ inc' = [s \in Segment |-> IF s \in some THEN Dropped(Cancelled(inc[s])) ELSE inc[s]]
            /\ incoming' = incoming \ some
      BY <1>2 DEF CloseReceiver
    <2>2. \A s \in Segment : inc[s] \in Receiving(s) /\ Dropped(Cancelled(inc[s])) \in Receiving(s)
      BY IncType, DroppedType
    <2>3. inc' \in [Segment -> Incoming] /\ \A s \in Segment : inc'[s].known \subseteq 1 .. parts[s]
      BY <2>1, <2>2 DEF Receiving
    <2> QED
      BY <1>2, <2>1, <2>3 DEF CloseReceiver, TypeInv, TypeOK, KnownExist, Segment, Segments, Message
  <1> QED BY <1>1, <1>2

\* So do the sender's application, its other resources and lost packets.
LEMMA OtherType ==
  ASSUME TypeInv, OtherConcluded \/ SenderCancels \/ \E m \in net : Lose(m)
  PROVE  TypeInv'
  <1>1. CASE OtherConcluded
    BY <1>1, SenderKeepsType DEF OtherConcluded, SenderType, TypeInv, TypeOK
  <1>2. CASE SenderCancels
    <2>1. 1 \in Segment
      BY SizesAssumption DEF TypeInv, TypeOK, Segment, Segments
    <2>2. SenderType
      BY <1>2, <2>1, CancelOutgoingType DEF SenderCancels, SenderType, TypeInv, TypeOK
    <2> QED BY <1>2, <2>2, SenderKeepsType DEF SenderCancels
  <1>3. CASE \E m \in net : Lose(m)
    BY <1>3 DEF Lose, TypeInv, TypeOK, KnownExist, Segment, Segments, Message
  <1> QED BY <1>1, <1>2, <1>3

\* Both ends start with values of the types.
LEMMA TypeInit == Init => TypeInv
  <1> SUFFICES ASSUME Init PROVE TypeInv
    OBVIOUS
  <1>1. <<>> \in Seq(Status) /\ <<>> \in Seq(Segment) OBVIOUS
  <1>2. \A j \in {"none", "waits"} : [NewOutgoing EXCEPT !.job = j] \in Outgoing
    BY <1>1, ConstantsType DEF NewOutgoing, Outgoing, Status, Open, Waiting
  <1>3. out \in [Segment -> Outgoing]
    BY <1>2 DEF Init
  <1>4. inc \in [Segment -> Incoming] /\ KnownExist
    BY NewIncomingType DEF Init, Receiving, KnownExist
  <1> QED BY <1>1, <1>3, <1>4 DEF Init, TypeInv, TypeOK

\* Every step keeps the types.
LEMMA TypeNext == TypeInv /\ [Next]_vars => TypeInv'
  <1> SUFFICES ASSUME TypeInv, [Next]_vars PROVE TypeInv'
    OBVIOUS
  <1>1. CASE OtherConcluded \/ SenderCancels \/ \E m \in net : Lose(m)
    BY <1>1, OtherType
  <1>2. CASE CloseSender \/ CloseReceiver
    BY <1>2, CloseType
  <1>3. ASSUME NEW s \in Segment, Watchdog(s) \/ Thread(s) \/ ReceiverCancels(s)
        PROVE  TypeInv'
    BY <1>3, SenderTimeoutType, ReceiverTimeoutType, AssembleType, AdvertiseType,
       ReceiverOtherType DEF Watchdog, Thread, SenderTimeout, Assemble
  <1>4. ASSUME NEW m \in net, Receive(m) PROVE TypeInv'
    BY <1>4, ReceiveRequestType, ReceiveProofType, ReceiveRejectionType, AcceptType,
       ReceivePartType, ReceiveHashmapType, ReceiverOtherType DEF Receive
  <1>5. CASE UNCHANGED vars
    BY <1>5 DEF vars, TypeInv, TypeOK, KnownExist, Segment, Segments, Message
  <1> QED BY <1>1, <1>2, <1>3, <1>4, <1>5 DEF Next

\* The two ends of a transfer keep their types, and the receiver never knows the
\* hash of a part that does not exist, for every size of the data, every window
\* and every mishap (RNS/Resource.py).
THEOREM TypeCorrect == Spec => [](TypeOK /\ KnownExist)
  BY TypeInit, TypeNext, PTL DEF Spec, TypeInv

-----------------------------------------------------------------------------
(***************************************************************************)
(* Segments are stored in order, once each.                                *)
(***************************************************************************)

\* A segment with a trace is started.
LEMMA TraceIsStarted ==
  ASSUME OneAtATime, NEW s \in Segment
  PROVE  /\ out[s].job # "none" \/ out[s].status # "NONE" => Started(s)
         /\ inc[s].watch \/ Arrived(s) => Started(s)
         /\ s \in outgoing \/ s \in incoming => Started(s)
         /\ \A m \in net : m.seg = s => Started(s)
  BY DEF OneAtATime, Untouched, NewOutgoing, NewIncoming, Arrived

\* What a step of the sender does to one segment of those it changes ...
SenderMoves(s) ==
  /\ Started(s) /\ out[s].status # "COMPLETE" /\ out'[s].status # "COMPLETE"
  /\ Past(s) => out'[s].job = "none" /\ out'[s].status # "ADVERTISED"
  /\ out'[s].job # "none" => s \notin outgoing'

\* ... and what it puts on its way.
SenderSends ==
  \A m \in net' \ net :
    /\ m.seg \in Segment /\ Started(m.seg) /\ m.type # "PRF"
    /\ m.type = "PART" => out'[m.seg].job = "none" /\ out'[m.seg].status # "ADVERTISED"
    /\ m.type = "ADV" => ~Past(m.seg)

\* Such steps keep the invariant.
LEMMA SenderKeepsTransfer ==
  ASSUME TypeInv, TransferInv, UNCHANGED <<parts, inc, incoming, file, cached>>, SenderSends,
         \A s \in Segment : \/ out'[s] = out[s] /\ (s \in outgoing' => s \in outgoing)
                            \/ SenderMoves(s)
  PROVE  TransferInv' /\ StaySettled
  <1>1. Segment' = Segment /\ Segments' = Segments BY DEF Segment, Segments
  <1>2. \A s \in Segment : out'[s].status = "COMPLETE" <=> out[s].status = "COMPLETE"
    BY DEF SenderMoves
  <1>3. \A s \in Segment : 1 .. s - 1 \subseteq Segment
    BY SegmentsType DEF Segment
  <1>4. \A s \in Segment : Started(s)' <=> Started(s)
    BY <1>2, <1>3 DEF Started
  <1>5. OneAtATime'
    <2> SUFFICES ASSUME NEW s \in Segment, ~Started(s)
                 PROVE  Untouched(s)'
      BY <1>1, <1>4 DEF OneAtATime
    <2>1. Untouched(s) BY DEF TransferInv, OneAtATime
    <2>2. out'[s] = out[s] /\ s \notin outgoing' BY <2>1 DEF SenderMoves, Untouched
    <2>3. \A m \in net' : m.seg # s BY <2>1 DEF SenderSends, Untouched
    <2> QED BY <2>1, <2>2, <2>3 DEF Untouched
  <1>6. ListedOnce' BY <1>1 DEF TransferInv, ListedOnce, SenderMoves
  <1>7. CompleteIsStored'
    BY <1>1, <1>2, <1>4 DEF TransferInv, CompleteIsStored, SenderMoves
  <1>8. ProofsAreTrue' BY DEF TransferInv, ProofsAreTrue, SenderSends
  <1>9. \A s \in Segment : Past(s) => Past(s)'
    BY <1>4 DEF Past, SenderMoves
  <1>10. NotAdvertisedAgain'
    <2>1. ASSUME NEW s \in Segment, Arrived(s)
          PROVE  Past(s)' /\ Advertisement(s) \notin net'
      <3>1. Past(s) /\ Advertisement(s) \notin net BY <2>1 DEF TransferInv, NotAdvertisedAgain
      <3>2. Advertisement(s).seg = s /\ Advertisement(s).type = "ADV" BY DEF Advertisement
      <3> QED BY <1>9, <3>1, <3>2 DEF SenderSends
    <2>2. ASSUME NEW m \in net', m.type = "PART" PROVE Past(m.seg)'
      <3>1. m \in net => m.seg \in Segment BY DEF TypeInv, TypeOK, Message
      <3>2. CASE m \in net BY <1>9, <2>2, <3>1, <3>2 DEF TransferInv, NotAdvertisedAgain
      <3>3. CASE m \notin net BY <1>4, <2>2, <3>3 DEF SenderSends, Past
      <3> QED BY <3>2, <3>3
    <2> QED BY <1>1, <2>1, <2>2 DEF NotAdvertisedAgain, Arrived, Advertisement
  <1>11. StoredOnce' /\ FileInOrder'
    BY <1>1 DEF TransferInv, StoredOnce, FileInOrder
  <1>12. StaySettled
    BY <1>9 DEF StaySettled, Settled, SenderSends, Advertisement
  <1> QED BY <1>5, <1>6, <1>7, <1>8, <1>10, <1>11, <1>12 DEF TransferInv

\* What a step of the receiver does to one segment of those it changes ...
ReceiverMoves(s) ==
  /\ Started(s)
  /\ inc'[s].got # {} \/ inc'[s].assembly # "none" => Past(s) /\ Advertisement(s) \notin net
  /\ s \in 1 .. Len(file) => inc'[s].assembly \in {"concludes", "ended"}

\* ... and what it puts on its way.
ReceiverSends ==
  \A m \in net' \ net :
    /\ m.seg \in Segment /\ Started(m.seg)
    /\ m.type \notin {"PART", "ADV"} /\ (m.type = "PRF" => m.seg \in cached)

\* Such steps keep the invariant, too.
LEMMA ReceiverKeepsTransfer ==
  ASSUME TypeInv, TransferInv, UNCHANGED <<parts, out, outgoing, cached, file>>,
         ReceiverSends,
         \A s \in Segment : \/ inc'[s] = inc[s] /\ (s \in incoming' => s \in incoming)
                            \/ ReceiverMoves(s)
  PROVE  TransferInv' /\ StaySettled
  <1>1. Segment' = Segment /\ Segments' = Segments BY DEF Segment, Segments
  <1>2. \A s : (Started(s)' <=> Started(s)) /\ (Past(s)' <=> Past(s))
    BY DEF Started, Past
  <1>3. OneAtATime'
    BY <1>1, <1>2 DEF TransferInv, OneAtATime, Untouched, ReceiverMoves, ReceiverSends
  <1>4. ListedOnce' /\ CompleteIsStored' /\ FileInOrder'
    BY <1>1, <1>2 DEF TransferInv, ListedOnce, CompleteIsStored, FileInOrder
  <1>5. ProofsAreTrue' BY DEF TransferInv, ProofsAreTrue, ReceiverSends
  <1>6. NotAdvertisedAgain'
    <2>1. ASSUME NEW s \in Segment, Arrived(s)'
          PROVE  Past(s) /\ Advertisement(s) \notin net'
      <3>1. Advertisement(s).seg = s /\ Advertisement(s).type = "ADV" BY DEF Advertisement
      <3>2. Past(s) /\ Advertisement(s) \notin net
        BY <2>1 DEF TransferInv, NotAdvertisedAgain, ReceiverMoves, Arrived
      <3> QED BY <3>1, <3>2 DEF ReceiverSends
    <2>2. ASSUME NEW m \in net', m.type = "PART" PROVE Past(m.seg)
      BY <2>2 DEF TransferInv, NotAdvertisedAgain, ReceiverSends
    <2> QED BY <1>1, <1>2, <2>1, <2>2 DEF NotAdvertisedAgain, Advertisement
  <1>7. StoredOnce'
    <2>1. 1 .. Len(file) \subseteq Segment
      BY SegmentsType DEF Segment, TransferInv, FileInOrder, TypeInv, TypeOK
    <2> QED BY <2>1 DEF TransferInv, StoredOnce, ReceiverMoves
  <1>8. StaySettled
    BY <1>2 DEF StaySettled, Settled, ReceiverSends, Advertisement
  <1> QED BY <1>3, <1>4, <1>5, <1>6, <1>7, <1>8 DEF TransferInv

\* What a packet or a timeout may change in a Resource at the receiver without
\* an effect on what has arrived.
Kept(r, q) == q.got \subseteq r.got /\ q.assembly = r.assembly

\* Requests, timeouts, updates of the hashmap and cancellation take in no part.
LEMMA KeptOps ==
  ASSUME NEW s \in Segment, NEW r \in Receiving(s), NEW from
  PROVE  /\ Kept(r, Dropped(Cancelled(r))) /\ Kept(r, NextRequested(r, s))
         /\ Kept(r, Narrowed(r)) /\ Kept(r, Mapped(r, s, from))
         /\ NextRequested(r, s).got \in {r.got, {}}
  <1>1. Kept(r, Dropped(Cancelled(r)))
    BY DEF Kept, Dropped, Cancelled, NewIncoming, Receiving, Incoming
  <1>2. Kept(r, Narrowed(r)) /\ Kept(r, Mapped(r, s, from))
    BY DEF Kept, Narrowed, Mapped, Receiving, Incoming
  <1>3. Kept(r, NextRequested(r, s)) /\ NextRequested(r, s).got \in {r.got, {}}
    <2> DEFINE asking == [r EXCEPT !.outstanding = Cardinality(Asked(r, s)),
                                   !.waiting = Unknown(r, s) # {}]
    <2>1. asking.got = r.got /\ asking.assembly = r.assembly
      BY DEF Receiving, Incoming
    <2>2. Cancelled(asking).got = r.got /\ Cancelled(asking).assembly = r.assembly
      BY <2>1 DEF Cancelled, Receiving, Incoming
    <2>3. LET d == Dropped(Cancelled(asking)) IN d.got \in {r.got, {}} /\ d.assembly = r.assembly
      <3> HIDE DEF asking
      <3> QED BY <2>2 DEF Dropped, NewIncoming
    <2>4. NextRequested(r, s) \in {r, asking, Dropped(Cancelled(asking))}
      BY DEF NextRequested
    <2> HIDE DEF asking
    <2> QED BY <2>1, <2>3, <2>4 DEF Kept
  <1> QED BY <1>1, <1>2, <1>3

\* receive_part() starts an assembly only of something that has arrived.
LEMMA ReceivedArrives ==
  ASSUME TypeInv, NEW s \in Segment, NEW r \in Receiving(s), NEW p \in Nat,
         NEW fast \in BOOLEAN, NEW slow \in BOOLEAN
  PROVE  LET q == Received(r, s, p, fast, slow)
         IN  /\ p = 0 => q.got = r.got
             /\ \/ q.assembly = r.assembly
                \/ r.assembly = "none" /\ q.got # {}
  <1> DEFINE heard == [r EXCEPT !.retries = MAX_RETRIES,
                                !.window_max = IF fast THEN WINDOW_MAX_FAST ELSE @]
             alive == [heard EXCEPT !.status = "TRANSFERRING"]
             taken == IF p = 0 THEN alive ELSE Taken(alive, s, p)
  <1>1. heard \in Receiving(s) /\ heard.got = r.got /\ heard.assembly = r.assembly
    BY ConstantsType DEF Receiving, Incoming
  <1>2. /\ alive \in Receiving(s) /\ alive.got = r.got /\ alive.assembly = r.assembly
    BY <1>1 DEF Receiving, Incoming, Status, Open, Waiting
  <1>3. taken \in Receiving(s) /\ taken.assembly = r.assembly
    <2> HIDE DEF alive
    <2>1. Taken(alive, s, p) \in Receiving(s) BY <1>2, TakenType
    <2>2. Taken(alive, s, p).assembly = alive.assembly
      BY <1>2 DEF Taken, Receiving, Incoming
    <2> QED BY <1>2, <2>1, <2>2
  <1>4. p = 0 => taken.got = r.got BY <1>2
  <1>5. ASSUME Cardinality(taken.got) = parts[s] PROVE taken.got # {}
    <2> HIDE DEF taken
    <2>1. parts[s] # 0 BY SegmentsType
    <2>2. Cardinality({}) = 0 BY FS_EmptySet
    <2> QED BY <1>5, <2>1, <2>2
  <1> HIDE DEF taken, heard
  <1>6. Widened(taken, slow).got = taken.got /\ Widened(taken, slow).assembly = taken.assembly
    BY <1>3 DEF Widened, Receiving, Incoming
  <1>7. LET started == [taken EXCEPT !.assembly = "starts"]
        IN  started.got = taken.got
    BY <1>3 DEF Receiving, Incoming
  <1> QED BY <1>1, <1>3, <1>4, <1>5, <1>6, <1>7 DEF Received, heard, taken

-----------------------------------------------------------------------------
(***************************************************************************)
(* Every step keeps TransferInv.                                           *)
(***************************************************************************)

\* What is carried was on its way already, or is sent.
LEMMA CarriedNew ==
  ASSUME NEW others, NEW packets, NEW carried \in Carried(others, packets)
  PROVE  carried \subseteq others \cup packets
  BY DEF Carried

\* cancel() of the sender keeps TransferInv.
LEMMA CancelOutgoingMoves ==
  ASSUME TypeInv, TransferInv, NEW s \in Segment, CancelOutgoing(s),
         UNCHANGED senderKeeps, out[s].status \in Open, Started(s)
  PROVE  TransferInv' /\ StaySettled
  <1> USE DEF senderKeeps
  <1>1. out[s] \in Outgoing BY DEF TypeInv, TypeOK
  <1>2. /\ out'[s].status = "FAILED" /\ out'[s].job = out[s].job
        /\ \A t \in Segment : t # s => out'[t] = out[t]
    BY <1>1 DEF CancelOutgoing, Ended, Cancelled, NewOutgoing, Outgoing, TypeInv, TypeOK
  <1>3. SenderMoves(s)
    BY <1>2 DEF SenderMoves, Open, Waiting, CancelOutgoing, Past
  <1>4. SenderSends
    <2>1. net' \subseteq net \cup Send("sender", {[type |-> "ICL", seg |-> s]})
      BY CarriedNew DEF CancelOutgoing
    <2> QED BY <2>1 DEF Send, SenderSends
  <1> QED BY <1>2, <1>3, <1>4, SenderKeepsTransfer DEF CancelOutgoing

\* The advertising thread keeps TransferInv: a segment past it is not advertised
\* again.
LEMMA AdvertiseMoves ==
  ASSUME TypeInv, TransferInv, NEW s \in Segment, AdvertiseJob(s) \/ AdvertiseQueued(s)
  PROVE  TransferInv' /\ StaySettled
  <1> USE DEF senderKeeps
  <1>1. out[s] \in Outgoing BY DEF TypeInv, TypeOK
  <1>2. out[s].job # "none" BY DEF AdvertiseJob, AdvertiseSend, AdvertiseRegister, AdvertiseQueued
  <1>3. Started(s) /\ s \notin outgoing /\ out[s].status # "COMPLETE" /\ ~Past(s)
    BY <1>2, TraceIsStarted DEF TransferInv, ListedOnce, CompleteIsStored, Past
  <1>4. \A t \in Segment : t # s => out'[t] = out[t]
    BY DEF AdvertiseJob, AdvertiseSend, AdvertiseRegister, AdvertiseQueued, TypeInv, TypeOK
  <1>5. CASE AdvertiseQueued(s)
    <2>1. out'[s].status = "QUEUED" /\ outgoing' = outgoing /\ net' = net
      BY <1>1, <1>5 DEF AdvertiseQueued, Outgoing, TypeInv, TypeOK
    <2>2. SenderMoves(s) /\ SenderSends BY <1>3, <2>1 DEF SenderMoves, SenderSends
    <2> QED BY <1>4, <1>5, <2>1, <2>2, SenderKeepsTransfer DEF AdvertiseQueued
  <1>6. CASE AdvertiseSend(s)
    <2>1. out'[s].status = out[s].status /\ outgoing' = outgoing
      BY <1>1, <1>6 DEF AdvertiseSend, Outgoing, TypeInv, TypeOK
    <2>2. net' \subseteq net \cup {Advertisement(s)}
      BY <1>6, CarriedNew DEF AdvertiseSend, Send
    <2>3. SenderMoves(s) BY <1>3, <2>1 DEF SenderMoves
    <2>4. SenderSends BY <1>3, <2>2 DEF SenderSends, Advertisement
    <2> QED BY <1>4, <1>6, <2>1, <2>3, <2>4, SenderKeepsTransfer DEF AdvertiseSend
  <1>7. CASE AdvertiseRegister(s)
    <2>1. /\ out'[s].status = "ADVERTISED" /\ out'[s].job = "none"
          /\ outgoing' = outgoing \cup {s} /\ net' = net
      BY <1>1, <1>7 DEF AdvertiseRegister, Outgoing, TypeInv, TypeOK
    <2>2. SenderMoves(s) /\ SenderSends BY <1>3, <2>1 DEF SenderMoves, SenderSends
    <2> QED BY <1>4, <1>7, <2>1, <2>2, SenderKeepsTransfer DEF AdvertiseRegister
  <1> QED BY <1>5, <1>6, <1>7 DEF AdvertiseJob

\* The watchdog of the sender keeps TransferInv.
LEMMA SenderTimeoutMoves ==
  ASSUME TypeInv, TransferInv, NEW s \in Segment, SenderTimeout(s)
  PROVE  TransferInv' /\ StaySettled
  <1> USE DEF senderKeeps
  <1>1. out[s] \in Outgoing BY DEF TypeInv, TypeOK
  <1>2. out[s].status \in {"ADVERTISED", "TRANSFERRING", "AWAITING_PROOF"}
    BY DEF SenderTimeout, SenderTimeoutAdvertised, SenderTimeoutTransferring, SenderTimeoutProof
  <1>3. Started(s) /\ out[s].status \in Open
    BY <1>2, TraceIsStarted DEF TransferInv, Open, Waiting
  <1>4. UNCHANGED senderKeeps
    BY DEF SenderTimeout, SenderTimeoutAdvertised, SenderTimeoutTransferring, SenderTimeoutProof
  <1>5. CASE CancelOutgoing(s) BY <1>3, <1>4, <1>5, CancelOutgoingMoves
  <1>6. CASE /\ out' = [out EXCEPT ![s].retries = @ - 1] /\ UNCHANGED outgoing
             /\ \/ /\ out[s].status = "ADVERTISED"
                   /\ net' \in Carried(net, Send("sender", {Advertisement(s)}))
                \/ net' \in Carried(net, Send("sender", {[type |-> "CACHE_REQUEST", seg |-> s]}))
    <2>1. /\ out'[s].status = out[s].status /\ out'[s].job = out[s].job
          /\ \A t \in Segment : t # s => out'[t] = out[t]
      BY <1>1, <1>6 DEF Outgoing, TypeInv, TypeOK
    <2>2. SenderMoves(s)
      BY <1>2, <1>3, <1>6, <2>1 DEF SenderMoves, Past, TransferInv, ListedOnce
    <2>3. \/ net' \subseteq net \cup {Advertisement(s)} /\ ~Past(s)
          \/ net' \subseteq net \cup {[type |-> "CACHE_REQUEST", seg |-> s]}
      BY <1>6, CarriedNew DEF Send, Past
    <2>4. SenderSends BY <1>3, <2>3 DEF SenderSends, Advertisement
    <2> QED BY <1>4, <1>6, <2>1, <2>2, <2>4, SenderKeepsTransfer
  <1> QED
    BY <1>5, <1>6 DEF SenderTimeout, SenderTimeoutAdvertised, SenderTimeoutTransferring,
       SenderTimeoutProof

\* request() keeps TransferInv: from then on the segment is past its
\* advertisement.
LEMMA ReceiveRequestMoves ==
  ASSUME TypeInv, TransferInv, NEW m \in net, ReceiveRequest(m)
  PROVE  TransferInv' /\ StaySettled
  <1> USE DEF senderKeeps
  <1> DEFINE s       == m.seg
             index   == PartIndex(s, m.last)
             floor   == Floor(index)
             found   == Found(s, m.asked)
             sent    == out[s].sent \cup found
             packets == {PartPacket(s, p) : p \in found}
             serving == [out[s] EXCEPT !.status = "TRANSFERRING", !.retries = MAX_RETRIES,
                                       !.sent = sent]
             moved   == [serving EXCEPT !.floor = floor]
             served(r) == IF Cardinality(sent) = parts[s]
                            THEN [r EXCEPT !.status = "AWAITING_PROOF",
                                           !.retries = PROOF_RETRIES] ELSE r
  <1>1. s \in Segment /\ s \in outgoing BY DEF ReceiveRequest, TypeInv, TypeOK, Message
  <1>2. out[s] \in Outgoing BY <1>1 DEF TypeInv, TypeOK
  <1>3. Started(s) /\ out[s].job = "none" /\ out[s].status # "COMPLETE"
    BY <1>1, TraceIsStarted DEF TransferInv, ListedOnce, CompleteIsStored
  <1>4. /\ serving.status = "TRANSFERRING" /\ serving.job = out[s].job
        /\ moved.status = "TRANSFERRING" /\ moved.job = out[s].job
    BY <1>2 DEF Outgoing
  <1>5. /\ \A q \in {served(serving), served(moved), Ended(Cancelled(serving))} :
             q.job = "none" /\ q.status \notin {"COMPLETE", "ADVERTISED"}
    <2>1. served(serving).job = "none" /\ served(serving).status \in {"TRANSFERRING", "AWAITING_PROOF"}
      BY <1>2, <1>3, <1>4 DEF Outgoing
    <2>2. served(moved).job = "none" /\ served(moved).status \in {"TRANSFERRING", "AWAITING_PROOF"}
      BY <1>2, <1>3, <1>4 DEF Outgoing
    <2>3. Ended(Cancelled(serving)).job = "none" /\ Ended(Cancelled(serving)).status = "FAILED"
      BY <1>2, <1>3, <1>4 DEF Ended, Cancelled, NewOutgoing, Outgoing, Open, Waiting
    <2> HIDE DEF served, serving, moved
    <2> QED BY <2>1, <2>2, <2>3
  <1>6. PICK q \in {served(serving), served(moved), Ended(Cancelled(serving))} :
          out' = [out EXCEPT ![s] = q]
    BY DEF ReceiveRequest
  <1>7. outgoing' \subseteq outgoing BY DEF ReceiveRequest
  <1>8. net' \subseteq net \cup packets \cup {[type |-> "HMU", seg |-> s, from |-> index]}
                           \cup {[type |-> "ICL", seg |-> s]}
    BY CarriedNew DEF ReceiveRequest
  <1>9. \A n \in packets : n.type = "PART" /\ n.seg = s BY DEF PartPacket
  <1> HIDE DEF s, served, serving, moved, packets
  <1>10. /\ out'[s].job = "none" /\ out'[s].status \notin {"COMPLETE", "ADVERTISED"}
         /\ \A t \in Segment : t # s => out'[t] = out[t]
    BY <1>1, <1>5, <1>6 DEF TypeInv, TypeOK
  <1>11. SenderMoves(s) BY <1>3, <1>10 DEF SenderMoves
  <1>12. SenderSends BY <1>1, <1>3, <1>8, <1>9, <1>10 DEF SenderSends
  <1> QED BY <1>1, <1>7, <1>10, <1>11, <1>12, SenderKeepsTransfer DEF ReceiveRequest

\* _rejected() keeps TransferInv.
LEMMA ReceiveRejectionMoves ==
  ASSUME TypeInv, TransferInv, NEW m \in net, ReceiveRejection(m)
  PROVE  TransferInv' /\ StaySettled
  <1> USE DEF senderKeeps
  <1> DEFINE s == m.seg
             told == [out[s] EXCEPT !.status = "REJECTED", !.told = Append(@, "REJECTED")]
  <1>1. s \in Segment /\ s \in outgoing BY DEF ReceiveRejection, TypeInv, TypeOK, Message
  <1>2. out[s] \in Outgoing BY <1>1 DEF TypeInv, TypeOK
  <1>3. Started(s) /\ out[s].job = "none" /\ out[s].status # "COMPLETE"
    BY <1>1, TraceIsStarted DEF TransferInv, ListedOnce, CompleteIsStored
  <1>4. Ended(told).status = "REJECTED" /\ Ended(told).job = "none"
    BY <1>2, <1>3 DEF Ended, NewOutgoing, Outgoing
  <1>5. out' = [out EXCEPT ![s] = Ended(told)] BY DEF ReceiveRejection
  <1> HIDE DEF told, s
  <1>6. /\ out'[s].status = "REJECTED" /\ out'[s].job = "none"
        /\ \A t \in Segment : t # s => out'[t] = out[t]
    BY <1>1, <1>4, <1>5 DEF TypeInv, TypeOK
  <1>7. SenderMoves(s) BY <1>3, <1>6 DEF SenderMoves
  <1>8. outgoing' \subseteq outgoing /\ net' \subseteq net BY DEF ReceiveRejection
  <1> QED BY <1>1, <1>6, <1>7, <1>8, SenderKeepsTransfer DEF ReceiveRejection, SenderSends

\* The first segment is started.
LEMMA FirstStarted ==
  ASSUME TypeInv
  PROVE  1 \in Segment /\ Started(1)
  BY SizesAssumption DEF TypeInv, TypeOK, Segment, Segments, Started

\* Segments that the closing link cancels are listed.
LEMMA CloseSenderMoves ==
  ASSUME TypeInv, TransferInv, CloseSender
  PROVE  TransferInv' /\ StaySettled
  <1>1. PICK some \in Walked(outgoing, out) :
          /\ out' = [s \in Segment |-> IF s \in some THEN Ended(Cancelled(out[s])) ELSE out[s]]
          /\ outgoing' = outgoing \ some
    BY DEF CloseSender
  <1>2. \A s \in some : s \in outgoing /\ s \in Segment /\ out[s].status \in Open
    BY DEF Walked, TypeInv, TypeOK
  <1>3. ASSUME NEW s \in some
        PROVE  Ended(Cancelled(out[s])).status = "FAILED" /\ Ended(Cancelled(out[s])).job = "none"
    <2>1. out[s] \in Outgoing /\ out[s].job = "none"
      BY <1>2, <1>3 DEF TypeInv, TypeOK, TransferInv, ListedOnce
    <2> QED BY <1>2, <1>3, <2>1 DEF Ended, Cancelled, NewOutgoing, Outgoing
  <1>4. \A s \in some : SenderMoves(s)
    <2>1. \A s \in some : Started(s) BY <1>2, TraceIsStarted DEF TransferInv
    <2> QED BY <1>1, <1>2, <1>3, <2>1 DEF SenderMoves, Open, Waiting
  <1>5. \A s \in Segment : s \notin some => out'[s] = out[s] BY <1>1 DEF TypeInv, TypeOK
  <1> QED BY <1>1, <1>4, <1>5, SenderKeepsTransfer DEF CloseSender, SenderSends

\* The proof of a segment completes it, and starts the next one.
LEMMA ReceiveProofMoves ==
  ASSUME TypeInv, TransferInv, NEW m \in net, ReceiveProof(m)
  PROVE  TransferInv' /\ StaySettled
  <1> USE DEF senderKeeps
  <1> DEFINE s == m.seg
             done == Ended([out[s] EXCEPT !.status = "COMPLETE",
                              !.told = IF s = Segments THEN Append(@, "COMPLETE") ELSE @])
  <1>1. s \in Segment /\ s \in outgoing /\ s \in cached
    BY DEF ReceiveProof, TypeInv, TypeOK, Message, TransferInv, ProofsAreTrue
  <1>2. \A t \in Segment : /\ t \in Nat \ {0} /\ out[t] \in Outgoing
                            /\ 1 .. t - 1 \subseteq Segment
    BY SegmentsType DEF TypeInv, TypeOK, Segment
  <1>3. Started(s) /\ out[s].job = "none" /\ out[s].status # "COMPLETE"
    BY <1>1, TraceIsStarted DEF TransferInv, ListedOnce, CompleteIsStored
  <1>4. done.status = "COMPLETE" /\ done.job = "none"
    BY <1>1, <1>2, <1>3 DEF Ended, NewOutgoing, Outgoing
  <1>5. /\ out' = [t \in Segment |-> IF t = s THEN done
                                     ELSE IF t = s + 1 THEN [out[t] EXCEPT !.job = "waits"]
                                     ELSE out[t]]
        /\ outgoing' = outgoing \ {s} /\ net' = net \ {m}
        /\ UNCHANGED <<parts, inc, incoming, file, cached>>
    BY DEF ReceiveProof
  <1> HIDE DEF done, s
  <1>6. Segment' = Segment /\ Segments' = Segments BY <1>5 DEF Segment, Segments
  <1>7. \A t \in Segment :
          /\ out'[t].status = IF t = s THEN "COMPLETE" ELSE out[t].status
          /\ out'[t].job = IF t = s + 1 THEN "waits" ELSE out[t].job
          /\ t # s /\ t # s + 1 => out'[t] = out[t]
    <2>1. s + 1 # s BY <1>1, <1>2
    <2> QED BY <1>2, <1>3, <1>4, <1>5, <2>1 DEF Outgoing
  <1>8. \A t \in Segment : t > s => ~Started(t)
    <2>1. \A t \in Segment : t > s => s \in 1 .. t - 1 BY <1>1, <1>2
    <2> QED BY <1>3, <2>1 DEF Started
  <1>9. \A t \in Segment : Started(t) => Started(t)'
    BY <1>2, <1>7 DEF Started
  <1>10. s + 1 \in Segment => Started(s + 1)'
    <2>1. ASSUME NEW t \in 1 .. (s + 1) - 1
          PROVE  t \in Segment /\ (t = s \/ t \in 1 .. s - 1)
      BY <1>1, <1>2, <2>1
    <2> QED BY <1>3, <1>7, <2>1 DEF Started
  <1>11. s + 1 \in Segment => Untouched(s + 1)
    BY <1>1, <1>2, <1>8 DEF TransferInv, OneAtATime
  <1>12. OneAtATime'
    <2> SUFFICES ASSUME NEW t \in Segment, ~Started(t)' PROVE Untouched(t)'
      BY <1>6 DEF OneAtATime
    <2>1. t # s /\ t # s + 1 /\ ~Started(t) BY <1>3, <1>9, <1>10
    <2>2. Untouched(t) BY <2>1 DEF TransferInv, OneAtATime
    <2> QED BY <1>5, <1>7, <2>1, <2>2 DEF Untouched
  <1>13. ListedOnce'
    BY <1>1, <1>5, <1>6, <1>7, <1>11 DEF TransferInv, ListedOnce, Untouched
  <1>14. CompleteIsStored'
    <2> SUFFICES ASSUME NEW t \in Segment, out'[t].status = "COMPLETE"
                 PROVE  /\ out'[t].job = "none" /\ t \notin outgoing'
                        /\ t \in cached' /\ Started(t)'
      BY <1>6 DEF CompleteIsStored
    <2>1. CASE t = s
      <3>1. s # s + 1 BY <1>1, <1>2
      <3> QED BY <1>1, <1>3, <1>5, <1>7, <1>9, <2>1, <3>1
    <2>2. CASE t # s
      <3>1. out[t].status = "COMPLETE" BY <1>7, <2>2
      <3>2. t # s + 1 BY <1>11, <3>1 DEF Untouched, NewOutgoing
      <3> QED BY <1>5, <1>7, <1>9, <2>2, <3>1, <3>2 DEF TransferInv, CompleteIsStored
    <2> QED BY <2>1, <2>2
  <1>15. ProofsAreTrue' BY <1>5 DEF TransferInv, ProofsAreTrue
  <1>16. \A t \in Segment : Past(t) => Past(t)'
    BY <1>7, <1>9, <1>8, <1>1, <1>2 DEF Past
  <1>17. NotAdvertisedAgain'
    <2>1. \A n \in net : n.seg \in Segment BY DEF TypeInv, TypeOK, Message
    <2> QED
      BY <1>5, <1>6, <1>16, <2>1 DEF TransferInv, NotAdvertisedAgain, Arrived, Advertisement
  <1>18. StoredOnce' /\ FileInOrder'
    BY <1>5, <1>6 DEF TransferInv, StoredOnce, FileInOrder
  <1>19. StaySettled
    BY <1>5, <1>16 DEF StaySettled, Settled, Advertisement
  <1> QED BY <1>12, <1>13, <1>14, <1>15, <1>17, <1>18, <1>19 DEF TransferInv

\* The sender's application, its other resources and lost packets keep TransferInv.
LEMMA SenderOtherMoves ==
  ASSUME TypeInv, TransferInv, OtherConcluded \/ SenderCancels \/ \E m \in net : Lose(m)
  PROVE  TransferInv' /\ StaySettled
  <1> USE DEF senderKeeps
  <1>1. CASE OtherConcluded
    BY <1>1, SenderKeepsTransfer DEF OtherConcluded, SenderSends
  <1>2. CASE SenderCancels
    BY <1>2, FirstStarted, CancelOutgoingMoves DEF SenderCancels
  <1>3. CASE \E m \in net : Lose(m)
    BY <1>3, SenderKeepsTransfer DEF Lose, SenderSends
  <1> QED BY <1>1, <1>2, <1>3

\* A change of one Resource at the receiver that leaves arrivals alone, and what
\* is sent with it, keep the invariant.
LEMMA KeptMoves ==
  ASSUME TypeInv, TransferInv, UNCHANGED <<parts, out, outgoing, cached, file>>,
         NEW s \in Segment, Started(s), NEW q, Kept(inc[s], q),
         inc' = [inc EXCEPT ![s] = q], incoming' \subseteq incoming, ReceiverSends
  PROVE  TransferInv' /\ StaySettled
  <1>1. inc'[s] = q /\ \A t \in Segment : t # s => inc'[t] = inc[t]
    BY DEF TypeInv, TypeOK
  <1>2. ReceiverMoves(s)
    BY <1>1 DEF ReceiverMoves, Kept, TransferInv, NotAdvertisedAgain, Arrived, StoredOnce
  <1> QED BY <1>1, <1>2, ReceiverKeepsTransfer

\* accept() keeps TransferInv: what arrived before is not advertised any more.
LEMMA AcceptMoves ==
  ASSUME TypeInv, TransferInv, NEW m \in net, Accept(m) \/ Reject(m)
  PROVE  TransferInv' /\ StaySettled
  <1> USE DEF receiverKeeps
  <1> DEFINE s     == m.seg
             fresh == [NewIncoming EXCEPT !.window = IF last = 0 THEN WINDOW ELSE last,
                                          !.watch = TRUE]
             first == Mapped(fresh, s, 0)
             q     == NextRequested(first, s)
  <1>1. s \in Segment /\ m \in Message /\ last \in Nat
    BY DEF Accept, Reject, TypeInv, TypeOK, Message
  <1>2. Started(s) BY <1>1, TraceIsStarted DEF TransferInv
  <1>3. CASE Accept(m)
    <2>1. m = Advertisement(s)
      BY <1>1, <1>3 DEF Accept, Message, Advertisement
    <2>2. s \notin 1 .. Len(file)
      <3>1. ~Arrived(s) BY <1>1, <2>1 DEF TransferInv, NotAdvertisedAgain
      <3> QED BY <3>1 DEF Arrived, TransferInv, StoredOnce
    <2>3. q.got = {} /\ q.assembly = "none"
      <3>1. NewIncoming \in Receiving(s) BY <1>1, NewIncomingType
      <3>2. (IF last = 0 THEN WINDOW ELSE last) \in Nat BY <1>1, ConstantsType
      <3>3. ASSUME NEW w \in Nat, NEW r \in Receiving(s), r.got = {}, r.assembly = "none"
            PROVE  LET f == [r EXCEPT !.window = w, !.watch = TRUE]
                   IN  f \in Receiving(s) /\ f.got = {} /\ f.assembly = "none"
        BY <3>3 DEF Receiving, Incoming
      <3>4. NewIncoming.got = {} /\ NewIncoming.assembly = "none" BY DEF NewIncoming
      <3>5. fresh \in Receiving(s) /\ fresh.got = {} /\ fresh.assembly = "none"
        <4> HIDE DEF s
        <4> QED BY <3>1, <3>2, <3>3, <3>4
      <3>6. 0 \in Nat OBVIOUS
      <3> HIDE DEF fresh, s
      <3>7. first \in Receiving(s) BY <1>1, <3>5, <3>6, MappedType
      <3>8. first.got = {} /\ first.assembly = "none"
        BY <3>5, <1>1, KeptOps DEF Kept
      <3> HIDE DEF first
      <3> QED BY <1>1, <3>7, <3>8, KeptOps DEF Kept
    <2>4. /\ inc' = [inc EXCEPT ![s] = q] /\ incoming' = incoming \cup {s}
          /\ net' \in Carried(net \ {m}, Request(first, s))
      BY <1>3 DEF Accept
    <2>5. \A n \in Request(first, s) : n.seg = s /\ n.type = "REQ"
      BY DEF Request, Send
    <2> HIDE DEF q, first, s
    <2>6. inc'[s] = q /\ \A t \in Segment : t # s => inc'[t] = inc[t]
      BY <1>1, <2>4 DEF TypeInv, TypeOK
    <2>7. ReceiverMoves(s) BY <1>2, <2>2, <2>3, <2>6 DEF ReceiverMoves
    <2>8. net' \subseteq (net \ {m}) \cup Request(first, s) BY <2>4, CarriedNew
    <2>9. ReceiverSends BY <1>1, <1>2, <2>5, <2>8 DEF ReceiverSends
    <2> QED BY <1>3, <2>4, <2>6, <2>7, <2>9, ReceiverKeepsTransfer DEF Accept
  <1>4. CASE Reject(m)
    <2>1. net' \subseteq (net \ {m}) \cup {[type |-> "RCL", seg |-> m.seg]}
      BY <1>4, CarriedNew DEF Reject
    <2>2. ReceiverSends BY <1>1, <1>2, <2>1 DEF ReceiverSends
    <2> QED BY <1>4, <2>2, ReceiverKeepsTransfer DEF Reject
  <1> QED BY <1>3, <1>4

\* receive_part() keeps TransferInv: one thread only is started for an assembly.
LEMMA ReceivePartMoves ==
  ASSUME TypeInv, TransferInv, "LATE" \notin Faults, NEW m \in net, ReceivePart(m)
  PROVE  TransferInv' /\ StaySettled
  <1> USE DEF receiverKeeps
  <1>1. PICK fast \in BOOLEAN, slow \in BOOLEAN :
          LET got(s)  == Received(inc[s], s, IF s = m.seg THEN m.part ELSE 0, fast, slow)
              more(s) == Continues(inc[s], got(s))
          IN  /\ inc' = [s \in Segment |->
                           IF s \notin incoming THEN inc[s]
                           ELSE IF more(s) THEN NextRequested(got(s), s) ELSE got(s)]
              /\ net' \in Carried(net \ {m}, UNION {IF more(s) THEN Request(got(s), s) ELSE {} :
                                                   s \in incoming})
    BY DEF ReceivePart
  <1> DEFINE p(s)    == IF s = m.seg THEN m.part ELSE 0
             got(s)  == Received(inc[s], s, p(s), fast, slow)
             more(s) == Continues(inc[s], got(s))
             asking  == UNION {IF more(s) THEN Request(got(s), s) ELSE {} : s \in incoming}
  <1>2. m.type = "PART" /\ Past(m.seg) /\ Advertisement(m.seg) \notin net
    BY DEF ReceivePart, InTurn, TransferInv, NotAdvertisedAgain
  <1>3. \A s \in Segment : p(s) \in Nat
    BY DEF ReceivePart, TypeInv, TypeOK, Message
  <1>4. \A s \in Segment :
          /\ got(s) \in Receiving(s)
          /\ s # m.seg => got(s).got = inc[s].got
          /\ \/ got(s).assembly = inc[s].assembly
             \/ inc[s].assembly = "none" /\ got(s).got # {}
    <2> SUFFICES ASSUME NEW s \in Segment
                 PROVE  /\ got(s) \in Receiving(s)
                        /\ s # m.seg => got(s).got = inc[s].got
                        /\ \/ got(s).assembly = inc[s].assembly
                           \/ inc[s].assembly = "none" /\ got(s).got # {}
      OBVIOUS
    <2>1. inc[s] \in Receiving(s) /\ p(s) \in Nat /\ (s # m.seg => p(s) = 0)
      BY <1>3, IncType
    <2> HIDE DEF p
    <2> QED BY <2>1, ReceivedType, ReceivedArrives
  <1>5. /\ inc' = [s \in Segment |-> IF s \notin incoming THEN inc[s]
                                     ELSE IF more(s) THEN NextRequested(got(s), s) ELSE got(s)]
        /\ net' \in Carried(net \ {m}, asking)
    BY <1>1
  <1>6. \A n \in asking : n.type = "REQ" /\ n.seg \in incoming
    BY DEF Request, Send
  <1> HIDE DEF p, got, more, asking
  <1>7. ASSUME NEW s \in incoming, s \in Segment
        PROVE  ReceiverMoves(s)
    <2>1. Started(s) BY <1>7, TraceIsStarted DEF TransferInv
    <2>2. inc'[s].got \subseteq got(s).got /\ inc'[s].assembly = got(s).assembly
      BY <1>4, <1>5, <1>7, KeptOps DEF Kept
    <2>3. inc'[s].got # {} \/ inc'[s].assembly # "none" => Arrived(s) \/ s = m.seg
      BY <1>4, <1>7, <2>2 DEF Arrived
    <2>4. Arrived(s) => Past(s) /\ Advertisement(s) \notin net
      BY <1>7 DEF TransferInv, NotAdvertisedAgain
    <2>5. s \in 1 .. Len(file) => inc'[s].assembly \in {"concludes", "ended"}
      BY <1>4, <1>7, <2>2 DEF TransferInv, StoredOnce
    <2> QED BY <1>2, <2>1, <2>3, <2>4, <2>5 DEF ReceiverMoves
  <1>8. ReceiverSends
    <2>1. net' \subseteq (net \ {m}) \cup asking BY <1>5, CarriedNew
    <2>2. \A s \in incoming : s \in Segment /\ Started(s)
      BY TraceIsStarted DEF TransferInv, TypeInv, TypeOK
    <2> QED BY <1>6, <2>1, <2>2 DEF ReceiverSends
  <1>9. \A s \in Segment : s \notin incoming => inc'[s] = inc[s] BY <1>5
  <1> QED BY <1>7, <1>8, <1>9, ReceiverKeepsTransfer DEF ReceivePart

\* The other packets to the receiver keep TransferInv.
LEMMA ReceiverPacketMoves ==
  ASSUME TypeInv, TransferInv, NEW m \in net,
         ReceiveHashmap(m) \/ ReceiveCancel(m) \/ ReceiveCacheRequest(m)
  PROVE  TransferInv' /\ StaySettled
  <1> USE DEF receiverKeeps
  <1> DEFINE s     == m.seg
             heard == [inc[s] EXCEPT !.retries = MAX_RETRIES]
             next  == Mapped(heard, s, m.from)
  <1>1. s \in Segment BY DEF ReceiveHashmap, ReceiveCancel, ReceiveCacheRequest, TypeInv, TypeOK, Message
  <1>2. Started(s) /\ inc[s] \in Receiving(s)
    BY <1>1, TraceIsStarted, IncType DEF TransferInv
  <1>3. CASE ReceiveHashmap(m)
    <2>1. heard \in Receiving(s) /\ Kept(inc[s], heard)
      <3>1. ASSUME NEW r \in Receiving(s)
            PROVE  LET h == [r EXCEPT !.retries = MAX_RETRIES]
                   IN  h \in Receiving(s) /\ Kept(r, h)
        BY <3>1, ConstantsType DEF Receiving, Incoming, Kept
      <3> HIDE DEF s
      <3> QED BY <1>2, <3>1
    <2>2. m.from \in Nat BY <1>3 DEF ReceiveHashmap, TypeInv, TypeOK, Message
    <2> HIDE DEF heard, s
    <2>3. next \in Receiving(s) BY <1>1, <2>1, <2>2, MappedType
    <2>4. Kept(heard, next) BY <1>1, <2>1, KeptOps
    <2> HIDE DEF next
    <2>5. Kept(next, NextRequested(next, s)) BY <1>1, <2>3, KeptOps
    <2>6. Kept(inc[s], NextRequested(next, s)) BY <2>1, <2>4, <2>5 DEF Kept
    <2>7. /\ inc' = [inc EXCEPT ![s] = NextRequested(next, s)]
          /\ net' \in Carried(net \ {m}, Request(next, s))
      BY <1>3 DEF ReceiveHashmap, next, heard, s
    <2>8. ReceiverSends
      <3>1. net' \subseteq (net \ {m}) \cup Request(next, s) BY <2>7, CarriedNew
      <3> QED BY <1>1, <1>2, <3>1 DEF Request, Send, ReceiverSends
    <2> QED BY <1>1, <1>2, <1>3, <2>6, <2>7, <2>8, KeptMoves DEF ReceiveHashmap
  <1>4. CASE ReceiveCancel(m)
    <2> DEFINE q == IF inc[s].status \in Open THEN Dropped(Cancelled(inc[s])) ELSE inc[s]
    <2>1. Kept(inc[s], q) /\ inc' = [inc EXCEPT ![s] = q]
      <3>1. Kept(inc[s], Dropped(Cancelled(inc[s]))) BY <1>1, <1>2, KeptOps
      <3>2. inc' = [inc EXCEPT ![s] = q] BY <1>4 DEF ReceiveCancel, CancelIncoming
      <3> QED BY <3>1, <3>2 DEF Kept
    <2> HIDE DEF q
    <2> HIDE DEF s
    <2> QED BY <1>1, <1>2, <1>4, <2>1, KeptMoves DEF ReceiveCancel, CancelIncoming, ReceiverSends
  <1>5. CASE ReceiveCacheRequest(m)
    <2>1. net' \subseteq (net \ {m}) \cup {[type |-> "PRF", seg |-> m.seg]}
      BY <1>5, CarriedNew DEF ReceiveCacheRequest
    <2>2. ReceiverSends
      BY <1>1, <1>2, <1>5, <2>1 DEF ReceiverSends, ReceiveCacheRequest
    <2> QED BY <1>5, <2>2, ReceiverKeepsTransfer DEF ReceiveCacheRequest
  <1> QED BY <1>3, <1>4, <1>5

\* cancel() of the receiver keeps TransferInv.
LEMMA CancelIncomingMoves ==
  ASSUME TypeInv, TransferInv, NEW s \in Segment, Started(s), CancelIncoming(s),
         UNCHANGED <<parts, out, outgoing, cached, file>>, net' \subseteq net
  PROVE  TransferInv' /\ StaySettled
  <1> DEFINE q == IF inc[s].status \in Open THEN Dropped(Cancelled(inc[s])) ELSE inc[s]
  <1>1. Kept(inc[s], q)
    <2>1. inc[s] \in Receiving(s) BY IncType
    <2>2. Kept(inc[s], Dropped(Cancelled(inc[s]))) BY <2>1, KeptOps
    <2> QED BY <2>2 DEF Kept
  <1>2. inc' = [inc EXCEPT ![s] = q] /\ incoming' \subseteq incoming
    BY DEF CancelIncoming
  <1> HIDE DEF q
  <1> QED BY <1>1, <1>2, KeptMoves DEF ReceiverSends

\* The watchdog of the receiver keeps TransferInv.
LEMMA ReceiverTimeoutMoves ==
  ASSUME TypeInv, TransferInv, NEW s \in Segment, ReceiverTimeout(s)
  PROVE  TransferInv' /\ StaySettled
  <1> USE DEF receiverKeeps
  <1> DEFINE retry == [Narrowed(inc[s]) EXCEPT !.retries = @ - 1, !.waiting = FALSE]
  <1>1. Started(s) /\ inc[s] \in Receiving(s)
    BY TraceIsStarted, IncType DEF ReceiverTimeout, TransferInv
  <1>2. CASE inc[s].retries > 0
    <2>1. retry \in Receiving(s) /\ Kept(inc[s], retry)
      <3>1. Narrowed(inc[s]) \in Receiving(s) /\ Kept(inc[s], Narrowed(inc[s]))
        BY <1>1, WindowType, KeptOps
      <3>2. Narrowed(inc[s]).retries = inc[s].retries
        BY <1>1 DEF Narrowed, Receiving, Incoming
      <3>3. inc[s].retries - 1 \in Nat BY <1>1, <1>2 DEF Receiving, Incoming
      <3>4. ASSUME NEW r \in Receiving(s), r.retries - 1 \in Nat
            PROVE  LET f == [r EXCEPT !.retries = @ - 1, !.waiting = FALSE]
                   IN  f \in Receiving(s) /\ Kept(r, f)
        BY <3>4 DEF Receiving, Incoming, Kept
      <3>5. retry \in Receiving(s) /\ Kept(Narrowed(inc[s]), retry)
        BY <3>1, <3>2, <3>3, <3>4
      <3> QED BY <3>1, <3>5 DEF Kept
    <2>2. /\ inc' = [inc EXCEPT ![s] = NextRequested(retry, s)]
          /\ incoming' \subseteq incoming
          /\ net' \in Carried(net, Request(retry, s))
      BY <1>2 DEF ReceiverTimeout
    <2> HIDE DEF retry
    <2>3. Kept(retry, NextRequested(retry, s)) BY <2>1, KeptOps
    <2>4. Kept(inc[s], NextRequested(retry, s)) BY <2>1, <2>3 DEF Kept
    <2>5. ReceiverSends
      <3>1. net' \subseteq net \cup Request(retry, s) BY <2>2, CarriedNew
      <3> QED BY <1>1, <3>1 DEF Request, Send, ReceiverSends
    <2> QED BY <1>1, <2>2, <2>4, <2>5, KeptMoves DEF ReceiverTimeout
  <1>3. CASE ~(inc[s].retries > 0)
    BY <1>1, <1>3, CancelIncomingMoves DEF ReceiverTimeout
  <1> QED BY <1>2, <1>3

\* The assembling thread, but for the moment it stores the segment.
LEMMA AssembleMoves ==
  ASSUME TypeInv, TransferInv, NEW s \in Segment,
         \/ WatchdogEnds(s) \/ AssembleStart(s) \/ AssembleFail(s) \/ AssembleConclude(s)
         \/ ReceiverCancels(s)
  PROVE  TransferInv' /\ StaySettled
  <1> USE DEF receiverKeeps
  <1>1. inc[s] \in Receiving(s) BY IncType
  <1>2. Started(s)
    BY TraceIsStarted DEF TransferInv, WatchdogEnds, AssembleStart, AssembleFail,
       AssembleConclude, ReceiverCancels, Arrived
  <1>3. CASE WatchdogEnds(s)
    <2>1. Kept(inc[s], [inc[s] EXCEPT !.watch = FALSE])
      BY <1>1 DEF Kept, Receiving, Incoming
    <2>2. inc' = [inc EXCEPT ![s] = [inc[s] EXCEPT !.watch = FALSE]]
      BY <1>3 DEF WatchdogEnds
    <2> QED BY <1>2, <1>3, <2>1, <2>2, KeptMoves DEF WatchdogEnds, ReceiverSends
  <1>4. CASE AssembleStart(s) \/ AssembleFail(s) \/ AssembleConclude(s)
    <2>1. inc[s].assembly \in {"starts", "joins", "concludes"}
      BY <1>4 DEF AssembleStart, AssembleFail, AssembleConclude
    <2>2. s \in 1 .. Len(file) => inc[s].assembly = "concludes"
      BY <2>1 DEF TransferInv, StoredOnce
    <2>3. Past(s) /\ Advertisement(s) \notin net
      BY <2>1 DEF TransferInv, NotAdvertisedAgain, Arrived
    <2>4. inc[s].assembly = "concludes" => inc'[s].assembly \in {"concludes", "ended"}
      <3>1. CASE AssembleConclude(s)
        <4> DEFINE q == [inc[s] EXCEPT !.assembly = "ended",
                           !.told = IF s = Segments THEN Append(@, inc[s].status) ELSE @]
        <4>1. q.assembly = "ended" BY <1>1 DEF Receiving, Incoming
        <4>2. inc' = [inc EXCEPT ![s] = Dropped(q)] BY <3>1 DEF AssembleConclude
        <4> HIDE DEF q
        <4>3. Dropped(q).assembly = "ended" BY <4>1 DEF Dropped, NewIncoming
        <4> QED BY <4>2, <4>3 DEF TypeInv, TypeOK
      <3> QED BY <1>4, <3>1 DEF AssembleStart, AssembleFail
    <2>5. \A t \in Segment : t # s => inc'[t] = inc[t]
      BY <1>4 DEF AssembleStart, AssembleFail, AssembleConclude, TypeInv, TypeOK
    <2>6. ReceiverMoves(s) BY <1>2, <2>2, <2>3, <2>4 DEF ReceiverMoves
    <2>7. /\ UNCHANGED <<parts, out, outgoing, cached, file, net>>
          /\ incoming' \subseteq incoming
      BY <1>4 DEF AssembleStart, AssembleFail, AssembleConclude
    <2> QED BY <2>5, <2>6, <2>7, ReceiverKeepsTransfer DEF ReceiverSends
  <1>5. CASE ReceiverCancels(s)
    BY <1>2, <1>5, CancelIncomingMoves DEF ReceiverCancels
  <1> QED BY <1>3, <1>4, <1>5

\* The segment that is stored is the next one.
LEMMA StoresNext ==
  ASSUME TypeInv, TransferInv, NEW s \in Segment, inc[s].assembly = "joins"
  PROVE  s = Len(file) + 1 /\ Past(s) /\ Advertisement(s) \notin net
  <1>1. Past(s) /\ Advertisement(s) \notin net
    BY DEF TransferInv, NotAdvertisedAgain, Arrived
  <1>2. s \notin 1 .. Len(file) BY DEF TransferInv, StoredOnce
  <1>3. s \in Nat \ {0} /\ Len(file) \in Nat /\ 1 .. s - 1 \subseteq Segment
    BY SegmentsType DEF Segment, TypeInv, TypeOK
  <1>4. cached \subseteq 1 .. Len(file) BY DEF TransferInv, FileInOrder
  <1>5. s > Len(file) BY <1>2, <1>3
  <1>6. 1 .. s - 1 \subseteq cached
    BY <1>1, <1>3 DEF Past, Started, TransferInv, CompleteIsStored
  <1>7. s - 1 <= Len(file)
    <2>1. CASE s = 1 BY <1>3, <2>1
    <2>2. CASE s # 1
      <3>1. s - 1 \in 1 .. s - 1 BY <1>3, <2>2
      <3> QED BY <1>3, <1>4, <1>6, <3>1
    <2> QED BY <2>1, <2>2
  <1> QED BY <1>1, <1>3, <1>5, <1>7

\* A segment is stored behind the one before it, and once.
LEMMA AssembleStoreMoves ==
  ASSUME TypeInv, TransferInv, NEW s \in Segment, AssembleStore(s)
  PROVE  TransferInv' /\ StaySettled
  <1>1. s = Len(file) + 1 /\ Past(s) /\ Advertisement(s) \notin net
    BY StoresNext DEF AssembleStore
  <1>2. /\ inc' = [inc EXCEPT ![s].status = "COMPLETE", ![s].assembly = "concludes"]
        /\ file' = Append(file, s)
        /\ cached' = IF "receiver" \in link THEN cached \cup {s} ELSE cached
        /\ UNCHANGED <<parts, link, out, outgoing, busy, incoming, last>>
    BY DEF AssembleStore
  <1>3. inc[s] \in Incoming BY DEF TypeInv, TypeOK
  <1>4. /\ inc'[s].assembly = "concludes"
        /\ \A t \in Segment : t # s => inc'[t] = inc[t]
    BY <1>2, <1>3 DEF Incoming, TypeInv, TypeOK
  <1>5. net' \subseteq net \cup Send("receiver", {[type |-> "PRF", seg |-> s]})
    BY CarriedNew DEF AssembleStore
  <1>6. Segment' = Segment /\ Segments' = Segments BY <1>2 DEF Segment, Segments
  <1>7. \A t : (Started(t)' <=> Started(t)) /\ (Past(t)' <=> Past(t))
    BY <1>2 DEF Started, Past
  <1>8. OneAtATime'
    <2> SUFFICES ASSUME NEW t \in Segment, ~Started(t) PROVE Untouched(t)'
      BY <1>6, <1>7 DEF OneAtATime
    <2>1. Untouched(t) /\ t # s BY <1>1 DEF TransferInv, OneAtATime, Past
    <2>2. \A m \in net' : m.seg # t BY <1>5, <2>1 DEF Untouched, Send
    <2>3. inc'[t] = inc[t] BY <1>4, <2>1
    <2> QED BY <1>2, <2>1, <2>2, <2>3 DEF Untouched
  <1>9. ListedOnce' /\ CompleteIsStored'
    BY <1>2, <1>6, <1>7 DEF TransferInv, ListedOnce, CompleteIsStored
  <1>10. ProofsAreTrue' BY <1>2, <1>5 DEF TransferInv, ProofsAreTrue, Send
  <1>11. NotAdvertisedAgain'
    <2>1. ASSUME NEW t \in Segment, Arrived(t)' PROVE Past(t) /\ Advertisement(t) \notin net
      BY <1>1, <1>4, <2>1 DEF TransferInv, NotAdvertisedAgain, Arrived
    <2>2. \A t : Advertisement(t) \in net' => Advertisement(t) \in net
      BY <1>5 DEF Advertisement, Send
    <2> QED
      BY <1>5, <1>6, <1>7, <2>1, <2>2 DEF NotAdvertisedAgain, Advertisement, TransferInv, Send
  <1>12. StoredOnce'
    <2>1. file \in Seq(Segment) /\ Len(file) \in Nat BY DEF TypeInv, TypeOK
    <2>2. \A t \in 1 .. Len(file') : t = s \/ t \in 1 .. Len(file) BY <1>1, <1>2, <2>1
    <2>3. 1 .. Len(file) \subseteq Segment
      BY <2>1, SegmentsType DEF Segment, TransferInv, FileInOrder
    <2> QED BY <1>4, <2>2, <2>3 DEF TransferInv, StoredOnce
  <1>13. FileInOrder'
    <2>1. file \in Seq(Segment) /\ Len(file) \in Nat BY DEF TypeInv, TypeOK
    <2>2. file = [k \in 1 .. Len(file) |-> k] /\ cached \subseteq 1 .. Len(file)
      BY DEF TransferInv, FileInOrder
    <2>3. Len(file') = Len(file) + 1 BY <1>2, <2>1
    <2>4. file' = [k \in 1 .. Len(file) + 1 |-> k]
      <3>1. file' \in Seq(Segment) /\ file'[Len(file) + 1] = s
        BY <1>2, <2>1, AppendProperties
      <3>2. \A k \in 1 .. Len(file) : file'[k] = k
        BY <1>2, <2>1, <2>2, AppendProperties
      <3>3. \A k \in 1 .. Len(file) + 1 : file'[k] = k
        BY <1>1, <2>1, <3>1, <3>2
      <3>4. file' = [k \in 1 .. Len(file') |-> file'[k]] BY <3>1
      <3> QED BY <2>3, <3>3, <3>4
    <2>5. cached' \subseteq 1 .. Len(file) + 1 BY <1>1, <1>2, <2>1, <2>2
    <2>6. Len(file) + 1 <= Segments BY <1>1, SegmentsType DEF Segment
    <2> QED BY <1>6, <2>3, <2>4, <2>5, <2>6 DEF FileInOrder
  <1>14. StaySettled
    BY <1>5, <1>7 DEF StaySettled, Settled, Advertisement, Send
  <1> QED BY <1>8, <1>9, <1>10, <1>11, <1>12, <1>13, <1>14 DEF TransferInv

\* link_closed() of the receiver keeps TransferInv.
LEMMA CloseReceiverMoves ==
  ASSUME TypeInv, TransferInv, CloseReceiver
  PROVE  TransferInv' /\ StaySettled
  <1>1. PICK some \in Walked(incoming, inc) :
          /\ inc' = [s \in Segment |-> IF s \in some THEN Dropped(Cancelled(inc[s])) ELSE inc[s]]
          /\ incoming' = incoming \ some
    BY DEF CloseReceiver
  <1>2. \A s \in some : s \in incoming /\ s \in Segment
    BY DEF Walked, TypeInv, TypeOK
  <1>3. \A s \in some : ReceiverMoves(s)
    <2> SUFFICES ASSUME NEW s \in some PROVE ReceiverMoves(s)
      OBVIOUS
    <2>1. inc[s] \in Receiving(s) /\ Started(s)
      BY <1>2, IncType, TraceIsStarted DEF TransferInv
    <2>2. Kept(inc[s], inc'[s]) BY <1>1, <1>2, <2>1, KeptOps
    <2> QED
      BY <1>2, <2>1, <2>2 DEF ReceiverMoves, Kept, TransferInv, NotAdvertisedAgain, Arrived, StoredOnce
  <1>4. \A s \in Segment : s \notin some => inc'[s] = inc[s] BY <1>1
  <1> QED BY <1>1, <1>3, <1>4, ReceiverKeepsTransfer DEF CloseReceiver, ReceiverSends

\* Nothing has happened at the start.
LEMMA TransferInit == Init => TransferInv
  <1> SUFFICES ASSUME Init PROVE TransferInv
    OBVIOUS
  <1>1. Segments \in Nat /\ Segment \subseteq Nat \ {0}
    BY SizesAssumption DEF Init, Segment, Segments
  <1>2. \A s \in Segment : /\ out[s].status = "NONE" /\ inc[s] = NewIncoming
                           /\ s # 1 => out[s] = NewOutgoing
    BY DEF Init, NewOutgoing
  <1>3. OneAtATime
    <2>1. Started(1) BY DEF Started
    <2>2. \A s \in Segment : s # 1 => Untouched(s)
      BY <1>2 DEF Init, Untouched
    <2> QED BY <2>1, <2>2 DEF OneAtATime
  <1>4. ListedOnce /\ ProofsAreTrue /\ StoredOnce BY DEF Init, ListedOnce, ProofsAreTrue, StoredOnce
  <1>5. CompleteIsStored BY <1>2 DEF CompleteIsStored
  <1>6. NotAdvertisedAgain
    BY <1>2 DEF Init, NotAdvertisedAgain, Arrived, NewIncoming
  <1>7. FileInOrder
    <2>1. Len(file) = 0 BY DEF Init
    <2>2. file = [k \in 1 .. 0 |-> k] BY DEF Init
    <2> QED BY <1>1, <2>1, <2>2 DEF Init, FileInOrder
  <1> QED BY <1>3, <1>4, <1>5, <1>6, <1>7 DEF TransferInv

\* Every step keeps TransferInv, and what is settled.
LEMMA TransferNext ==
  ASSUME TypeInv, TransferInv, [Next]_vars, "LATE" \notin Faults
  PROVE  TransferInv' /\ StaySettled
  <1>1. CASE OtherConcluded \/ SenderCancels \/ \E m \in net : Lose(m)
    BY <1>1, SenderOtherMoves
  <1>2. CASE CloseSender \/ CloseReceiver
    BY <1>2, CloseSenderMoves, CloseReceiverMoves
  <1>3. ASSUME NEW s \in Segment, Watchdog(s) \/ Thread(s) \/ ReceiverCancels(s)
        PROVE  TransferInv' /\ StaySettled
    BY <1>3, SenderTimeoutMoves, ReceiverTimeoutMoves, AssembleMoves, AssembleStoreMoves,
       AdvertiseMoves DEF Watchdog, Thread, SenderTimeout, AdvertiseJob
  <1>4. ASSUME NEW m \in net, Receive(m) PROVE TransferInv' /\ StaySettled
    BY <1>4, ReceiveRequestMoves, ReceiveProofMoves, ReceiveRejectionMoves, AcceptMoves,
       ReceivePartMoves, ReceiverPacketMoves DEF Receive
  <1>5. CASE UNCHANGED vars
    BY <1>5 DEF vars, StaySettled, Settled, TransferInv, OneAtATime, Untouched, Started, ListedOnce, CompleteIsStored,
       ProofsAreTrue, NotAdvertisedAgain, Arrived, Past, StoredOnce, FileInOrder, Segment,
       Segments, Advertisement
  <1> QED BY <1>1, <1>2, <1>3, <1>4, <1>5 DEF Next

\* As long as no advertisement comes later than what follows it, the segments are
\* stored in order and once each, and what the sender takes for complete is
\* stored: a segment is assembled by one thread only, and never accepted again
\* after it arrived (accept(), assemble(), validate_proof()).
THEOREM StoredInOrder == "LATE" \notin Faults => (Spec => []TransferInv)
  <1> SUFFICES ASSUME "LATE" \notin Faults PROVE Spec => []TransferInv
    OBVIOUS
  <1>1. Init => TypeInv /\ TransferInv BY TypeInit, TransferInit
  <1>2. TypeInv /\ TransferInv /\ [Next]_vars => TypeInv' /\ TransferInv'
    BY TypeNext, TransferNext
  <1> QED BY <1>1, <1>2, PTL DEF Spec

-----------------------------------------------------------------------------
(***************************************************************************)
(* The transfer implements Transfer.                                       *)
(***************************************************************************)

\* There is one segment that is told of first.
LEMMA FirstToldIs ==
  ASSUME TypeInv
  PROVE  /\ \A s \in Segment : TellsFirst(s) => FirstTold = Head(out[s].told)
         /\ (\A s \in Segment : ~TellsFirst(s)) => FirstTold = "none"
  <1>1. ASSUME NEW s \in Segment, NEW t \in Segment, TellsFirst(s), TellsFirst(t)
        PROVE  s = t
    BY <1>1, SegmentsType DEF TellsFirst
  <1>2. ASSUME NEW s \in Segment, TellsFirst(s) PROVE FirstTold = Head(out[s].told)
    <2>1. (CHOOSE t \in Segment : TellsFirst(t)) = s BY <1>1, <1>2
    <2> QED BY <1>2, <2>1 DEF FirstTold
  <1> QED BY <1>2 DEF FirstTold

\* The same of the state after a step.
LEMMA FirstToldIsThen ==
  ASSUME TypeInv'
  PROVE  /\ \A s \in Segment' : TellsFirst(s)' => FirstTold' = Head(out'[s].told)
         /\ (\A s \in Segment' : ~TellsFirst(s)') => FirstTold' = "none"
  <1>1. ASSUME NEW s \in Segment', NEW t \in Segment', TellsFirst(s)', TellsFirst(t)'
        PROVE  s = t
    <2>1. Segment' \subseteq Nat
      BY SizesAssumption DEF TypeInv, TypeOK, Segment, Segments
    <2> QED BY <1>1, <2>1 DEF TellsFirst
  <1>2. ASSUME NEW s \in Segment', TellsFirst(s)' PROVE FirstTold' = Head(out'[s].told)
    <2>1. (CHOOSE t \in Segment' : TellsFirst(t)') = s BY <1>1, <1>2
    <2> QED BY <1>2, <2>1 DEF FirstTold
  <1> QED BY <1>2 DEF FirstTold

\* A step that tells of one segment, of which no later one is told, changes what
\* is told first only if nothing was.
LEMMA TellsOnce ==
  ASSUME TypeInv, TypeInv', UNCHANGED parts, NEW x \in Segment, NEW what,
         \A t \in Segment : t # x => out'[t].told = out[t].told,
         \A t \in Segment : t > x => out[t].told = <<>>,
         out'[x].told = out[x].told \/ out'[x].told = Append(out[x].told, what)
  PROVE  FirstTold' = FirstTold \/ (FirstTold = "none" /\ FirstTold' = what)
  <1>1. Segment' = Segment BY DEF Segment, Segments
  <1>2. \A s \in Segment : s \in Nat /\ out[s].told \in Seq(Status)
    BY SegmentsType DEF TypeInv, TypeOK, Outgoing
  <1>3. CASE \E s \in Segment : TellsFirst(s)
    <2>1. PICK s \in Segment : TellsFirst(s) BY <1>3
    <2>2. s <= x BY <1>2, <2>1 DEF TellsFirst
    <2>3. out'[s].told # <<>> /\ Head(out'[s].told) = Head(out[s].told)
      <3>1. out[s].told # <<>> /\ out[s].told \in Seq(Status) BY <1>2, <2>1 DEF TellsFirst
      <3>2. CASE out'[s].told = out[s].told BY <3>1, <3>2
      <3>3. CASE out'[s].told = Append(out[s].told, what)
        <4>1. Append(out[s].told, what) \in Seq(Status \cup {what})
          BY <3>1, AppendProperties
        <4> QED BY <3>1, <3>3, <4>1
      <3> QED BY <3>2, <3>3
    <2>4. TellsFirst(s)' BY <1>1, <1>2, <2>1, <2>2, <2>3 DEF TellsFirst
    <2>5. FirstTold' = Head(out'[s].told)
      BY <1>1, <2>4, FirstToldIsThen
    <2> QED BY <2>1, <2>3, <2>5, FirstToldIs
  <1>4. CASE \A s \in Segment : ~TellsFirst(s)
    <2>1. \A s \in Segment : out[s].told = <<>>
      <3> DEFINE T == {s \in Segment : out[s].told # <<>>}
      <3>1. SUFFICES ASSUME T # {} PROVE FALSE
        OBVIOUS
      <3>2. PICK n \in T : \A k \in T : n <= k
        BY <1>2, <3>1, SmallestExists
      <3> QED BY <1>4, <3>2 DEF TellsFirst
    <2>2. FirstTold = "none" BY <1>4, FirstToldIs
    <2>3. CASE out'[x].told = <<>>
      <3>1. \A s \in Segment : ~TellsFirst(s)' BY <2>1, <2>3 DEF TellsFirst
      <3> QED BY <1>1, <2>2, <3>1, FirstToldIsThen
    <2>4. CASE out'[x].told # <<>>
      <3>1. out'[x].told = <<what>>
        <4>1. out[x].told = <<>> /\ Append(<<>>, what) = <<what>> BY <2>1
        <4> QED BY <2>4, <4>1
      <3>2. TellsFirst(x)' BY <1>1, <1>2, <2>1, <2>4 DEF TellsFirst
      <3>3. FirstTold' = Head(<<what>>) BY <1>1, <3>1, <3>2, FirstToldIsThen
      <3> QED BY <2>2, <3>3
    <2> QED BY <2>3, <2>4
  <1> QED BY <1>3, <1>4

\* Nothing has been told of the segments after one that is not complete.
LEMMA LaterUntold ==
  ASSUME TypeInv, TransferInv, NEW x \in Segment, out[x].status # "COMPLETE"
  PROVE  \A t \in Segment : t > x => ~Started(t) /\ out[t].told = <<>>
  <1>1. \A t \in Segment : t > x => x \in 1 .. t - 1
    BY SegmentsType DEF Segment
  <1>2. \A t \in Segment : t > x => ~Started(t) BY <1>1 DEF Started
  <1> QED BY <1>2 DEF TransferInv, OneAtATime, Untouched, NewOutgoing

\* What the sender does to one segment that is not complete is a failure or nothing.
LEMMA SenderFails ==
  ASSUME TypeInv, TransferInv, TypeInv', UNCHANGED <<parts, file>>,
         NEW x \in Segment, out[x].status # "COMPLETE",
         \A t \in Segment : t # x => out'[t].told = out[t].told,
         \E w \in {"FAILED", "REJECTED"} :
           out'[x].told = out[x].told \/ out'[x].told = Append(out[x].told, w)
  PROVE  Promise!Fail \/ UNCHANGED Promise!vars
  <1>1. PICK w \in {"FAILED", "REJECTED"} :
          FirstTold' = FirstTold \/ (FirstTold = "none" /\ FirstTold' = w)
    BY TellsOnce, LaterUntold
  <1> QED BY <1>1 DEF Promise!Fail, Promise!vars, Segments

\* A step in which the sender's Resources stay the same tells nothing.
LEMMA NothingTold ==
  ASSUME UNCHANGED <<parts, out>>
  PROVE  FirstTold' = FirstTold /\ Segments' = Segments
  BY DEF FirstTold, TellsFirst, Segment, Segments

\* cancel() tells of a failure at most, and stores nothing.
LEMMA CancelOutgoingTells ==
  ASSUME TypeInv, TransferInv, TypeInv', NEW s \in Segment, CancelOutgoing(s),
         UNCHANGED <<parts, file>>, out[s].status \in Open
  PROVE  Promise!Fail \/ UNCHANGED Promise!vars
  <1>1. out[s] \in Outgoing BY DEF TypeInv, TypeOK
  <1>2. /\ out'[s].told = Append(out[s].told, "FAILED")
        /\ \A t \in Segment : t # s => out'[t] = out[t]
    BY <1>1 DEF CancelOutgoing, Ended, Cancelled, NewOutgoing, Outgoing, TypeInv, TypeOK
  <1>3. out[s].status # "COMPLETE" BY DEF Open, Waiting
  <1> QED BY <1>2, <1>3, SenderFails

\* The advertising thread tells nothing.
LEMMA AdvertiseTells ==
  ASSUME TypeInv, NEW s \in Segment, AdvertiseJob(s) \/ AdvertiseQueued(s) \/ OtherConcluded
  PROVE  UNCHANGED Promise!vars
  <1> USE DEF senderKeeps
  <1>1. out[s] \in Outgoing BY DEF TypeInv, TypeOK
  <1>2. \A t \in Segment : out'[t].told = out[t].told
    <2>1. \A t \in Segment : t # s => out'[t] = out[t]
      BY DEF AdvertiseJob, AdvertiseSend, AdvertiseRegister, AdvertiseQueued, OtherConcluded,
         TypeInv, TypeOK
    <2>2. CASE AdvertiseQueued(s) \/ OtherConcluded
      BY <1>1, <2>1, <2>2 DEF AdvertiseQueued, OtherConcluded, Outgoing, TypeInv, TypeOK
    <2>3. CASE AdvertiseSend(s)
      BY <1>1, <2>1, <2>3 DEF AdvertiseSend, Outgoing, TypeInv, TypeOK
    <2>4. CASE AdvertiseRegister(s)
      BY <1>1, <2>1, <2>4 DEF AdvertiseRegister, Outgoing, TypeInv, TypeOK
    <2> QED BY <2>2, <2>3, <2>4 DEF AdvertiseJob
  <1>3. UNCHANGED <<parts, file>>
    BY DEF AdvertiseJob, AdvertiseSend, AdvertiseRegister, AdvertiseQueued, OtherConcluded
  <1>4. Segment' = Segment BY <1>3 DEF Segment, Segments
  <1>5. (\A t \in Segment : TellsFirst(t)' <=> TellsFirst(t)) BY <1>2, <1>4 DEF TellsFirst
  <1>6. FirstTold' = FirstTold BY <1>2, <1>4, <1>5 DEF FirstTold
  <1> QED BY <1>3, <1>6 DEF Promise!vars, Segments

\* The sender's watchdog tells of a failure at most.
LEMMA SenderTimeoutTells ==
  ASSUME TypeInv, TransferInv, TypeInv', NEW s \in Segment, SenderTimeout(s)
  PROVE  Promise!Fail \/ UNCHANGED Promise!vars
  <1> USE DEF senderKeeps
  <1>1. out[s] \in Outgoing BY DEF TypeInv, TypeOK
  <1>2. out[s].status \in {"ADVERTISED", "TRANSFERRING", "AWAITING_PROOF"} /\ UNCHANGED <<parts, file>>
    BY DEF SenderTimeout, SenderTimeoutAdvertised, SenderTimeoutTransferring, SenderTimeoutProof
  <1>3. CASE CancelOutgoing(s)
    BY <1>2, <1>3, CancelOutgoingTells DEF Open, Waiting
  <1>4. CASE out' = [out EXCEPT ![s].retries = @ - 1]
    <2>1. out'[s].told = out[s].told /\ \A t \in Segment : t # s => out'[t] = out[t]
      BY <1>1, <1>4 DEF Outgoing, TypeInv, TypeOK
    <2> QED BY <1>2, <2>1, SenderFails
  <1> QED
    BY <1>3, <1>4 DEF SenderTimeout, SenderTimeoutAdvertised, SenderTimeoutTransferring,
       SenderTimeoutProof

\* request() tells of a failure at most.
LEMMA ReceiveRequestTells ==
  ASSUME TypeInv, TransferInv, TypeInv', NEW m \in net, ReceiveRequest(m)
  PROVE  Promise!Fail \/ UNCHANGED Promise!vars
  <1> USE DEF senderKeeps
  <1> DEFINE s       == m.seg
             index   == PartIndex(s, m.last)
             floor   == Floor(index)
             sent    == out[s].sent \cup Found(s, m.asked)
             serving == [out[s] EXCEPT !.status = "TRANSFERRING", !.retries = MAX_RETRIES,
                                       !.sent = sent]
             moved   == [serving EXCEPT !.floor = floor]
             served(r) == IF Cardinality(sent) = parts[s]
                            THEN [r EXCEPT !.status = "AWAITING_PROOF",
                                           !.retries = PROOF_RETRIES] ELSE r
  <1>1. s \in Segment /\ s \in outgoing BY DEF ReceiveRequest, TypeInv, TypeOK, Message
  <1>2. out[s] \in Outgoing /\ out[s].status # "COMPLETE"
    BY <1>1 DEF TypeInv, TypeOK, TransferInv, CompleteIsStored
  <1>3. /\ serving.told = out[s].told /\ served(serving).told = out[s].told
        /\ served(moved).told = out[s].told /\ serving.status = "TRANSFERRING"
    BY <1>2 DEF Outgoing
  <1>4. Ended(Cancelled(serving)).told = Append(out[s].told, "FAILED")
    <2>1. Cancelled(serving).told = Append(out[s].told, "FAILED")
      BY <1>2, <1>3 DEF Cancelled, Outgoing, Open, Waiting
    <2> HIDE DEF serving
    <2> QED BY <2>1 DEF Ended, NewOutgoing
  <1>5. PICK q \in {served(serving), served(moved), Ended(Cancelled(serving))} :
          out' = [out EXCEPT ![s] = q]
    BY DEF ReceiveRequest
  <1> HIDE DEF s, served, serving, moved
  <1>6. out'[s].told \in {out[s].told, Append(out[s].told, "FAILED")}
    BY <1>1, <1>3, <1>4, <1>5 DEF TypeInv, TypeOK
  <1>7. \A t \in Segment : t # s => out'[t] = out[t] BY <1>5 DEF TypeInv, TypeOK
  <1>8. UNCHANGED <<parts, file>> BY DEF ReceiveRequest
  <1> QED BY <1>1, <1>2, <1>6, <1>7, <1>8, SenderFails

\* _rejected() tells of the rejection.
LEMMA ReceiveRejectionTells ==
  ASSUME TypeInv, TransferInv, TypeInv', NEW m \in net, ReceiveRejection(m)
  PROVE  Promise!Fail \/ UNCHANGED Promise!vars
  <1> USE DEF senderKeeps
  <1> DEFINE s == m.seg
             told == [out[s] EXCEPT !.status = "REJECTED", !.told = Append(@, "REJECTED")]
  <1>1. s \in Segment /\ s \in outgoing BY DEF ReceiveRejection, TypeInv, TypeOK, Message
  <1>2. out[s] \in Outgoing /\ out[s].status # "COMPLETE"
    BY <1>1 DEF TypeInv, TypeOK, TransferInv, CompleteIsStored
  <1>3. Ended(told).told = Append(out[s].told, "REJECTED")
    BY <1>2 DEF Ended, NewOutgoing, Outgoing
  <1>4. out' = [out EXCEPT ![s] = Ended(told)] BY DEF ReceiveRejection
  <1> HIDE DEF told, s
  <1>5. /\ out'[s].told = Append(out[s].told, "REJECTED")
        /\ \A t \in Segment : t # s => out'[t] = out[t]
    BY <1>1, <1>3, <1>4 DEF TypeInv, TypeOK
  <1>6. UNCHANGED <<parts, file>> BY DEF ReceiveRejection
  <1> QED BY <1>1, <1>2, <1>5, <1>6, SenderFails

\* The proof of the last segment confirms the transfer, which is then stored.
LEMMA ReceiveProofTells ==
  ASSUME TypeInv, TransferInv, TypeInv', NEW m \in net, ReceiveProof(m)
  PROVE  Promise!Confirm \/ UNCHANGED Promise!vars
  <1> USE DEF senderKeeps
  <1> DEFINE s == m.seg
             told == IF s = Segments THEN Append(out[s].told, "COMPLETE") ELSE out[s].told
             done == [out[s] EXCEPT !.status = "COMPLETE", !.told = told]
  <1>1. s \in Segment /\ s \in outgoing /\ s \in cached
    BY DEF ReceiveProof, TypeInv, TypeOK, Message, TransferInv, ProofsAreTrue
  <1>2. /\ \A t \in Segment : out[t] \in Outgoing
        /\ out[s].status # "COMPLETE"
    BY <1>1 DEF TypeInv, TypeOK, TransferInv, CompleteIsStored
  <1>3. Ended(done).told = told BY <1>1, <1>2 DEF Ended, NewOutgoing, Outgoing
  <1>4. out' = [t \in Segment |-> IF t = s THEN Ended(done)
                                  ELSE IF t = s + 1 THEN [out[t] EXCEPT !.job = "waits"]
                                  ELSE out[t]]
    BY DEF ReceiveProof
  <1>5. UNCHANGED <<parts, file>> BY DEF ReceiveProof
  <1> HIDE DEF done, s
  <1>6. /\ out'[s].told = told
        /\ \A t \in Segment : t # s => out'[t].told = out[t].told
    BY <1>1, <1>2, <1>3, <1>4 DEF Outgoing
  <1>7. CASE s = Segments
    <2>1. FirstTold' = FirstTold \/ (FirstTold = "none" /\ FirstTold' = "COMPLETE")
      BY <1>1, <1>2, <1>5, <1>6, <1>7, TellsOnce, LaterUntold
    <2>2. Len(file) = Segments
      <3>1. /\ cached \subseteq 1 .. Len(file) /\ Len(file) <= Segments /\ Len(file) \in Nat
            /\ Segments \in Nat
        BY SegmentsType DEF TransferInv, FileInOrder, TypeInv, TypeOK
      <3> QED BY <1>1, <1>7, <3>1
    <2> QED BY <1>5, <2>1, <2>2 DEF Promise!Confirm, Promise!vars, Segments
  <1>8. CASE s # Segments
    <2>1. FirstTold' = FirstTold
      <3>1. \A t \in Segment : out'[t].told = out[t].told BY <1>6, <1>8
      <3>2. Segment' = Segment BY <1>5 DEF Segment, Segments
      <3>3. \A t \in Segment : TellsFirst(t)' <=> TellsFirst(t) BY <3>1, <3>2 DEF TellsFirst
      <3> QED BY <3>1, <3>2, <3>3 DEF FirstTold
    <2> QED BY <1>5, <2>1 DEF Promise!vars, Segments
  <1> QED BY <1>7, <1>8

\* The closing link cancels the one segment that is on its way, if any.
LEMMA CloseSenderTells ==
  ASSUME TypeInv, TransferInv, TypeInv', CloseSender
  PROVE  Promise!Fail \/ UNCHANGED Promise!vars
  <1>1. PICK some \in Walked(outgoing, out) :
          out' = [s \in Segment |-> IF s \in some THEN Ended(Cancelled(out[s])) ELSE out[s]]
    BY DEF CloseSender
  <1>2. \A s \in some : s \in outgoing /\ s \in Segment /\ out[s].status \in Open
    BY DEF Walked, TypeInv, TypeOK
  <1>3. UNCHANGED <<parts, file>> BY DEF CloseSender
  <1>4. CASE some = {}
    <2>1. out' = [s \in Segment |-> out[s]] BY <1>1, <1>4
    <2>2. out' = out BY <2>1 DEF TypeInv, TypeOK
    <2> QED BY <1>3, <2>2, NothingTold DEF Promise!vars
  <1>5. CASE some # {}
    <2>1. PICK x : x \in some BY <1>5
    <2>2. out[x].status # "COMPLETE" /\ out[x] \in Outgoing
      BY <1>2, <2>1 DEF Open, Waiting, TypeInv, TypeOK
    <2>3. \A t \in some : t = x
      <3> SUFFICES ASSUME NEW t \in some, t # x PROVE FALSE
        OBVIOUS
      <3>1. Started(x) /\ Started(t) /\ out[t].status # "COMPLETE"
        BY <1>2, <2>1, TraceIsStarted DEF TransferInv, Open, Waiting
      <3>2. t > x \/ x > t BY <1>2, <2>1, SegmentsType
      <3> QED BY <1>2, <2>1, <2>2, <3>1, <3>2, LaterUntold
    <2>4. out'[x].told = Append(out[x].told, "FAILED")
      <3>1. out'[x] = Ended(Cancelled(out[x])) BY <1>1, <1>2, <2>1
      <3>2. Cancelled(out[x]).told = Append(out[x].told, "FAILED")
        BY <1>2, <2>1, <2>2 DEF Cancelled, Outgoing
      <3> QED BY <3>1, <3>2 DEF Ended, NewOutgoing
    <2>5. \A t \in Segment : t # x => out'[t].told = out[t].told BY <1>1, <2>3
    <2> QED BY <1>2, <1>3, <2>1, <2>2, <2>4, <2>5, SenderFails
  <1> QED BY <1>4, <1>5

\* assemble() stores the next segment.
LEMMA AssembleStoreStores ==
  ASSUME TypeInv, TransferInv, NEW s \in Segment, AssembleStore(s)
  PROVE  Promise!Store
  <1>1. s = Len(file) + 1 BY StoresNext DEF AssembleStore
  <1>2. UNCHANGED <<parts, out>> /\ file' = Append(file, s) BY DEF AssembleStore
  <1>3. Len(file) < Segments
    BY <1>1, SegmentsType DEF Segment, TypeInv, TypeOK
  <1> QED BY <1>1, <1>2, <1>3, NothingTold DEF Promise!Store

\* What the receiver does besides, and what the network does, is not seen.
LEMMA Unseen ==
  ASSUME UNCHANGED <<parts, out, file>>
  PROVE  UNCHANGED Promise!vars
  BY NothingTold DEF Promise!vars

\* Every step is one of Transfer, or leaves what it is about alone.
LEMMA PromiseStep ==
  ASSUME TypeInv, TransferInv, TypeInv', [Next]_vars
  PROVE  [Promise!Next]_(Promise!vars)
  <1> USE DEF senderKeeps, receiverKeeps, Promise!Next
  <1>1. CASE OtherConcluded
    BY <1>1, FirstStarted, AdvertiseTells
  <1>2. CASE SenderCancels
    BY <1>2, FirstStarted, CancelOutgoingTells DEF SenderCancels
  <1>3. CASE CloseSender
    BY <1>3, CloseSenderTells
  <1>4. CASE CloseReceiver \/ \E m \in net : Lose(m)
    <2>1. UNCHANGED <<parts, out, file>> BY <1>4 DEF CloseReceiver, Lose
    <2> QED BY <2>1, Unseen
  <1>5. ASSUME NEW s \in Segment, Watchdog(s) \/ Thread(s) \/ ReceiverCancels(s)
        PROVE  [Promise!Next]_(Promise!vars)
    <2>1. CASE SenderTimeout(s) BY <2>1, SenderTimeoutTells
    <2>2. CASE AdvertiseJob(s) \/ AdvertiseQueued(s) BY <2>2, AdvertiseTells
    <2>3. CASE AssembleStore(s) BY <2>3, AssembleStoreStores
    <2>4. CASE \/ ReceiverTimeout(s) \/ WatchdogEnds(s) \/ AssembleStart(s) \/ AssembleFail(s)
               \/ AssembleConclude(s) \/ ReceiverCancels(s)
      <3>1. UNCHANGED <<parts, out, file>>
        BY <2>4 DEF ReceiverTimeout, WatchdogEnds, AssembleStart, AssembleFail,
           AssembleConclude, ReceiverCancels
      <3> QED BY <3>1, Unseen
    <2> QED
      BY <1>5, <2>1, <2>2, <2>3, <2>4 DEF Watchdog, Thread, SenderTimeout, AdvertiseJob
  <1>6. ASSUME NEW m \in net, Receive(m)
        PROVE  [Promise!Next]_(Promise!vars)
    <2>1. CASE ReceiveRequest(m) BY <2>1, ReceiveRequestTells
    <2>2. CASE ReceiveProof(m) BY <2>2, ReceiveProofTells
    <2>3. CASE ReceiveRejection(m) BY <2>3, ReceiveRejectionTells
    <2>4. CASE \/ Accept(m) \/ Reject(m) \/ ReceivePart(m) \/ ReceiveHashmap(m)
               \/ ReceiveCancel(m) \/ ReceiveCacheRequest(m)
      <3>1. UNCHANGED <<parts, out, file>>
        BY <2>4 DEF Accept, Reject, ReceivePart, ReceiveHashmap, ReceiveCancel, ReceiveCacheRequest
      <3> QED BY <3>1, Unseen
    <2> QED BY <1>6, <2>1, <2>2, <2>3, <2>4 DEF Receive
  <1>7. CASE UNCHANGED vars
    BY <1>7, Unseen DEF vars
  <1> QED BY <1>1, <1>2, <1>3, <1>4, <1>5, <1>6, <1>7 DEF Next

\* Nothing is stored and nothing told at the start.
LEMMA PromiseInit == Init => Promise!Init
  <1> SUFFICES ASSUME Init PROVE Promise!Init
    OBVIOUS
  <1>1. TypeInv BY TypeInit
  <1>2. \A s \in Segment : out[s].told = <<>> BY DEF Init, NewOutgoing
  <1>3. FirstTold = "none" BY <1>2 DEF FirstTold, TellsFirst
  <1> QED BY <1>1, <1>3, SegmentsType DEF Promise!Init, Init, Segments

\* As long as no advertisement comes later than what follows it, a transfer of any
\* size, with any windows and retries, any loss and order of the other packets, any
\* cancellation and closing, keeps what Transfer promises: segments in order and
\* once each, and an outcome that is true (RNS/Resource.py).
THEOREM ImplementsTransfer == "LATE" \notin Faults => (Spec => TransfersAsPromised)
  <1> SUFFICES ASSUME "LATE" \notin Faults PROVE Spec => TransfersAsPromised
    OBVIOUS
  <1>1. Init => TypeInv /\ TransferInv BY TypeInit, TransferInit
  <1>2. TypeInv /\ TransferInv /\ [Next]_vars => TypeInv' /\ TransferInv'
    BY TypeNext, TransferNext
  <1>3. TypeInv /\ TransferInv /\ TypeInv' /\ [Next]_vars => [Promise!Next]_(Promise!vars)
    BY PromiseStep
  <1> QED BY <1>1, <1>2, <1>3, PromiseInit, PTL DEF Spec, TransfersAsPromised, Promise!Spec

-----------------------------------------------------------------------------
(***************************************************************************)
(* A resource that leaves the receiver's list has an outcome.              *)
(***************************************************************************)

\* The life of a Resource at the receiver: collected while it is listed, ended
\* when it is not, and with an outcome if it was ever used.
Lived(r, s, listed) ==
  /\ r.assembly = "concludes" => r.status \in {"COMPLETE", "CORRUPT"}
  /\ listed => r.status \in {"TRANSFERRING", "ASSEMBLING"} \/ r.assembly = "concludes"
  /\ ~listed =>
       /\ r.status \in {"NONE", "FAILED", "COMPLETE", "CORRUPT"}
       /\ r.assembly = "starts" => r.status = "FAILED"
       /\ r.status # "NONE" => \/ r.told # <<>>
                               \/ s < Segments /\ r.status \in {"COMPLETE", "CORRUPT"}
                               \/ r.assembly \in {"joins", "concludes"}

LivedInv == \A s \in Segment : Lived(inc[s], s, s \in incoming)

\* One Resource at the receiver changes, and its place in the list.
LEMMA LivedMoves ==
  ASSUME TypeInv, LivedInv, UNCHANGED parts, NEW s \in Segment, NEW q,
         inc' = [inc EXCEPT ![s] = q], Lived(q, s, s \in incoming'),
         \A t : t # s => (t \in incoming' <=> t \in incoming)
  PROVE  LivedInv'
  <1>1. inc'[s] = q /\ \A t \in Segment : t # s => inc'[t] = inc[t]
    BY DEF TypeInv, TypeOK
  <1>2. \A t, r, l : Lived(r, t, l)' <=> Lived(r', t', l')
    BY DEF Lived, Segments
  <1> QED BY <1>1 DEF LivedInv, Lived, Segment, Segments

\* cancel() of a resource that is under way leaves it with an outcome.
LEMMA LivedCancelled ==
  ASSUME TypeInv, NEW s \in Segment, NEW r \in Receiving(s),
         r.status \in {"TRANSFERRING", "ASSEMBLING"}, r.assembly # "concludes"
  PROVE  Lived(Dropped(Cancelled(r)), s, FALSE)
  <1> DEFINE c == [r EXCEPT !.status = "FAILED", !.told = Append(@, "FAILED")]
  <1>1. c.status = "FAILED" /\ c.told = Append(r.told, "FAILED") /\ c.assembly = r.assembly
    BY DEF Receiving, Incoming
  <1>2. Append(r.told, "FAILED") # <<>>
    <2>1. r.told \in Seq(Status) /\ "FAILED" \in Status BY DEF Receiving, Incoming, Status
    <2> QED BY <2>1, AppendProperties
  <1>3. Cancelled(r) = c BY DEF Cancelled, Open, Waiting
  <1> HIDE DEF c
  <1>4. Dropped(c) = [NewIncoming EXCEPT !.status = c.status, !.assembly = c.assembly, !.told = c.told]
    BY <1>1 DEF Dropped, Open, Waiting
  <1>5. /\ Dropped(c).status = "FAILED" /\ Dropped(c).assembly = r.assembly
        /\ Dropped(c).told # <<>>
    BY <1>1, <1>2, <1>4 DEF NewIncoming
  <1> QED BY <1>3, <1>5 DEF Lived

\* request_next() keeps a resource under way, or ends it on a closed link.
LEMMA LivedRequested ==
  ASSUME TypeInv, NEW s \in Segment, NEW r \in Receiving(s),
         r.status = "TRANSFERRING", r.assembly # "concludes"
  PROVE  /\ "receiver" \in link => Lived(NextRequested(r, s), s, TRUE)
         /\ Requests(r) /\ "receiver" \notin link => Lived(NextRequested(r, s), s, FALSE)
  <1> DEFINE asking == [r EXCEPT !.outstanding = Cardinality(Asked(r, s)),
                                 !.waiting = Unknown(r, s) # {}]
  <1>1. /\ asking.status = "TRANSFERRING" /\ asking.assembly = r.assembly
        /\ asking \in Receiving(s)
    <2>1. Cardinality(Asked(r, s)) \in Int /\ (Unknown(r, s) # {}) \in BOOLEAN
      BY AskedType
    <2> QED BY <2>1 DEF Receiving, Incoming
  <1>2. NextRequested(r, s) = IF ~Requests(r) THEN r
                              ELSE IF "receiver" \in link THEN asking
                              ELSE Dropped(Cancelled(asking))
    BY DEF NextRequested
  <1> HIDE DEF asking
  <1>3. Lived(r, s, TRUE) /\ Lived(asking, s, TRUE) BY <1>1 DEF Lived
  <1>4. Lived(Dropped(Cancelled(asking)), s, FALSE) BY <1>1, LivedCancelled
  <1> QED BY <1>2, <1>3, <1>4

\* cancel() of whatever the receiver's list holds.
LEMMA CancelIncomingLived ==
  ASSUME TypeInv, LivedInv, UNCHANGED parts, NEW s \in incoming, CancelIncoming(s)
  PROVE  LivedInv'
  <1> DEFINE q == IF inc[s].status \in Open THEN Dropped(Cancelled(inc[s])) ELSE inc[s]
  <1>1. s \in Segment /\ inc[s] \in Receiving(s) /\ Lived(inc[s], s, TRUE)
    BY IncType DEF TypeInv, TypeOK, LivedInv
  <1>2. CASE inc[s].status \in Open
    <2>1. inc[s].status \in {"TRANSFERRING", "ASSEMBLING"} /\ inc[s].assembly # "concludes"
      BY <1>1, <1>2 DEF Lived, Open, Waiting
    <2>2. Lived(q, s, FALSE) BY <1>1, <1>2, <2>1, LivedCancelled
    <2>3. inc' = [inc EXCEPT ![s] = q] /\ incoming' = incoming \ {s}
      BY <1>2 DEF CancelIncoming
    <2> HIDE DEF q
    <2>4. s \notin incoming' BY <2>3
    <2>5. Lived(q, s, s \in incoming') BY <2>2, <2>4 DEF Lived
    <2> QED BY <1>1, <2>3, <2>5, LivedMoves
  <1>3. CASE inc[s].status \notin Open
    <2>1. inc' = [inc EXCEPT ![s] = inc[s]] /\ incoming' = incoming
      BY <1>3 DEF CancelIncoming
    <2>2. Lived(inc[s], s, s \in incoming') BY <1>1, <2>1 DEF LivedInv
    <2> QED BY <1>1, <2>1, <2>2, LivedMoves
  <1> QED BY <1>2, <1>3

\* accept() starts a new life.
LEMMA AcceptLived ==
  ASSUME TypeInv, LivedInv, NEW m \in net, Accept(m)
  PROVE  LivedInv'
  <1> USE DEF receiverKeeps
  <1> DEFINE s     == m.seg
             fresh == [NewIncoming EXCEPT !.window = IF last = 0 THEN WINDOW ELSE last,
                                          !.watch = TRUE]
             first == Mapped(fresh, s, 0)
             q     == NextRequested(first, s)
  <1>1. s \in Segment /\ last \in Nat BY DEF Accept, TypeInv, TypeOK, Message
  <1>2. fresh \in Receiving(s) /\ fresh.assembly = "none"
    <2>1. NewIncoming \in Receiving(s) /\ NewIncoming.assembly = "none"
      BY <1>1, NewIncomingType DEF NewIncoming
    <2>2. (IF last = 0 THEN WINDOW ELSE last) \in Nat BY <1>1, ConstantsType
    <2>3. ASSUME NEW w \in Nat, NEW r \in Receiving(s), r.assembly = "none"
          PROVE  LET f == [r EXCEPT !.window = w, !.watch = TRUE]
                 IN  f \in Receiving(s) /\ f.assembly = "none"
      BY <2>3 DEF Receiving, Incoming
    <2> HIDE DEF s
    <2> QED BY <2>1, <2>2, <2>3
  <1>3. 0 \in Nat OBVIOUS
  <1> HIDE DEF fresh, s
  <1>4. first \in Receiving(s) /\ first.status = "TRANSFERRING" /\ first.assembly = "none"
    <2>1. first \in Receiving(s) BY <1>1, <1>2, <1>3, MappedType
    <2> QED BY <1>2, <2>1 DEF Mapped, Receiving, Incoming
  <1>5. /\ "receiver" \in link /\ UNCHANGED parts
        /\ inc' = [inc EXCEPT ![s] = q] /\ incoming' = incoming \cup {s}
    BY DEF Accept, fresh, s
  <1> HIDE DEF first
  <1>6. Lived(q, s, TRUE) BY <1>1, <1>4, <1>5, LivedRequested
  <1> HIDE DEF q
  <1>7. Lived(q, s, s \in incoming') BY <1>5, <1>6 DEF Lived
  <1> QED BY <1>1, <1>5, <1>7, LivedMoves

\* receive_part() finds a resource under way and leaves it so.
LEMMA ReceivedLived ==
  ASSUME TypeInv, NEW s \in Segment, NEW r \in Receiving(s), NEW p \in Nat,
         NEW fast \in BOOLEAN, NEW slow \in BOOLEAN, r.status # "FAILED",
         r.assembly # "concludes"
  PROVE  LET q == Received(r, s, p, fast, slow)
         IN  q.status = "TRANSFERRING" /\ q.assembly # "concludes" /\ q \in Receiving(s)
  <1> DEFINE heard == [r EXCEPT !.retries = MAX_RETRIES,
                                !.window_max = IF fast THEN WINDOW_MAX_FAST ELSE @]
             alive == [heard EXCEPT !.status = "TRANSFERRING"]
             taken == IF p = 0 THEN alive ELSE Taken(alive, s, p)
  <1>1. heard \in Receiving(s) /\ heard.assembly = r.assembly
    BY ConstantsType DEF Receiving, Incoming
  <1>2. /\ alive \in Receiving(s) /\ alive.assembly = r.assembly
        /\ alive.status = "TRANSFERRING"
    <2> HIDE DEF heard
    <2> QED BY <1>1 DEF Receiving, Incoming, Status, Open, Waiting
  <1>3. /\ taken \in Receiving(s) /\ taken.assembly = r.assembly
        /\ taken.status = "TRANSFERRING"
    <2> HIDE DEF alive
    <2>1. Taken(alive, s, p) \in Receiving(s) BY <1>2, TakenType
    <2>2. /\ Taken(alive, s, p).assembly = alive.assembly
          /\ Taken(alive, s, p).status = alive.status
      BY <1>2 DEF Taken, Receiving, Incoming
    <2> QED BY <1>2, <2>1, <2>2
  <1>4. Received(r, s, p, fast, slow) =
          IF Cardinality(taken.got) = parts[s] /\ r.assembly = "none"
            THEN [taken EXCEPT !.assembly = "starts"]
          ELSE IF taken.outstanding = 0 THEN Widened(taken, slow) ELSE taken
    BY DEF Received
  <1> HIDE DEF taken
  <1>5. /\ Widened(taken, slow).status = taken.status
        /\ Widened(taken, slow).assembly = taken.assembly
    BY <1>3 DEF Widened, Receiving, Incoming
  <1>6. LET started == [taken EXCEPT !.assembly = "starts"]
        IN  started.status = taken.status /\ started.assembly = "starts"
    BY <1>3 DEF Receiving, Incoming
  <1> QED BY <1>3, <1>4, <1>5, <1>6, ReceivedType

\* receive(): no packet is handled while an assembly concludes.
LEMMA ReceivePartLived ==
  ASSUME TypeInv, LivedInv, "PREEMPT" \notin Faults, NEW m \in net, ReceivePart(m)
  PROVE  LivedInv'
  <1> USE DEF receiverKeeps
  <1>1. PICK fast \in BOOLEAN, slow \in BOOLEAN :
          LET got(s)  == Received(inc[s], s, IF s = m.seg THEN m.part ELSE 0, fast, slow)
              more(s) == Continues(inc[s], got(s))
          IN  /\ inc' = [s \in Segment |->
                           IF s \notin incoming THEN inc[s]
                           ELSE IF more(s) THEN NextRequested(got(s), s) ELSE got(s)]
    BY DEF ReceivePart
  <1> DEFINE p(s)    == IF s = m.seg THEN m.part ELSE 0
             got(s)  == Received(inc[s], s, p(s), fast, slow)
             more(s) == Continues(inc[s], got(s))
  <1>2. /\ "receiver" \in link /\ UNCHANGED <<parts, incoming>>
        /\ \A s \in Segment : inc[s].assembly # "concludes" /\ p(s) \in Nat
    BY DEF ReceivePart, Undisturbed, TypeInv, TypeOK, Message
  <1>3. \A s \in Segment : inc'[s] = IF s \notin incoming THEN inc[s]
                                     ELSE IF more(s) THEN NextRequested(got(s), s) ELSE got(s)
    BY <1>1
  <1>4. ASSUME NEW s \in Segment, s \in incoming PROVE Lived(inc'[s], s, TRUE)
    <2>1. inc[s] \in Receiving(s) /\ inc[s].status # "FAILED"
      BY <1>2, <1>4, IncType DEF LivedInv, Lived
    <2> HIDE DEF p, more
    <2>2. /\ got(s).status = "TRANSFERRING" /\ got(s).assembly # "concludes"
          /\ got(s) \in Receiving(s)
      BY <1>2, <2>1, ReceivedLived
    <2> HIDE DEF got
    <2>3. Lived(NextRequested(got(s), s), s, TRUE) BY <1>2, <2>2, LivedRequested
    <2>4. Lived(got(s), s, TRUE) BY <2>2 DEF Lived
    <2> QED BY <1>3, <1>4, <2>3, <2>4
  <1> HIDE DEF p, got, more
  <1> QED BY <1>2, <1>3, <1>4 DEF LivedInv, Lived, Segment, Segments

\* hashmap_update_packet(), likewise.
LEMMA ReceiveHashmapLived ==
  ASSUME TypeInv, LivedInv, "PREEMPT" \notin Faults, NEW m \in net, ReceiveHashmap(m)
  PROVE  LivedInv'
  <1> USE DEF receiverKeeps
  <1> DEFINE s     == m.seg
             heard == [inc[s] EXCEPT !.retries = MAX_RETRIES]
             next  == Mapped(heard, s, m.from)
             q     == NextRequested(next, s)
  <1>1. /\ s \in Segment /\ s \in incoming /\ m.from \in Nat /\ "receiver" \in link
        /\ inc[s].assembly # "concludes"
    BY DEF ReceiveHashmap, TypeInv, TypeOK, Message, Undisturbed
  <1>2. inc[s] \in Receiving(s) BY <1>1, IncType
  <1>3. heard \in Receiving(s) /\ heard.assembly = inc[s].assembly
    BY <1>2, ConstantsType DEF Receiving, Incoming
  <1>4. inc' = [inc EXCEPT ![s] = q] /\ UNCHANGED <<parts, incoming>>
    BY DEF ReceiveHashmap
  <1> HIDE DEF heard, s
  <1>5. /\ next \in Receiving(s) /\ next.status = "TRANSFERRING"
        /\ next.assembly = inc[s].assembly
    <2>1. next \in Receiving(s) BY <1>1, <1>3, MappedType
    <2> QED BY <1>3, <2>1 DEF Mapped, Receiving, Incoming
  <1> HIDE DEF next
  <1>6. Lived(q, s, TRUE) BY <1>1, <1>5, LivedRequested
  <1> HIDE DEF q
  <1>7. Lived(q, s, s \in incoming') BY <1>1, <1>4, <1>6 DEF Lived
  <1> QED BY <1>1, <1>4, <1>7, LivedMoves

\* The watchdog asks once more, or gives up.
LEMMA ReceiverTimeoutLived ==
  ASSUME TypeInv, LivedInv, NEW s \in Segment, ReceiverTimeout(s)
  PROVE  LivedInv'
  <1> USE DEF receiverKeeps
  <1> DEFINE retry == [Narrowed(inc[s]) EXCEPT !.retries = @ - 1, !.waiting = FALSE]
             q     == NextRequested(retry, s)
  <1>1. inc[s] \in Receiving(s) /\ inc[s].status = "TRANSFERRING" /\ Lived(inc[s], s, s \in incoming)
    BY IncType DEF ReceiverTimeout, LivedInv
  <1>2. s \in incoming /\ inc[s].assembly # "concludes" BY <1>1 DEF Lived
  <1>3. CASE inc[s].retries > 0
    <2>1. /\ retry \in Receiving(s) /\ retry.status = "TRANSFERRING" /\ ~retry.waiting
          /\ retry.assembly = inc[s].assembly
      <3>1. Narrowed(inc[s]) \in Receiving(s) BY <1>1, WindowType
      <3>2. /\ Narrowed(inc[s]).retries = inc[s].retries
            /\ Narrowed(inc[s]).status = inc[s].status
            /\ Narrowed(inc[s]).assembly = inc[s].assembly
        BY <1>1 DEF Narrowed, Receiving, Incoming
      <3>3. inc[s].retries - 1 \in Nat BY <1>1, <1>3 DEF Receiving, Incoming
      <3>4. ASSUME NEW r \in Receiving(s), r.retries - 1 \in Nat
            PROVE  LET f == [r EXCEPT !.retries = @ - 1, !.waiting = FALSE]
                   IN  /\ f \in Receiving(s) /\ ~f.waiting
                       /\ f.status = r.status /\ f.assembly = r.assembly
        BY <3>4 DEF Receiving, Incoming
      <3> QED BY <1>1, <3>1, <3>2, <3>3, <3>4
    <2>2. /\ inc' = [inc EXCEPT ![s] = q] /\ UNCHANGED parts
          /\ incoming' = IF "receiver" \in link THEN incoming ELSE incoming \ {s}
      BY <1>3 DEF ReceiverTimeout
    <2> HIDE DEF retry
    <2>3. Requests(retry) BY <2>1 DEF Requests
    <2>4. /\ "receiver" \in link => Lived(q, s, TRUE)
          /\ "receiver" \notin link => Lived(q, s, FALSE)
      BY <1>2, <2>1, <2>3, LivedRequested
    <2> HIDE DEF q
    <2>5. Lived(q, s, s \in incoming') BY <1>2, <2>2, <2>4 DEF Lived
    <2> QED BY <2>2, <2>5, LivedMoves
  <1>4. CASE ~(inc[s].retries > 0)
    BY <1>2, <1>4, CancelIncomingLived DEF ReceiverTimeout
  <1> QED BY <1>3, <1>4

\* The assembling thread, the end of a watchdog, and the receiving application.
LEMMA AssembleLived ==
  ASSUME TypeInv, LivedInv, NEW s \in Segment,
         Assemble(s) \/ WatchdogEnds(s) \/ ReceiverCancels(s)
  PROVE  LivedInv'
  <1> USE DEF receiverKeeps
  <1>1. inc[s] \in Receiving(s) /\ Lived(inc[s], s, s \in incoming)
    BY IncType DEF LivedInv
  <1>2. ASSUME NEW a, NEW v
        PROVE  LET q == [inc[s] EXCEPT !.status = v, !.assembly = a]
               IN  q.status = v /\ q.assembly = a /\ q.told = inc[s].told
    BY <1>1 DEF Receiving, Incoming
  <1>3. CASE AssembleStart(s)
    <2> DEFINE q == IF inc[s].status = "FAILED" THEN [inc[s] EXCEPT !.assembly = "ended"]
                    ELSE [inc[s] EXCEPT !.status = "ASSEMBLING", !.assembly = "joins"]
    <2>1. inc[s].assembly = "starts" /\ inc' = [inc EXCEPT ![s] = q] /\ UNCHANGED <<parts, incoming>>
      BY <1>3 DEF AssembleStart
    <2>2. Lived(q, s, s \in incoming)
      <3>1. CASE inc[s].status = "FAILED"
        <4>1. q.status = "FAILED" /\ q.assembly = "ended" /\ q.told = inc[s].told
          BY <1>1, <3>1 DEF Receiving, Incoming
        <4> QED BY <1>1, <2>1, <3>1, <4>1 DEF Lived
      <3>2. CASE inc[s].status # "FAILED"
        <4>1. q.status = "ASSEMBLING" /\ q.assembly = "joins" BY <1>1, <3>2 DEF Receiving, Incoming
        <4>2. s \in incoming BY <1>1, <2>1, <3>2 DEF Lived
        <4> QED BY <4>1, <4>2 DEF Lived
      <3> QED BY <3>1, <3>2
    <2> HIDE DEF q
    <2> QED BY <2>1, <2>2, LivedMoves
  <1>4. CASE AssembleStore(s) \/ AssembleFail(s)
    <2>1. PICK v \in {"COMPLETE", "CORRUPT"} :
            inc' = [inc EXCEPT ![s] = [inc[s] EXCEPT !.status = v, !.assembly = "concludes"]]
      BY <1>4 DEF AssembleStore, AssembleFail
    <2> DEFINE q == [inc[s] EXCEPT !.status = v, !.assembly = "concludes"]
    <2>2. q.status = v /\ q.assembly = "concludes" BY <1>2
    <2>3. Lived(q, s, s \in incoming) BY <2>1, <2>2 DEF Lived
    <2>4. UNCHANGED <<parts, incoming>> BY <1>4 DEF AssembleStore, AssembleFail
    <2> HIDE DEF q
    <2> QED BY <2>1, <2>3, <2>4, LivedMoves DEF q
  <1>5. CASE AssembleConclude(s)
    <2> DEFINE q == [inc[s] EXCEPT !.assembly = "ended",
                       !.told = IF s = Segments THEN Append(@, inc[s].status) ELSE @]
    <2>1. /\ q.assembly = "ended" /\ q.status = inc[s].status
          /\ q.told = IF s = Segments THEN Append(inc[s].told, inc[s].status) ELSE inc[s].told
      BY <1>1 DEF Receiving, Incoming
    <2>2. inc[s].assembly = "concludes" /\ inc' = [inc EXCEPT ![s] = Dropped(q)]
      BY <1>5 DEF AssembleConclude
    <2>3. incoming' = incoming \ {s} /\ UNCHANGED parts BY <1>5 DEF AssembleConclude
    <2>4. inc[s].status \in {"COMPLETE", "CORRUPT"} BY <1>1, <2>2 DEF Lived
    <2>5. s = Segments \/ s < Segments BY SegmentsType DEF Segment
    <2>6. Append(inc[s].told, inc[s].status) # <<>>
      <3>1. inc[s].told \in Seq(Status) /\ inc[s].status \in Status
        BY <1>1 DEF Receiving, Incoming
      <3> QED BY <3>1, AppendProperties
    <2> HIDE DEF q
    <2>7. /\ Dropped(q).assembly = "ended" /\ Dropped(q).status = q.status
          /\ Dropped(q).told = q.told
      BY <2>1, <2>4 DEF Dropped, NewIncoming, Open, Waiting
    <2>8. Lived(Dropped(q), s, s \in incoming')
      BY <2>1, <2>3, <2>4, <2>5, <2>6, <2>7 DEF Lived
    <2>9. \A t : t # s => (t \in incoming' <=> t \in incoming) BY <2>3
    <2> QED BY <2>2, <2>3, <2>8, <2>9, LivedMoves
  <1>6. CASE WatchdogEnds(s)
    <2> DEFINE q == [inc[s] EXCEPT !.watch = FALSE]
    <2>1. q.status = inc[s].status /\ q.assembly = inc[s].assembly /\ q.told = inc[s].told
      BY <1>1 DEF Receiving, Incoming
    <2>2. inc' = [inc EXCEPT ![s] = q] /\ UNCHANGED <<parts, incoming>>
      BY <1>6 DEF WatchdogEnds
    <2> HIDE DEF q
    <2>3. Lived(q, s, s \in incoming) BY <1>1, <2>1 DEF Lived
    <2> QED BY <2>2, <2>3, LivedMoves
  <1>7. CASE ReceiverCancels(s)
    BY <1>7, CancelIncomingLived DEF ReceiverCancels
  <1> QED BY <1>3, <1>4, <1>5, <1>6, <1>7 DEF Assemble

\* The link closes at the receiver: what it cancels has an outcome.
LEMMA CloseReceiverLived ==
  ASSUME TypeInv, LivedInv, CloseReceiver
  PROVE  LivedInv'
  <1>1. PICK some \in Walked(incoming, inc) :
          /\ inc' = [s \in Segment |-> IF s \in some THEN Dropped(Cancelled(inc[s])) ELSE inc[s]]
          /\ incoming' = incoming \ some
    BY DEF CloseReceiver
  <1>2. \A s \in some : s \in incoming /\ s \in Segment /\ inc[s].status \in Open
    BY DEF Walked, TypeInv, TypeOK
  <1>3. ASSUME NEW s \in some PROVE Lived(Dropped(Cancelled(inc[s])), s, FALSE)
    <2>1. s \in Segment /\ inc[s] \in Receiving(s) BY <1>2, <1>3, IncType
    <2>2. inc[s].status \in {"TRANSFERRING", "ASSEMBLING"} /\ inc[s].assembly # "concludes"
      BY <1>2, <1>3 DEF LivedInv, Lived, Open, Waiting
    <2> QED BY <2>1, <2>2, LivedCancelled
  <1>4. UNCHANGED parts BY DEF CloseReceiver
  <1> QED BY <1>1, <1>2, <1>3, <1>4 DEF LivedInv, Lived, Segment, Segments

\* Every step keeps LivedInv.
LEMMA LivedNext ==
  ASSUME TypeInv, LivedInv, [Next]_vars, "PREEMPT" \notin Faults
  PROVE  LivedInv'
  <1> USE DEF senderKeeps, receiverKeeps
  <1>1. ASSUME UNCHANGED <<parts, inc, incoming>> PROVE LivedInv'
    BY <1>1 DEF LivedInv, Lived, Segment, Segments
  <1>2. CASE OtherConcluded \/ SenderCancels \/ CloseSender \/ UNCHANGED vars
    BY <1>1, <1>2 DEF OtherConcluded, SenderCancels, CloseSender, vars
  <1>3. CASE CloseReceiver BY <1>3, CloseReceiverLived
  <1>4. ASSUME NEW s \in Segment, Watchdog(s) \/ Thread(s) \/ ReceiverCancels(s)
        PROVE  LivedInv'
    <2>1. CASE ReceiverTimeout(s) BY <2>1, ReceiverTimeoutLived
    <2>2. CASE Assemble(s) \/ WatchdogEnds(s) \/ ReceiverCancels(s) BY <2>2, AssembleLived
    <2>3. CASE SenderTimeout(s)
      BY <1>1, <2>3 DEF SenderTimeout, SenderTimeoutAdvertised, SenderTimeoutTransferring,
         SenderTimeoutProof
    <2>4. CASE AdvertiseQueued(s) \/ AdvertiseSend(s) \/ AdvertiseRegister(s)
      BY <1>1, <2>4 DEF AdvertiseQueued, AdvertiseSend, AdvertiseRegister
    <2> QED BY <1>4, <2>1, <2>2, <2>3, <2>4 DEF Watchdog, Thread, Assemble, SenderTimeout
  <1>5. ASSUME NEW m \in net, Receive(m) \/ Lose(m) PROVE LivedInv'
    <2>1. CASE ReceiveRequest(m) BY <1>1, <2>1 DEF ReceiveRequest
    <2>2. CASE ReceiveProof(m) \/ ReceiveRejection(m) BY <1>1, <2>2 DEF ReceiveProof, ReceiveRejection
    <2>3. CASE Reject(m) \/ ReceiveCacheRequest(m) BY <1>1, <2>3 DEF Reject, ReceiveCacheRequest
    <2>4. CASE Lose(m) BY <1>1, <2>4 DEF Lose
    <2>5. CASE Accept(m) BY <2>5, AcceptLived
    <2>6. CASE ReceivePart(m) BY <2>6, ReceivePartLived
    <2>7. CASE ReceiveHashmap(m) BY <2>7, ReceiveHashmapLived
    <2>8. CASE ReceiveCancel(m) BY <2>8, CancelIncomingLived DEF ReceiveCancel
    <2> QED BY <1>5, <2>1, <2>2, <2>3, <2>4, <2>5, <2>6, <2>7, <2>8 DEF Receive
  <1> QED BY <1>2, <1>3, <1>4, <1>5 DEF Next

\* Unless packets are handled while a thread concludes, a resource that left the
\* receiver's list has told its outcome, or is about to: neither the closing
\* link, nor a packet that cancels it, nor a watchdog makes it disappear
\* (cancel(), link_closed(), resource_concluded()).
THEOREM LeavesWithOutcomeCorrect ==
  "PREEMPT" \notin Faults => (Spec => []LeavesWithOutcome)
  <1> SUFFICES ASSUME "PREEMPT" \notin Faults PROVE Spec => []LeavesWithOutcome
    OBVIOUS
  <1>1. Init => LivedInv
    BY DEF Init, LivedInv, Lived, NewIncoming
  <1>2. TypeInv /\ LivedInv /\ [Next]_vars => TypeInv' /\ LivedInv'
    BY TypeNext, LivedNext
  <1>3. LivedInv => LeavesWithOutcome
    BY DEF LivedInv, Lived, LeavesWithOutcome
  <1> QED BY <1>1, <1>2, <1>3, TypeInit, PTL DEF Spec

-----------------------------------------------------------------------------
(***************************************************************************)
(* What the receiver asks for, the sender finds.                           *)
(***************************************************************************)

\* No request on its way is overtaken by two updates of the hashmap.
Timely ==
  \A m \in net : m.type = "REQ" /\ m.last # 0 /\ m.seg \in incoming =>
    Cardinality(inc[m.seg].known) <= m.last + HASHMAP_MAX_LEN

\* The hashmap and the parts of r are gapless beginnings, as far as they go ...
Exact(r, s) ==
  LET n == Cardinality(r.known)
  IN  /\ r.known = 1 .. n
      /\ n = parts[s] \/ n % HASHMAP_MAX_LEN = 0
      /\ 1 .. r.height \subseteq r.got
      /\ r.height + 1 \notin r.got
      /\ r.got \subseteq r.known

\* ... its window is one, and it is assembled when it is complete ...
Formed(r, s) ==
  /\ Exact(r, s)
  /\ 1 <= r.window /\ r.window <= WINDOW_MAX
  /\ r.window_max <= WINDOW_MAX /\ 1 <= r.window_min
  /\ r.got = 1 .. parts[s] <=> r.assembly # "none"

\* ... and outstanding_parts is right whenever r waits for a hashmap update.
Counted(r) ==
  /\ r.outstanding >= 0
  /\ r.waiting => r.outstanding = Cardinality(r.known \ r.got)

Active(r) == r.outstanding = 0 => r.waiting \/ r.assembly # "none"

Solid(r, s) == Formed(r, s) /\ Counted(r) /\ Active(r)

Hashes(s) == Cardinality(inc[s].known)

IncomingInv ==
  last <= WINDOW_MAX /\ \A s \in incoming : Solid(inc[s], s) /\ Hashes(s) # 0

\* A request for hashes comes from a receiver that had come to the end of those
\* it knew.
RequestFits(m) ==
  /\ m.last % HASHMAP_MAX_LEN = 0 /\ m.last < parts[m.seg]
  /\ m.seg \in incoming =>
       m.last <= Hashes(m.seg) /\ m.last + 1 <= inc[m.seg].height + WINDOW_MAX

RequestsInv == \A m \in net : m.type = "REQ" /\ m.last # 0 => RequestFits(m)

\* A hashmap update leaves no gap behind what the receiver knows.
UpdateFits(m) ==
  /\ m.from % HASHMAP_MAX_LEN = 0 /\ m.from <= parts[m.seg] /\ Past(m.seg)
  /\ m.seg \in incoming => m.from <= Hashes(m.seg)

UpdatesInv == \A m \in net : m.type = "HMU" => UpdateFits(m)

\* As long as a segment may be advertised, no update of its hashmap was received.
FreshInv ==
  /\ \A s \in Segment : ~Settled(s) => /\ out[s].floor = 0
                                       /\ s \in incoming => Hashes(s) <= HASHMAP_MAX_LEN
  /\ \A m \in net : ~Settled(m.seg) => /\ m.type = "REQ" => m.last <= HASHMAP_MAX_LEN
                                       /\ m.type = "HMU" => m.from <= HASHMAP_MAX_LEN

\* The part of the hashmap the sender searches begins before what the receiver
\* still lacks, and ends after what it knows, or is about to know.
FloorBelow(s) ==
  LET f == out[s].floor
  IN  /\ f <= inc[s].height
      /\ f = 0 \/ f + 1 + WINDOW_MAX <= Hashes(s)
      /\ Hashes(s) <= f + COLLISION_GUARD_SIZE

FloorInv ==
  /\ \A s \in incoming \cap outgoing : FloorBelow(s)
  /\ \A m \in net : m.type = "HMU" /\ m.seg \in incoming \cap outgoing =>
       m.from + HASHMAP_MAX_LEN <= out[m.seg].floor + COLLISION_GUARD_SIZE

DemandInv == IncomingInv /\ RequestsInv /\ UpdatesInv /\ FreshInv /\ FloorInv

-----------------------------------------------------------------------------
(***************************************************************************)
(* One Resource at the receiver.                                           *)
(***************************************************************************)

\* Multiples of HASHMAP_MAX_LEN are at least that far apart.
LEMMA Multiples ==
  ASSUME NEW a \in Nat, a % HASHMAP_MAX_LEN = 0
  PROVE  /\ (a + HASHMAP_MAX_LEN) % HASHMAP_MAX_LEN = 0
         /\ 0 % HASHMAP_MAX_LEN = 0
         /\ \A b \in Nat : b % HASHMAP_MAX_LEN = 0 /\ a < b => a + HASHMAP_MAX_LEN <= b
  <1> DEFINE h == HASHMAP_MAX_LEN
             i == a \div h
  <1>1. h \in Nat \ {0} BY ConstantsType
  <1> HIDE DEF h
  <1>2. ASSUME NEW c \in Nat, c % h = 0
        PROVE  c \div h \in Nat /\ c = (c \div h) * h
    <2>1. c = (c \div h) * h + (c % h) BY <1>1
    <2>2. c \div h \in Nat BY <1>1
    <2>3. (c \div h) * h \in Int BY <1>1, <2>2
    <2> QED BY <1>2, <2>1, <2>2, <2>3
  <1>3. ASSUME NEW k \in Nat, NEW c \in Nat, c = k * h PROVE c % h = 0
    BY <1>1, <1>3
  <1>4. i \in Nat /\ a = i * h BY <1>2 DEF h
  <1>5. (a + h) % h = 0
    <2>1. a + h = (i + 1) * h BY <1>1, <1>4
    <2>2. a + h \in Nat /\ i + 1 \in Nat BY <1>1, <1>4
    <2> QED BY <1>3, <2>1, <2>2
  <1>6. ASSUME NEW b \in Nat, b % h = 0, a < b PROVE a + h <= b
    <2> DEFINE j == b \div h
    <2>1. j \in Nat /\ b = j * h BY <1>2, <1>6
    <2> HIDE DEF i, j
    <2>2. i < j BY <1>1, <1>4, <1>6, <2>1
    <2>3. (j - (i + 1)) * h >= 0
      <3>1. j - (i + 1) \in Nat BY <1>4, <2>1, <2>2
      <3> QED BY <1>1, <3>1
    <2>4. (j - (i + 1)) * h = j * h - i * h - h BY <1>1, <1>4, <2>1
    <2>5. j * h \in Int /\ i * h \in Int BY <1>1, <1>4, <2>1
    <2> QED BY <1>1, <1>4, <2>1, <2>3, <2>4, <2>5
  <1>7. 0 % h = 0 BY <1>1
  <1> QED BY <1>5, <1>6, <1>7 DEF h

\* What an interval from one is counted as.
LEMMA CountedTo ==
  ASSUME NEW n \in Nat
  PROVE  Cardinality(1 .. n) = n /\ IsFiniteSet(1 .. n)
  BY FS_Interval

\* The numbers of a Resource whose hashmap is exact.
LEMMA ExactNumbers ==
  ASSUME TypeInv, NEW s \in Segment, NEW r \in Receiving(s), Exact(r, s)
  PROVE  LET n == Cardinality(r.known)
         IN  /\ n \in Nat /\ n <= parts[s] /\ r.known = 1 .. n
             /\ r.height \in Nat /\ r.height <= n
             /\ parts[s] \in Nat \ {0} /\ r.window \in Nat
             /\ IsFiniteSet(r.known)
  <1> DEFINE n == Cardinality(r.known)
  <1>1. n \in Nat /\ parts[s] \in Nat \ {0} /\ r.height \in Nat /\ r.window \in Nat
    BY SegmentsType, AskedType DEF Receiving, Incoming
  <1>2. r.known = 1 .. n /\ r.known \subseteq 1 .. parts[s] /\ 1 .. r.height \subseteq r.known
    BY DEF Exact, Receiving
  <1>3. IsFiniteSet(1 .. n) BY <1>1, CountedTo
  <1> HIDE DEF n
  <1>4. n <= parts[s]
    <2>1. n # 0 => n \in 1 .. n BY <1>1
    <2> QED BY <1>1, <1>2, <2>1
  <1>5. r.height <= n
    <2>1. r.height # 0 => r.height \in 1 .. r.height BY <1>1
    <2> QED BY <1>1, <1>2, <2>1
  <1> QED BY <1>1, <1>2, <1>3, <1>4, <1>5 DEF n

\* request_next() of a Resource that is formed: it asks for what is known and
\* missing in the window, and for more of the hashmap where that ends.
LEMMA RequestedSolid ==
  ASSUME TypeInv, NEW s \in Segment, NEW r \in Receiving(s), Formed(r, s),
         Requests(r), "receiver" \in link
  PROVE  LET q == NextRequested(r, s)
             n == Cardinality(r.known)
         IN  /\ Solid(q, s) /\ q.known = r.known /\ q.height = r.height
             /\ \A m \in Request(r, s) :
                  /\ m.type = "REQ" /\ m.seg = s
                  /\ m.last # 0 => /\ m.last = n /\ n % HASHMAP_MAX_LEN = 0
                                   /\ n < parts[s] /\ n + 1 <= r.height + WINDOW_MAX
  <1> DEFINE n == Cardinality(r.known)
             top == Lowest(r.height + r.window, parts[s])
             asking == [r EXCEPT !.outstanding = Cardinality(Asked(r, s)),
                                 !.waiting = Unknown(r, s) # {}]
  <1>1. /\ n \in Nat /\ n <= parts[s] /\ r.known = 1 .. n
        /\ r.height \in Nat /\ r.height <= n
        /\ parts[s] \in Nat \ {0} /\ r.window \in Nat /\ IsFiniteSet(r.known)
    BY ExactNumbers DEF Formed
  <1>2. /\ n = parts[s] \/ n % HASHMAP_MAX_LEN = 0
        /\ 1 .. r.height \subseteq r.got /\ r.height + 1 \notin r.got
        /\ r.got \subseteq 1 .. n
        /\ 1 <= r.window /\ r.window <= WINDOW_MAX
    BY <1>1 DEF Formed, Exact
  <1>3. WINDOW_MAX \in Nat BY ConstantsType DEF WINDOW_MAX
  <1> HIDE DEF n
  <1>4. top \in Nat /\ top <= parts[s] /\ top <= r.height + r.window
        /\ (top = parts[s] \/ top = r.height + r.window)
    BY <1>1 DEF Lowest
  <1> HIDE DEF top
  <1>5. Missing(r, s) = (r.height + 1 .. top) \ r.got BY DEF Missing, top
  <1>6. Unknown(r, s) = Missing(r, s) \ (1 .. n) BY <1>1 DEF Unknown
  <1>7. Asked(r, s) = Missing(r, s) \cap (1 .. n)
    <2>1. ASSUME NEW p \in Asked(r, s) PROVE p \in Missing(r, s) \cap (1 .. n)
      <3>1. p \in Missing(r, s) /\ p \in Nat /\ \A q \in Unknown(r, s) : p < q
        BY <1>1, <1>4, <1>5, <2>1 DEF Asked
      <3>2. p \notin Unknown(r, s) BY <3>1
      <3> QED BY <1>6, <3>1, <3>2
    <2>2. ASSUME NEW p \in Missing(r, s) \cap (1 .. n) PROVE p \in Asked(r, s)
      <3>1. \A q \in Unknown(r, s) : p < q BY <1>1, <1>4, <1>5, <1>6, <2>2
      <3> QED BY <2>2, <3>1 DEF Asked
    <2> QED BY <2>1, <2>2
  <1>8. ASSUME Unknown(r, s) # {}
        PROVE  /\ Asked(r, s) = r.known \ r.got
               /\ n < parts[s] /\ n + 1 <= r.height + WINDOW_MAX
               /\ n % HASHMAP_MAX_LEN = 0
    <2>1. PICK q \in r.height + 1 .. top : q \notin 1 .. n BY <1>5, <1>6, <1>8
    <2>2. n < top BY <1>1, <1>4, <2>1
    <2>3. (1 .. n) \ r.got = ((r.height + 1 .. top) \ r.got) \cap (1 .. n)
      BY <1>1, <1>2, <1>4, <2>2
    <2>4. Asked(r, s) = r.known \ r.got BY <1>1, <1>5, <1>7, <2>3
    <2>5. n < parts[s] /\ n + 1 <= r.height + WINDOW_MAX
      BY <1>1, <1>2, <1>3, <1>4, <2>2
    <2> QED BY <1>1, <1>2, <2>4, <2>5
  <1>9. ASSUME Unknown(r, s) = {}, Asked(r, s) = {}
        PROVE  r.got = 1 .. parts[s]
    <2>1. (r.height + 1 .. top) \ r.got = {} BY <1>5, <1>6, <1>7, <1>9
    <2>2. ~(r.height + 1 <= top)
      <3>1. r.height + 1 <= top => r.height + 1 \in r.height + 1 .. top BY <1>1, <1>4
      <3> QED BY <1>2, <2>1, <3>1
    <2>3. r.height = parts[s] BY <1>1, <1>2, <1>4, <2>2
    <2>4. n = parts[s] BY <1>1, <2>3
    <2> QED BY <1>2, <2>3, <2>4
  <1>10. /\ asking.outstanding = Cardinality(Asked(r, s))
         /\ asking.waiting = (Unknown(r, s) # {})
         /\ asking.known = r.known /\ asking.got = r.got /\ asking.height = r.height
         /\ asking.window = r.window /\ asking.window_max = r.window_max
         /\ asking.window_min = r.window_min /\ asking.assembly = r.assembly
    BY DEF Receiving, Incoming
  <1>11. NextRequested(r, s) = asking BY DEF NextRequested
  <1> HIDE DEF asking
  <1>12. Formed(asking, s) BY <1>10 DEF Formed, Exact
  <1>13. Counted(asking)
    <2>1. Cardinality(Asked(r, s)) \in Nat BY AskedType
    <2>2. asking.known \ asking.got = r.known \ r.got BY <1>10
    <2>3. asking.waiting => Asked(r, s) = asking.known \ asking.got BY <1>8, <1>10, <2>2
    <2> QED BY <1>10, <2>1, <2>3 DEF Counted
  <1>14. Active(asking)
    <2> SUFFICES ASSUME Cardinality(Asked(r, s)) = 0, Unknown(r, s) = {}
                 PROVE  r.assembly # "none"
      BY <1>10 DEF Active
    <2>1. IsFiniteSet(Asked(r, s))
      <3>1. IsFiniteSet(1 .. n) /\ Asked(r, s) \subseteq 1 .. n BY <1>1, <1>7, CountedTo
      <3> QED BY <3>1, FS_Subset
    <2>2. Asked(r, s) = {} BY <2>1, FS_EmptySet
    <2> QED BY <1>9, <2>2 DEF Formed
  <1>15. ASSUME NEW m \in Request(r, s)
         PROVE  /\ m.type = "REQ" /\ m.seg = s
                /\ m.last # 0 => /\ m.last = n /\ n % HASHMAP_MAX_LEN = 0
                                 /\ n < parts[s] /\ n + 1 <= r.height + WINDOW_MAX
    <2>1. /\ m.type = "REQ" /\ m.seg = s
          /\ m.last = IF Unknown(r, s) = {} THEN 0 ELSE n
      BY <1>15 DEF Request, Send, n
    <2> QED BY <1>8, <2>1
  <1> QED BY <1>10, <1>11, <1>12, <1>13, <1>14, <1>15 DEF Solid, n

\* receive_part(): a part that is taken was outstanding, and the height moves to
\* the end of the gapless beginning.
LEMMA TakenSolid ==
  ASSUME TypeInv, NEW s \in Segment, NEW r \in Receiving(s), Solid(r, s), NEW p \in Nat
  PROVE  LET q == Taken(r, s, p)
         IN  /\ Exact(q, s) /\ Counted(q)
             /\ q.known = r.known /\ r.height <= q.height
             /\ q.window = r.window /\ q.window_max = r.window_max
             /\ q.window_min = r.window_min /\ q.assembly = r.assembly
             /\ r.assembly # "none" => q = r
  <1> DEFINE n     == Cardinality(r.known)
             start == Highest(r.height, 1)
             got   == r.got \cup {p}
             first == IF p = r.height + 1 THEN p ELSE r.height
             stops == {q \in first .. parts[s] : q = parts[s] \/ q + 1 \notin got}
             height == CHOOSE q \in stops : \A t \in stops : q <= t
             shown == ((start .. start + r.window - 1) \cap r.known) \ r.got
  <1>1. /\ n \in Nat /\ n <= parts[s] /\ r.known = 1 .. n
        /\ r.height \in Nat /\ r.height <= n
        /\ parts[s] \in Nat \ {0} /\ r.window \in Nat /\ IsFiniteSet(r.known)
    BY ExactNumbers DEF Solid, Formed
  <1>2. /\ n = parts[s] \/ n % HASHMAP_MAX_LEN = 0
        /\ 1 .. r.height \subseteq r.got /\ r.height + 1 \notin r.got
        /\ r.got \subseteq 1 .. n
        /\ r.outstanding >= 0 /\ r.outstanding \in Int
        /\ r.waiting => r.outstanding = Cardinality(r.known \ r.got)
        /\ r.outstanding = 0 => r.waiting \/ r.assembly # "none"
        /\ r.assembly # "none" => r.got = 1 .. parts[s]
    BY <1>1 DEF Solid, Formed, Exact, Counted, Active, Receiving, Incoming
  <1>3. CASE p \notin shown
    <2>1. Taken(r, s, p) = r BY <1>3 DEF Taken
    <2> QED BY <1>1, <2>1 DEF Solid, Formed
  <1>4. CASE p \in shown
    <2>1. Taken(r, s, p) = [r EXCEPT !.got = got, !.outstanding = @ - 1, !.height = height]
      BY <1>4 DEF Taken
    <2>2. p \in 1 .. n /\ p \notin r.got BY <1>1, <1>4
    <2> HIDE DEF n
    <2>3. r.assembly = "none" BY <1>1, <1>2, <2>2
    <2>4. first \in Nat /\ r.height <= first /\ first <= parts[s] /\ 1 .. first \subseteq got
      BY <1>1, <1>2, <2>2
    <2>5. got \subseteq 1 .. n BY <1>2, <2>2
    <2> HIDE DEF first
    <2>6. PICK least \in stops : \A t \in stops : least <= t
      <3>1. stops \subseteq Nat /\ parts[s] \in stops BY <1>1, <2>4
      <3> HIDE DEF stops
      <3> QED BY <3>1, SmallestExists
    <2>7. height \in stops /\ \A t \in stops : height <= t
      <3> HIDE DEF stops
      <3> QED BY <2>6
    <2> HIDE DEF height
    <2>8. height \in Nat /\ first <= height /\ height <= parts[s]
      BY <1>1, <2>4, <2>7
    <2>9. height + 1 \notin got
      <3>1. CASE height = parts[s]
        <4> HIDE DEF got
        <4> QED BY <1>1, <2>5, <3>1
      <3>2. CASE height # parts[s] BY <2>7, <3>2
      <3> QED BY <3>1, <3>2
    <2>10. 1 .. height \subseteq got
      <3> SUFFICES ASSUME NEW k \in 1 .. height, ~(k <= first) PROVE k \in got
        BY <2>4, <2>8
      <3>1. k - 1 \in first .. parts[s] /\ k - 1 < height BY <2>4, <2>8, <1>1
      <3>2. k - 1 \notin stops BY <2>7, <2>8, <3>1
      <3>3. (k - 1) + 1 \in got
        <4> HIDE DEF got
        <4> QED BY <3>1, <3>2
      <3> QED BY <3>3
    <2>11. r.known \ got = (r.known \ r.got) \ {p} /\ p \in r.known \ r.got
      BY <1>1, <2>2
    <2>12. /\ IsFiniteSet(r.known \ r.got)
           /\ Cardinality(r.known \ got) = Cardinality(r.known \ r.got) - 1
      <3>1. IsFiniteSet(r.known \ r.got) BY <1>1, FS_Subset
      <3> DEFINE S == r.known \ r.got
      <3>2. p \in S /\ r.known \ got = S \ {p} /\ IsFiniteSet(S) BY <2>11, <3>1
      <3> HIDE DEF S, got
      <3>3. Cardinality(S \ {p}) = Cardinality(S) - 1 BY <3>2, FS_RemoveElement
      <3> QED BY <3>2, <3>3 DEF S
    <2>13. r.outstanding - 1 >= 0
      <3>1. Cardinality(r.known \ r.got) # 0 BY <2>11, <2>12, FS_EmptySet
      <3>2. r.outstanding # 0 BY <1>2, <2>3, <3>1
      <3> QED BY <1>2, <3>2
    <2> DEFINE q == [r EXCEPT !.got = got, !.outstanding = @ - 1, !.height = height]
    <2>14. /\ q.got = got /\ q.outstanding = r.outstanding - 1 /\ q.height = height
           /\ q.known = r.known /\ q.waiting = r.waiting /\ q.assembly = r.assembly
           /\ q.window = r.window /\ q.window_max = r.window_max
           /\ q.window_min = r.window_min
      BY DEF Receiving, Incoming
    <2> HIDE DEF q, got
    <2>15. Exact(q, s)
      BY <1>1, <1>2, <2>5, <2>9, <2>10, <2>14 DEF Exact, n
    <2>16. Counted(q)
      <3>1. q.known \ q.got = r.known \ got BY <2>14
      <3> QED BY <1>2, <2>12, <2>13, <2>14, <3>1 DEF Counted
    <2>17. r.height <= height BY <1>1, <2>4, <2>8
    <2> QED BY <2>1, <2>3, <2>14, <2>15, <2>16, <2>17 DEF q, got
  <1> QED BY <1>3, <1>4

\* A window that opens or closes stays within its bounds.
LEMMA WindowSolid ==
  ASSUME NEW s \in Segment, NEW r \in Receiving(s), NEW slow \in BOOLEAN,
         1 <= r.window, r.window <= WINDOW_MAX, r.window_max <= WINDOW_MAX, 1 <= r.window_min
  PROVE  \A q \in {Widened(r, slow), Narrowed(r)} :
           /\ 1 <= q.window /\ q.window <= WINDOW_MAX
           /\ q.window_max <= WINDOW_MAX /\ 1 <= q.window_min
           /\ q.known = r.known /\ q.got = r.got /\ q.height = r.height
           /\ q.outstanding = r.outstanding /\ q.waiting = r.waiting
           /\ q.assembly = r.assembly /\ q.status = r.status
  <1> DEFINE Fits(q) ==
        /\ 1 <= q.window /\ q.window <= WINDOW_MAX
        /\ q.window_max <= WINDOW_MAX /\ 1 <= q.window_min
        /\ q.known = r.known /\ q.got = r.got /\ q.height = r.height
        /\ q.outstanding = r.outstanding /\ q.waiting = r.waiting
        /\ q.assembly = r.assembly /\ q.status = r.status
  <1>1. /\ r.window \in Nat /\ r.window_min \in Nat /\ r.window_max \in Nat
        /\ WINDOW_MAX_VERY_SLOW \in Nat /\ WINDOW_FLEXIBILITY \in Nat \ {0}
        /\ WINDOW_MAX \in Nat /\ WINDOW_MAX_VERY_SLOW <= WINDOW_MAX
    BY ConstantsType, WindowAssumption DEF Receiving, Incoming, WINDOW_MAX
  <1>2. Fits(Widened(r, slow))
    <2> DEFINE grows == r.window < r.window_max
               w   == IF grows THEN r.window + 1 ELSE r.window
               max == IF slow THEN WINDOW_MAX_VERY_SLOW ELSE r.window_max
               min == IF grows /\ w - r.window_min > WINDOW_FLEXIBILITY - 1
                        THEN r.window_min + 1 ELSE r.window_min
    <2>1. /\ w \in Nat /\ max \in Nat /\ min \in Nat
          /\ 1 <= w /\ w <= WINDOW_MAX /\ max <= WINDOW_MAX /\ 1 <= min
      BY <1>1
    <2>2. Widened(r, slow) = [r EXCEPT !.window = w, !.window_max = max, !.window_min = min]
      BY DEF Widened
    <2> HIDE DEF w, max, min
    <2> QED BY <2>1, <2>2 DEF Receiving, Incoming
  <1>3. Fits(Narrowed(r))
    <2> DEFINE w     == r.window - 1
               max   == r.window_max - 1
               lower == IF max - w > WINDOW_FLEXIBILITY - 1 THEN max - 1 ELSE max
    <2>1. CASE r.window > r.window_min /\ r.window_max > r.window_min
      <3>1. /\ w \in Nat /\ lower \in Nat /\ 1 <= w /\ w <= WINDOW_MAX
            /\ lower <= WINDOW_MAX
        BY <1>1, <2>1
      <3>2. Narrowed(r) = [r EXCEPT !.window = w, !.window_max = lower]
        BY <1>1, <2>1 DEF Narrowed
      <3> HIDE DEF w, lower
      <3> QED BY <3>1, <3>2 DEF Receiving, Incoming
    <2>2. CASE r.window > r.window_min /\ r.window_max <= r.window_min
      <3>1. w \in Nat /\ 1 <= w /\ w <= WINDOW_MAX BY <1>1, <2>2
      <3>2. Narrowed(r) = [r EXCEPT !.window = w] BY <1>1, <2>2 DEF Narrowed
      <3> HIDE DEF w
      <3> QED BY <3>1, <3>2 DEF Receiving, Incoming
    <2>3. CASE r.window <= r.window_min
      BY <2>3 DEF Narrowed
    <2> QED BY <1>1, <2>1, <2>2, <2>3
  <1> QED BY <1>2, <1>3

\* receive_part(): the assembly starts exactly when all parts are there.
LEMMA ReceivedSolid ==
  ASSUME TypeInv, NEW s \in Segment, NEW r \in Receiving(s), Solid(r, s), NEW p \in Nat,
         NEW fast \in BOOLEAN, NEW slow \in BOOLEAN, r.status # "FAILED"
  PROVE  LET q == Received(r, s, p, fast, slow)
         IN  /\ Formed(q, s) /\ Counted(q) /\ (Continues(r, q) \/ Active(q))
             /\ q.known = r.known /\ r.height <= q.height
  <1> DEFINE heard == [r EXCEPT !.retries = MAX_RETRIES,
                                !.window_max = IF fast THEN WINDOW_MAX_FAST ELSE @]
             alive == [heard EXCEPT !.status = "TRANSFERRING"]
             taken == IF p = 0 THEN alive ELSE Taken(alive, s, p)
             q     == Received(r, s, p, fast, slow)
  <1>1. /\ heard \in Receiving(s)
        /\ heard.known = r.known /\ heard.got = r.got /\ heard.height = r.height
        /\ heard.window = r.window /\ heard.window_min = r.window_min
        /\ heard.window_max \in {r.window_max, WINDOW_MAX}
        /\ heard.outstanding = r.outstanding /\ heard.waiting = r.waiting
        /\ heard.assembly = r.assembly
    BY ConstantsType DEF Receiving, Incoming, WINDOW_MAX
  <1>2. /\ alive \in Receiving(s)
        /\ alive.known = r.known /\ alive.got = r.got /\ alive.height = r.height
        /\ alive.window = r.window /\ alive.window_min = r.window_min
        /\ alive.window_max \in {r.window_max, WINDOW_MAX}
        /\ alive.outstanding = r.outstanding /\ alive.waiting = r.waiting
        /\ alive.assembly = r.assembly
    <2> HIDE DEF heard
    <2> QED BY <1>1 DEF Receiving, Incoming, Status, Open, Waiting
  <1>3. taken \in Receiving(s) BY <1>2, TakenType
  <1>4. q = IF Cardinality(taken.got) = parts[s] /\ r.assembly = "none"
              THEN [taken EXCEPT !.assembly = "starts"]
            ELSE IF taken.outstanding = 0 THEN Widened(taken, slow) ELSE taken
    BY DEF Received
  <1> HIDE DEF alive, q
  <1>5. Solid(alive, s)
    <2>1. alive.known \ alive.got = r.known \ r.got BY <1>2
    <2>2. WINDOW_MAX \in Nat BY ConstantsType DEF WINDOW_MAX
    <2>3. alive.window_max <= WINDOW_MAX BY <1>2, <2>2 DEF Solid, Formed
    <2>4. Formed(alive, s) BY <1>2, <2>3 DEF Solid, Formed, Exact
    <2>5. Counted(alive) /\ Active(alive) BY <1>2, <2>1 DEF Solid, Counted, Active
    <2> QED BY <2>4, <2>5 DEF Solid
  <1>6. /\ Exact(taken, s) /\ Counted(taken)
        /\ taken.known = r.known /\ r.height <= taken.height
        /\ taken.window = r.window /\ taken.window_max <= WINDOW_MAX
        /\ taken.window_min = r.window_min /\ taken.assembly = r.assembly
        /\ r.assembly # "none" => taken.got = r.got
    <2>1. alive.window_max <= WINDOW_MAX /\ alive.height \in Nat
      BY <1>2, <1>5 DEF Solid, Formed, Receiving, Incoming
    <2>2. CASE p = 0
      BY <1>2, <1>5, <2>1, <2>2 DEF Solid, Formed
    <2>3. CASE p # 0
      <3>1. taken = Taken(alive, s, p) BY <2>3
      <3> HIDE DEF taken
      <3> QED BY <1>2, <1>5, <2>1, <3>1, TakenSolid
    <2> QED BY <2>2, <2>3
  <1> HIDE DEF taken
  <1>7. /\ parts[s] \in Nat \ {0} /\ taken.got \subseteq 1 .. parts[s]
        /\ Cardinality(taken.got) = parts[s] <=> taken.got = 1 .. parts[s]
    <2>1. parts[s] \in Nat \ {0} BY SegmentsType
    <2>2. taken.got \subseteq 1 .. parts[s]
      BY <1>3, <1>6 DEF Exact, Receiving
    <2>3. Cardinality(1 .. parts[s]) = parts[s] /\ IsFiniteSet(1 .. parts[s])
      BY <2>1, CountedTo
    <2> QED BY <2>1, <2>2, <2>3, FS_Subset
  <1>8. /\ 1 <= taken.window /\ taken.window <= WINDOW_MAX /\ 1 <= taken.window_min
        /\ r.assembly # "none" => r.got = 1 .. parts[s]
    BY <1>6 DEF Solid, Formed
  <1>9. CASE Cardinality(taken.got) = parts[s] /\ r.assembly = "none"
    <2> DEFINE started == [taken EXCEPT !.assembly = "starts"]
    <2>1. /\ started.known = taken.known /\ started.got = taken.got
          /\ started.height = taken.height /\ started.window = taken.window
          /\ started.window_max = taken.window_max /\ started.window_min = taken.window_min
          /\ started.outstanding = taken.outstanding /\ started.waiting = taken.waiting
          /\ started.assembly = "starts"
      BY <1>3 DEF Receiving, Incoming
    <2>2. q = started BY <1>4, <1>9
    <2> HIDE DEF started
    <2>3. started.known \ started.got = taken.known \ taken.got BY <2>1
    <2>4. Formed(started, s) BY <1>6, <1>7, <1>8, <1>9, <2>1 DEF Formed, Exact
    <2>5. Counted(started) BY <1>6, <2>1, <2>3 DEF Counted
    <2>6. Active(started) BY <2>1 DEF Active
    <2> QED BY <1>6, <2>1, <2>2, <2>4, <2>5, <2>6 DEF q
  <1>10. CASE ~(Cardinality(taken.got) = parts[s] /\ r.assembly = "none")
    <2>1. Formed(taken, s) BY <1>6, <1>7, <1>8, <1>10 DEF Formed
    <2>2. CASE taken.outstanding # 0
      <3>1. q = taken BY <1>4, <1>10, <2>2
      <3>2. Active(taken) BY <2>2 DEF Active
      <3> QED BY <1>6, <2>1, <3>1, <3>2 DEF q
    <2>3. CASE taken.outstanding = 0
      <3> DEFINE wide == Widened(taken, slow)
      <3>1. /\ wide.known = taken.known /\ wide.got = taken.got
            /\ wide.height = taken.height /\ 1 <= wide.window
            /\ wide.window <= WINDOW_MAX /\ wide.window_max <= WINDOW_MAX
            /\ 1 <= wide.window_min /\ wide.outstanding = taken.outstanding
            /\ wide.waiting = taken.waiting /\ wide.assembly = taken.assembly
        BY <1>3, <1>6, <1>8, WindowSolid
      <3>2. q = wide BY <1>4, <1>10, <2>3
      <3> HIDE DEF wide
      <3>3. wide.known \ wide.got = taken.known \ taken.got BY <3>1
      <3>4. Formed(wide, s) BY <2>1, <3>1 DEF Formed, Exact
      <3>5. Counted(wide) BY <1>6, <3>1, <3>3 DEF Counted
      <3>6. Continues(r, wide)
        BY <1>6, <2>3, <3>1 DEF Continues, Starts
      <3> QED BY <1>6, <3>1, <3>2, <3>4, <3>5, <3>6 DEF q
    <2> QED BY <2>2, <2>3
  <1> QED BY <1>9, <1>10

\* hashmap_update(): what follows a beginning of the hashmap leaves no gap.
LEMMA MappedFormed ==
  ASSUME TypeInv, NEW s \in Segment, NEW r \in Receiving(s), Formed(r, s), NEW from \in Nat,
         from % HASHMAP_MAX_LEN = 0, from <= Cardinality(r.known)
  PROVE  LET q == Mapped(r, s, from)
             n == Cardinality(r.known)
             k == Cardinality(q.known)
         IN  /\ q \in Receiving(s) /\ Formed(q, s) /\ q.height = r.height
             /\ q.status = "TRANSFERRING" /\ ~q.waiting /\ q.assembly = r.assembly
             /\ k \in Nat /\ n <= k /\ (k = n \/ k <= from + HASHMAP_MAX_LEN)
             /\ Lowest(from + HASHMAP_MAX_LEN, parts[s]) <= k
  <1> DEFINE h   == HASHMAP_MAX_LEN
             n   == Cardinality(r.known)
             top == Lowest(from + h, parts[s])
             k   == IF n < top THEN top ELSE n
             q   == Mapped(r, s, from)
  <1>1. /\ n \in Nat /\ n <= parts[s] /\ r.known = 1 .. n /\ parts[s] \in Nat
        /\ r.height \in Nat /\ r.height <= n /\ h \in Nat \ {0}
    BY ExactNumbers, ConstantsType DEF Formed
  <1>2. /\ top \in Nat /\ top <= parts[s] /\ top <= from + h /\ top \in {from + h, parts[s]}
    BY <1>1 DEF Lowest
  <1>3. HashesFrom(s, from) = from + 1 .. top BY DEF HashesFrom
  <1>4. n = parts[s] \/ n % h = 0 BY DEF Formed, Exact
  <1>5. from = n \/ top <= n
    <2>1. CASE n = parts[s] BY <1>1, <1>2, <2>1
    <2>2. CASE n # parts[s]
      <3>1. from < n => from + h <= n BY <1>1, <1>4, <2>2, Multiples
      <3> HIDE DEF top, n, h
      <3> QED BY <1>1, <1>2, <3>1 DEF n
    <2> QED BY <2>1, <2>2
  <1>6. k = parts[s] \/ k % h = 0
    <2>1. CASE n < top
      <3>1. from = n /\ k = top BY <1>1, <1>2, <1>5, <2>1
      <3>2. CASE top = parts[s] BY <3>1, <3>2
      <3>3. CASE top # parts[s]
        <4>1. (from + h) % h = 0 BY Multiples
        <4>2. top = from + h BY <1>2, <3>3
        <4> HIDE DEF top, n, h, k
        <4> QED BY <3>1, <4>1, <4>2
      <3> QED BY <3>2, <3>3
    <2>2. CASE ~(n < top)
      <3>1. k = n BY <2>2
      <3> HIDE DEF k
      <3> QED BY <1>4, <3>1
    <2> QED BY <2>1, <2>2
  <1>7. q \in Receiving(s) BY MappedType
  <1>8. /\ q.known = r.known \cup HashesFrom(s, from)
        /\ q.status = "TRANSFERRING" /\ ~q.waiting /\ q.assembly = r.assembly
        /\ q.height = r.height /\ q.got = r.got /\ q.window = r.window
        /\ q.window_max = r.window_max /\ q.window_min = r.window_min
    BY DEF Mapped, Receiving, Incoming
  <1> HIDE DEF h, n, top, q
  <1>9. k \in Nat /\ n <= k /\ top <= k /\ (k = n \/ k <= from + h)
    BY <1>1, <1>2
  <1>10. q.known = 1 .. k
    <2>1. from <= n BY DEF n
    <2> QED BY <1>1, <1>2, <1>3, <1>5, <1>8, <2>1
  <1> HIDE DEF k
  <1>11. Cardinality(q.known) = k BY <1>9, <1>10, CountedTo
  <1>12. r.got \subseteq 1 .. n /\ 1 .. n \subseteq 1 .. k
    BY <1>1, <1>9 DEF Formed, Exact
  <1>13. Exact(q, s)
    <2>1. 1 .. r.height \subseteq r.got /\ r.height + 1 \notin r.got BY DEF Formed, Exact
    <2>2. q.got \subseteq q.known BY <1>8, <1>10, <1>12
    <2> QED BY <1>6, <1>8, <1>10, <1>11, <2>1, <2>2 DEF Exact, h
  <1>14. Formed(q, s) BY <1>8, <1>13 DEF Formed
  <1> QED BY <1>7, <1>8, <1>9, <1>11, <1>14 DEF h, n, top, q

\* accept(): a new Resource knows the first hashes.
LEMMA AcceptedFormed ==
  ASSUME TypeInv, NEW s \in Segment, NEW w \in Nat, 1 <= w, w <= WINDOW_MAX
  PROVE  LET fresh == [NewIncoming EXCEPT !.window = w, !.watch = TRUE]
             q     == Mapped(fresh, s, 0)
         IN  /\ q \in Receiving(s) /\ Formed(q, s)
             /\ q.status = "TRANSFERRING" /\ ~q.waiting
             /\ Cardinality(q.known) = Lowest(HASHMAP_MAX_LEN, parts[s])
  <1> DEFINE fresh == [NewIncoming EXCEPT !.window = w, !.watch = TRUE]
  <1>1. parts[s] \in Nat \ {0} /\ HASHMAP_MAX_LEN \in Nat \ {0}
    BY SegmentsType, ConstantsType
  <1>2. /\ fresh.known = {} /\ fresh.got = {} /\ fresh.height = 0 /\ fresh.window = w
        /\ fresh.window_max = WINDOW_MAX_SLOW /\ fresh.window_min = WINDOW_MIN
        /\ fresh.assembly = "none"
    BY DEF NewIncoming
  <1>3. fresh \in Receiving(s)
    <2>1. NewIncoming \in Receiving(s) BY NewIncomingType
    <2>2. ASSUME NEW r \in Receiving(s)
          PROVE  [r EXCEPT !.window = w, !.watch = TRUE] \in Receiving(s)
      BY <2>2 DEF Receiving, Incoming
    <2> QED BY <2>1, <2>2
  <1> HIDE DEF fresh
  <1>4. Cardinality(fresh.known) = 0 /\ 1 .. 0 = {} BY <1>2, FS_EmptySet
  <1>5. WINDOW_MAX_SLOW <= WINDOW_MAX /\ 1 <= WINDOW_MIN
    BY WindowAssumption DEF WINDOW_MAX
  <1>6. 0 \in Nat /\ 0 % HASHMAP_MAX_LEN = 0 BY <1>1
  <1>7. Formed(fresh, s)
    <2>1. Exact(fresh, s) BY <1>2, <1>4, <1>6 DEF Exact
    <2>2. 1 \in 1 .. parts[s] BY <1>1
    <2> QED BY <1>2, <1>5, <2>1, <2>2 DEF Formed
  <1> DEFINE q == Mapped(fresh, s, 0)
             k == Cardinality(q.known)
  <1>8. /\ q \in Receiving(s) /\ Formed(q, s) /\ q.status = "TRANSFERRING" /\ ~q.waiting
        /\ k \in Nat /\ (k = 0 \/ k <= 0 + HASHMAP_MAX_LEN)
        /\ Lowest(0 + HASHMAP_MAX_LEN, parts[s]) <= k
    BY <1>3, <1>4, <1>6, <1>7, MappedFormed
  <1>9. k <= parts[s] BY <1>8, ExactNumbers DEF Formed
  <1> HIDE DEF q
  <1>10. k = Lowest(HASHMAP_MAX_LEN, parts[s])
    BY <1>1, <1>8, <1>9 DEF Lowest
  <1> QED BY <1>8, <1>10 DEF q, fresh

-----------------------------------------------------------------------------
(***************************************************************************)
(* Every step keeps DemandInv.                                             *)
(***************************************************************************)

\* What a step of the receiver does to a segment that is listed after it ...
Advances(s) ==
  LET q == inc'[s]
      k == Cardinality(q.known)
  IN  /\ q \in Receiving(s) /\ Solid(q, s)
      /\ s \in incoming =>
           /\ inc[s].height <= q.height /\ Hashes(s) <= k
           /\ \/ k = Hashes(s)
              \/ Settled(s) /\ \E m \in net : /\ m.type = "HMU" /\ m.seg = s
                                             /\ k <= m.from + HASHMAP_MAX_LEN
      /\ s \notin incoming =>
           Advertisement(s) \in net /\ k = Lowest(HASHMAP_MAX_LEN, parts[s])

\* ... and what it puts on its way.
Demands ==
  \A m \in net' \ net :
    /\ m.type # "HMU"
    /\ m.type = "REQ" =>
         /\ m.seg \in incoming'
         /\ m.last # 0 => /\ m.last = Cardinality(inc'[m.seg].known)
                          /\ m.last % HASHMAP_MAX_LEN = 0 /\ m.last < parts[m.seg]
                          /\ m.last + 1 <= inc'[m.seg].height + WINDOW_MAX

\* Such steps keep the invariant.
LEMMA ReceiverKeepsDemand ==
  ASSUME TypeInv, TypeInv', DemandInv, StaySettled, HASHMAP_MAX_LEN < WINDOW_MAX,
         UNCHANGED <<parts, out, outgoing>>, last' <= WINDOW_MAX,
         \A s \in incoming' : Advances(s), Demands
  PROVE  DemandInv'
  <1> DEFINE H(s) == Cardinality(inc'[s].known)
  <1>1. /\ HASHMAP_MAX_LEN \in Nat \ {0} /\ WINDOW_MAX \in Nat /\ COLLISION_GUARD_SIZE \in Nat
        /\ COLLISION_GUARD_SIZE = 2 * WINDOW_MAX + HASHMAP_MAX_LEN
    BY ConstantsType DEF WINDOW_MAX, COLLISION_GUARD_SIZE
  <1>2. Segment' = Segment /\ \A s : (Past(s)' <=> Past(s))
    BY DEF Segment, Segments, Past, Started
  <1>3. \A s \in incoming' : /\ s \in Segment /\ H(s) \in Nat /\ inc'[s].height \in Nat
                             /\ parts[s] \in Nat \ {0} /\ H(s) <= parts[s]
                             /\ out[s].floor \in Nat /\ inc[s].height \in Nat
                             /\ Hashes(s) \in Nat
    <2> SUFFICES ASSUME NEW s \in incoming'
                 PROVE  /\ s \in Segment /\ H(s) \in Nat /\ inc'[s].height \in Nat
                        /\ parts[s] \in Nat \ {0} /\ H(s) <= parts[s]
                        /\ out[s].floor \in Nat /\ inc[s].height \in Nat
                        /\ Hashes(s) \in Nat
      OBVIOUS
    <2>1. s \in Segment BY <1>2 DEF TypeInv, TypeOK
    <2>2. inc'[s] \in Receiving(s) /\ Exact(inc'[s], s) /\ inc[s] \in Receiving(s)
      BY <2>1, IncType DEF Advances, Solid, Formed
    <2>3. Hashes(s) \in Nat BY <2>1, <2>2, AskedType DEF Hashes
    <2>4. inc[s].height \in Nat /\ out[s].floor \in Nat
      BY <2>1, <2>2 DEF Receiving, Incoming, TypeInv, TypeOK, Outgoing
    <2> QED BY <2>1, <2>2, <2>3, <2>4, ExactNumbers
  <1>4. \A m \in net' : /\ m.type = "REQ" => m.last \in Nat
                        /\ m.type = "HMU" => m.from \in Nat
                        /\ m.seg \in Segment
    BY <1>2 DEF TypeInv, TypeOK, Message
  <1>5. \A s \in incoming' : s \notin incoming =>
          ~Settled(s) /\ H(s) = Lowest(HASHMAP_MAX_LEN, parts[s])
    BY DEF Advances, Settled
  <1>6. IncomingInv'
    <2> SUFFICES ASSUME NEW s \in incoming' PROVE Solid(inc[s], s)' /\ H(s) # 0
      BY DEF IncomingInv, Hashes, WINDOW_MAX
    <2>1. Solid(inc'[s], s) BY DEF Advances
    <2>2. H(s) # 0
      <3>1. CASE s \in incoming
        BY <1>3, <3>1 DEF Advances, DemandInv, IncomingInv
      <3>2. CASE s \notin incoming BY <1>1, <1>3, <1>5, <3>2 DEF Lowest
      <3> QED BY <3>1, <3>2
    <2> QED BY <2>1, <2>2 DEF Solid, Formed, Exact, Counted, Active
  <1>7. RequestsInv'
    <2> SUFFICES ASSUME NEW m \in net', m.type = "REQ", m.last # 0 PROVE RequestFits(m)'
      BY DEF RequestsInv
    <2>1. CASE m \notin net
      BY <1>3, <1>4, <2>1 DEF Demands, RequestFits, Hashes
    <2>2. CASE m \in net
      <3>1. RequestFits(m) BY <2>2 DEF DemandInv, RequestsInv
      <3>2. ASSUME m.seg \in incoming'
            PROVE  m.last <= H(m.seg) /\ m.last + 1 <= inc'[m.seg].height + WINDOW_MAX
        <4>1. CASE m.seg \in incoming
          BY <1>1, <1>3, <1>4, <3>1, <3>2, <4>1 DEF Advances, RequestFits
        <4>2. CASE m.seg \notin incoming
          <5>1. ~Settled(m.seg) /\ H(m.seg) = Lowest(HASHMAP_MAX_LEN, parts[m.seg])
            BY <1>5, <3>2, <4>2
          <5>2. m.last <= HASHMAP_MAX_LEN BY <2>2, <5>1 DEF DemandInv, FreshInv
          <5>3. m.last < parts[m.seg] BY <3>1 DEF RequestFits
          <5> QED BY <1>1, <1>3, <1>4, <3>2, <5>1, <5>2, <5>3 DEF Lowest
        <4> QED BY <4>1, <4>2
      <3> QED BY <3>1, <3>2 DEF RequestFits, Hashes
    <2> QED BY <2>1, <2>2
  <1>8. UpdatesInv'
    <2> SUFFICES ASSUME NEW m \in net', m.type = "HMU" PROVE UpdateFits(m)'
      BY DEF UpdatesInv
    <2>1. m \in net /\ UpdateFits(m) BY DEF Demands, DemandInv, UpdatesInv
    <2>2. ASSUME m.seg \in incoming' PROVE m.from <= H(m.seg)
      <3>1. CASE m.seg \in incoming
        BY <1>3, <1>4, <2>1, <2>2, <3>1 DEF Advances, UpdateFits
      <3>2. CASE m.seg \notin incoming
        <4>1. ~Settled(m.seg) /\ H(m.seg) = Lowest(HASHMAP_MAX_LEN, parts[m.seg])
          BY <1>5, <2>2, <3>2
        <4>2. m.from <= HASHMAP_MAX_LEN /\ m.from <= parts[m.seg]
          BY <2>1, <4>1 DEF DemandInv, FreshInv, UpdateFits
        <4> QED BY <4>1, <4>2 DEF Lowest
      <3> QED BY <3>1, <3>2
    <2> QED BY <1>2, <2>1, <2>2 DEF UpdateFits, Hashes
  <1>9. \A s \in Segment : ~Settled(s)' => ~Settled(s) BY DEF StaySettled
  <1>10. \A s \in incoming' : ~Settled(s) => H(s) <= HASHMAP_MAX_LEN
    <2> SUFFICES ASSUME NEW s \in incoming', ~Settled(s) PROVE H(s) <= HASHMAP_MAX_LEN
      OBVIOUS
    <2>1. CASE s \in incoming
      <3>1. H(s) = Hashes(s) BY <2>1 DEF Advances
      <3> QED BY <1>3, <2>1, <3>1 DEF DemandInv, FreshInv
    <2>2. CASE s \notin incoming BY <1>1, <1>3, <1>5, <2>2 DEF Lowest
    <2> QED BY <2>1, <2>2
  <1>11. FreshInv'
    <2>1. ASSUME NEW s \in Segment, ~Settled(s)'
          PROVE  out'[s].floor = 0 /\ (s \in incoming' => H(s) <= HASHMAP_MAX_LEN)
      BY <1>9, <1>10, <2>1 DEF DemandInv, FreshInv
    <2>2. ASSUME NEW m \in net', ~Settled(m.seg)'
          PROVE  /\ m.type = "REQ" => m.last <= HASHMAP_MAX_LEN
                 /\ m.type = "HMU" => m.from <= HASHMAP_MAX_LEN
      <3>1. ~Settled(m.seg) BY <1>4, <1>9, <2>2
      <3>2. CASE m \in net BY <3>1, <3>2 DEF DemandInv, FreshInv
      <3>3. CASE m \notin net BY <1>1, <1>4, <1>10, <3>1, <3>3 DEF Demands
      <3> QED BY <3>2, <3>3
    <2> QED BY <1>2, <2>1, <2>2 DEF FreshInv, Hashes
  <1>12. FloorInv'
    <2>1. ASSUME NEW s \in incoming', s \in outgoing PROVE FloorBelow(s)'
      <3> DEFINE f == out[s].floor
      <3>1. f <= inc'[s].height /\ (f = 0 \/ f + 1 + WINDOW_MAX <= H(s))
            /\ H(s) <= f + COLLISION_GUARD_SIZE
        <4>1. CASE s \in incoming
          <5>1. FloorBelow(s) BY <2>1, <4>1 DEF DemandInv, FloorInv
          <5>2. H(s) <= f + COLLISION_GUARD_SIZE
            <6>1. CASE H(s) = Hashes(s) BY <5>1, <6>1 DEF FloorBelow
            <6>2. CASE H(s) # Hashes(s)
              <7>1. PICK m \in net : /\ m.type = "HMU" /\ m.seg = s
                                     /\ H(s) <= m.from + HASHMAP_MAX_LEN
                BY <4>1, <6>2 DEF Advances
              <7>2. m.from + HASHMAP_MAX_LEN <= f + COLLISION_GUARD_SIZE
                BY <2>1, <4>1, <7>1 DEF DemandInv, FloorInv
              <7>3. m.from \in Nat BY <7>1 DEF TypeInv, TypeOK, Message
              <7> QED BY <1>1, <1>3, <7>1, <7>2, <7>3
            <6> QED BY <6>1, <6>2
          <5> QED BY <1>1, <1>3, <4>1, <5>1, <5>2 DEF Advances, FloorBelow
        <4>2. CASE s \notin incoming
          <5>1. f = 0 BY <1>3, <1>5, <4>2 DEF DemandInv, FreshInv
          <5>2. H(s) <= HASHMAP_MAX_LEN BY <1>5, <1>10, <4>2
          <5> QED BY <1>1, <1>3, <5>1, <5>2
        <4> QED BY <4>1, <4>2
      <3> QED BY <3>1 DEF FloorBelow, Hashes, COLLISION_GUARD_SIZE, WINDOW_MAX
    <2>2. ASSUME NEW m \in net', m.type = "HMU", m.seg \in incoming', m.seg \in outgoing
          PROVE  m.from + HASHMAP_MAX_LEN <= out[m.seg].floor + COLLISION_GUARD_SIZE
      <3>1. m \in net BY <2>2 DEF Demands
      <3>2. CASE m.seg \in incoming BY <2>2, <3>1, <3>2 DEF DemandInv, FloorInv
      <3>3. CASE m.seg \notin incoming
        <4>1. ~Settled(m.seg) BY <1>5, <2>2, <3>3
        <4>2. m.from <= HASHMAP_MAX_LEN BY <2>2, <3>1, <4>1 DEF DemandInv, FreshInv
        <4> QED BY <1>1, <1>3, <1>4, <2>2, <4>2
      <3> QED BY <3>2, <3>3
    <2> QED BY <2>1, <2>2 DEF FloorInv, COLLISION_GUARD_SIZE, WINDOW_MAX
  <1> QED BY <1>6, <1>7, <1>8, <1>11, <1>12 DEF DemandInv

\* A Resource that changes in nothing that Solid is about.
LEMMA SolidSame ==
  ASSUME NEW s, NEW r, NEW q, Solid(r, s),
         q.known = r.known, q.got = r.got, q.height = r.height, q.window = r.window,
         q.window_max = r.window_max, q.window_min = r.window_min,
         q.outstanding = r.outstanding, q.waiting = r.waiting,
         q.assembly # "none" <=> r.assembly # "none"
  PROVE  Solid(q, s)
  <1>1. q.known \ q.got = r.known \ r.got OBVIOUS
  <1>2. Formed(q, s) BY DEF Solid, Formed, Exact
  <1>3. Counted(q) /\ Active(q) BY <1>1 DEF Solid, Counted, Active
  <1> QED BY <1>2, <1>3 DEF Solid

\* A Resource that is left alone.
LEMMA Stays ==
  ASSUME TypeInv, DemandInv, NEW s \in incoming, inc'[s] = inc[s]
  PROVE  Advances(s)
  <1>1. s \in Segment BY DEF TypeInv, TypeOK
  <1>2. inc[s] \in Receiving(s) /\ Solid(inc[s], s) BY <1>1, IncType DEF DemandInv, IncomingInv
  <1>3. inc[s].height \in Nat /\ Hashes(s) \in Nat
    BY <1>1, <1>2, AskedType DEF Receiving, Incoming, Hashes
  <1> QED BY <1>2, <1>3 DEF Advances, Hashes

\* accept() asks for the first parts.
LEMMA AcceptDemand ==
  ASSUME TypeInv, TypeInv', DemandInv, StaySettled, HASHMAP_MAX_LEN < WINDOW_MAX,
         NEW m \in net, Accept(m)
  PROVE  DemandInv'
  <1> USE DEF receiverKeeps
  <1> DEFINE s     == m.seg
             w     == IF last = 0 THEN WINDOW ELSE last
             fresh == [NewIncoming EXCEPT !.window = w, !.watch = TRUE]
             first == Mapped(fresh, s, 0)
             q     == NextRequested(first, s)
  <1>1. /\ s \in Segment /\ last \in Nat /\ m \in Message
    BY DEF Accept, TypeInv, TypeOK, Message
  <1>2. m = Advertisement(s) BY <1>1 DEF Accept, Message, Advertisement
  <1>3. w \in Nat /\ 1 <= w /\ w <= WINDOW_MAX
    BY <1>1, ConstantsType, WindowAssumption DEF DemandInv, IncomingInv, WINDOW_MAX
  <1>4. /\ first \in Receiving(s) /\ Formed(first, s) /\ Requests(first)
        /\ Cardinality(first.known) = Lowest(HASHMAP_MAX_LEN, parts[s])
    <2> HIDE DEF s, w
    <2> QED BY <1>1, <1>3, AcceptedFormed DEF Requests
  <1>5. /\ inc' = [inc EXCEPT ![s] = q] /\ incoming' = incoming \cup {s}
        /\ net' \in Carried(net \ {m}, Request(first, s)) /\ "receiver" \in link
        /\ s \notin incoming /\ UNCHANGED <<parts, out, outgoing, last>>
    BY DEF Accept
  <1> HIDE DEF first, s
  <1>6. /\ Solid(q, s) /\ q.known = first.known
        /\ \A k \in Request(first, s) :
             /\ k.type = "REQ" /\ k.seg = s
             /\ k.last # 0 => /\ k.last = Cardinality(first.known)
                              /\ Cardinality(first.known) % HASHMAP_MAX_LEN = 0
                              /\ Cardinality(first.known) < parts[s]
                              /\ Cardinality(first.known) + 1 <= q.height + WINDOW_MAX
    BY <1>1, <1>4, <1>5, RequestedSolid
  <1>7. q \in Receiving(s) BY <1>1, <1>4, NextRequestedType
  <1> HIDE DEF q
  <1>8. inc'[s] = q /\ \A t \in Segment : t # s => inc'[t] = inc[t]
    BY <1>1, <1>5 DEF TypeInv, TypeOK
  <1>9. Advances(s) BY <1>2, <1>4, <1>5, <1>6, <1>7, <1>8 DEF Advances
  <1>10. \A t \in incoming' : Advances(t)
    BY <1>5, <1>8, <1>9, Stays DEF TypeInv, TypeOK
  <1>11. Demands
    <2>1. net' \subseteq (net \ {m}) \cup Request(first, s) BY <1>5, CarriedNew
    <2> QED BY <1>5, <1>6, <1>8, <2>1 DEF Demands
  <1>12. last' <= WINDOW_MAX BY <1>5 DEF DemandInv, IncomingInv
  <1> QED BY <1>5, <1>10, <1>11, <1>12, ReceiverKeepsDemand

\* Packets that leave the receiver's Resources alone.
LEMMA ReceiverIdleDemand ==
  ASSUME TypeInv, TypeInv', DemandInv, StaySettled, HASHMAP_MAX_LEN < WINDOW_MAX,
         NEW m \in net, Reject(m) \/ ReceiveCacheRequest(m) \/ Lose(m)
  PROVE  DemandInv'
  <1> USE DEF receiverKeeps
  <1>1. UNCHANGED <<parts, out, outgoing, inc, incoming, last>>
    BY DEF Reject, ReceiveCacheRequest, Lose
  <1>2. net' \subseteq net \cup {[type |-> "RCL", seg |-> m.seg], [type |-> "PRF", seg |-> m.seg]}
    BY CarriedNew DEF Reject, ReceiveCacheRequest, Lose
  <1>3. Demands BY <1>2 DEF Demands
  <1>4. \A t \in incoming' : Advances(t) BY <1>1, Stays
  <1>5. last' <= WINDOW_MAX BY <1>1 DEF DemandInv, IncomingInv
  <1> QED BY <1>1, <1>3, <1>4, <1>5, ReceiverKeepsDemand

\* Resources that leave the list, and one that changes in nothing that matters.
LEMMA FewerDemand ==
  ASSUME TypeInv, TypeInv', DemandInv, StaySettled, HASHMAP_MAX_LEN < WINDOW_MAX,
         UNCHANGED <<parts, out, outgoing>>, last' <= WINDOW_MAX, incoming' \subseteq incoming,
         \A s \in incoming' : inc'[s] = inc[s] \/ Advances(s),
         \A m \in net' \ net : m.type \notin {"REQ", "HMU"}
  PROVE  DemandInv'
  <1>1. \A s \in incoming' : Advances(s) BY Stays
  <1>2. Demands BY DEF Demands
  <1> QED BY <1>1, <1>2, ReceiverKeepsDemand

\* cancel() of the receiver.
LEMMA CancelIncomingDemand ==
  ASSUME TypeInv, TypeInv', DemandInv, StaySettled, HASHMAP_MAX_LEN < WINDOW_MAX,
         NEW s \in Segment, CancelIncoming(s),
         UNCHANGED <<parts, out, outgoing, last>>, net' \subseteq net
  PROVE  DemandInv'
  <1>1. /\ incoming' \subseteq incoming
        /\ \A t \in incoming' : inc'[t] = inc[t]
    BY DEF CancelIncoming, TypeInv, TypeOK
  <1>2. last' <= WINDOW_MAX BY DEF DemandInv, IncomingInv
  <1> QED BY <1>1, <1>2, FewerDemand

\* receive(): every incoming resource gets the part, and asks for more.
LEMMA ReceivePartDemand ==
  ASSUME TypeInv, TypeInv', LivedInv, DemandInv, StaySettled, HASHMAP_MAX_LEN < WINDOW_MAX,
         "PREEMPT" \notin Faults, NEW m \in net, ReceivePart(m)
  PROVE  DemandInv'
  <1> USE DEF receiverKeeps
  <1>1. PICK fast \in BOOLEAN, slow \in BOOLEAN :
          LET got(s)  == Received(inc[s], s, IF s = m.seg THEN m.part ELSE 0, fast, slow)
              more(s) == Continues(inc[s], got(s))
          IN  /\ inc' = [s \in Segment |->
                           IF s \notin incoming THEN inc[s]
                           ELSE IF more(s) THEN NextRequested(got(s), s) ELSE got(s)]
              /\ net' \in Carried(net \ {m}, UNION {IF more(s) THEN Request(got(s), s) ELSE {} :
                                                   s \in incoming})
    BY DEF ReceivePart
  <1> DEFINE p(s)    == IF s = m.seg THEN m.part ELSE 0
             got(s)  == Received(inc[s], s, p(s), fast, slow)
             more(s) == Continues(inc[s], got(s))
             asking  == UNION {IF more(s) THEN Request(got(s), s) ELSE {} : s \in incoming}
  <1>2. /\ "receiver" \in link /\ UNCHANGED <<parts, out, outgoing, incoming, last>>
        /\ \A s \in Segment : inc[s].assembly # "concludes" /\ p(s) \in Nat
    BY DEF ReceivePart, Undisturbed, TypeInv, TypeOK, Message
  <1>3. /\ \A s \in Segment : inc'[s] = IF s \notin incoming THEN inc[s]
                                       ELSE IF more(s) THEN NextRequested(got(s), s) ELSE got(s)
        /\ net' \in Carried(net \ {m}, asking)
    BY <1>1
  <1>4. \A s \in incoming :
          /\ s \in Segment /\ Advances(s)
          /\ more(s) => \A k \in Request(got(s), s) :
               /\ k.type = "REQ" /\ k.seg = s
               /\ k.last # 0 => /\ k.last = Cardinality(inc'[s].known)
                                /\ k.last % HASHMAP_MAX_LEN = 0 /\ k.last < parts[s]
                                /\ k.last + 1 <= inc'[s].height + WINDOW_MAX
    <2> SUFFICES ASSUME NEW s \in incoming
                 PROVE  /\ s \in Segment /\ Advances(s)
                        /\ more(s) => \A k \in Request(got(s), s) :
                             /\ k.type = "REQ" /\ k.seg = s
                             /\ k.last # 0 => /\ k.last = Cardinality(inc'[s].known)
                                              /\ k.last % HASHMAP_MAX_LEN = 0 /\ k.last < parts[s]
                                              /\ k.last + 1 <= inc'[s].height + WINDOW_MAX
      OBVIOUS
    <2> DEFINE r == inc[s]
               g == got(s)
               q == IF more(s) THEN NextRequested(g, s) ELSE g
    <2>1. s \in Segment /\ r \in Receiving(s) /\ Solid(r, s)
      BY IncType DEF TypeInv, TypeOK, DemandInv, IncomingInv
    <2>2. r.status # "FAILED" /\ r.assembly # "concludes"
      BY <1>2, <2>1 DEF LivedInv, Lived
    <2> HIDE DEF p
    <2>3. /\ Formed(g, s) /\ Counted(g) /\ (more(s) \/ Active(g))
          /\ g.known = r.known /\ r.height <= g.height
      BY <1>2, <2>1, <2>2, ReceivedSolid
    <2>4. g \in Receiving(s) /\ g.status = "TRANSFERRING"
      BY <1>2, <2>1, <2>2, ReceivedLived
    <2>5. inc'[s] = q BY <1>3, <2>1
    <2> HIDE DEF g, more
    <2>6. CASE more(s) /\ ~g.waiting
      <3>1. Requests(g) BY <2>4, <2>6 DEF Requests
      <3>2. /\ Solid(q, s) /\ q.known = g.known /\ q.height = g.height
            /\ \A k \in Request(g, s) :
                  /\ k.type = "REQ" /\ k.seg = s
                  /\ k.last # 0 => /\ k.last = Cardinality(g.known)
                                   /\ Cardinality(g.known) % HASHMAP_MAX_LEN = 0
                                   /\ Cardinality(g.known) < parts[s]
                                   /\ Cardinality(g.known) + 1 <= g.height + WINDOW_MAX
        BY <1>2, <2>1, <2>3, <2>4, <2>6, <3>1, RequestedSolid
      <3>3. q \in Receiving(s) BY <2>1, <2>4, <2>6, NextRequestedType
      <3>4. Hashes(s) \in Nat BY <2>1, AskedType DEF Hashes
      <3> HIDE DEF q, r
      <3>5. Advances(s) BY <2>3, <2>5, <3>2, <3>3, <3>4 DEF Advances, Hashes, r
      <3> QED BY <2>1, <2>5, <3>2, <3>5 DEF g
    <2>7. CASE ~more(s) \/ g.waiting
      <3>1. q = g
        BY <2>4, <2>7 DEF NextRequested, Requests
      <3>2. Active(g) BY <2>3, <2>7 DEF Active
      <3>3. Request(g, s) = {} \/ ~more(s) BY <2>7 DEF Request, Requests
      <3>4. Hashes(s) \in Nat BY <2>1, AskedType DEF Hashes
      <3> HIDE DEF q, r
      <3>5. Advances(s)
        BY <2>3, <2>4, <2>5, <3>1, <3>2, <3>4 DEF Advances, Hashes, Solid, r
      <3> QED BY <2>1, <3>3, <3>5 DEF g
    <2> QED BY <2>6, <2>7
  <1> HIDE DEF p, got, more
  <1>5. Demands
    <2>1. net' \subseteq (net \ {m}) \cup asking BY <1>3, CarriedNew
    <2> QED BY <1>2, <1>4, <2>1 DEF Demands
  <1>6. last' <= WINDOW_MAX BY <1>2 DEF DemandInv, IncomingInv
  <1> QED BY <1>2, <1>4, <1>5, <1>6, ReceiverKeepsDemand

\* hashmap_update_packet() of the sender's answer.
LEMMA ReceiveHashmapDemand ==
  ASSUME TypeInv, TypeInv', DemandInv, StaySettled, HASHMAP_MAX_LEN < WINDOW_MAX,
         "LATE" \notin Faults, NEW m \in net, ReceiveHashmap(m)
  PROVE  DemandInv'
  <1> USE DEF receiverKeeps
  <1> DEFINE s     == m.seg
             heard == [inc[s] EXCEPT !.retries = MAX_RETRIES]
             next  == Mapped(heard, s, m.from)
             q     == NextRequested(next, s)
  <1>1. /\ m.type = "HMU" /\ m.from \in Nat /\ s \in Segment /\ s \in incoming
        /\ "receiver" \in link /\ Settled(s) /\ UpdateFits(m)
    BY DEF ReceiveHashmap, InTurn, TypeInv, TypeOK, Message, DemandInv, UpdatesInv,
       UpdateFits, Settled
  <1>2. /\ inc[s] \in Receiving(s) /\ Formed(inc[s], s) /\ Hashes(s) \in Nat
        /\ inc[s].height \in Nat
    <2>1. inc[s] \in Receiving(s) /\ Formed(inc[s], s)
      BY <1>1, IncType DEF DemandInv, IncomingInv, Solid
    <2> QED BY <1>1, <2>1, AskedType DEF Hashes, Receiving, Incoming
  <1>3. /\ heard \in Receiving(s) /\ heard.known = inc[s].known /\ heard.got = inc[s].got
        /\ heard.height = inc[s].height /\ heard.window = inc[s].window
        /\ heard.window_max = inc[s].window_max /\ heard.window_min = inc[s].window_min
        /\ heard.assembly = inc[s].assembly
    BY <1>2, ConstantsType DEF Receiving, Incoming
  <1>4. /\ inc' = [inc EXCEPT ![s] = q] /\ UNCHANGED <<parts, out, outgoing, incoming, last>>
        /\ net' \in Carried(net \ {m}, Request(next, s))
    BY DEF ReceiveHashmap
  <1> HIDE DEF heard, s
  <1>5. Formed(heard, s) BY <1>2, <1>3 DEF Formed, Exact
  <1>6. /\ next \in Receiving(s) /\ Formed(next, s) /\ next.height = inc[s].height
        /\ Requests(next) /\ Hashes(s) <= Cardinality(next.known)
        /\ \/ Cardinality(next.known) = Hashes(s)
           \/ Cardinality(next.known) <= m.from + HASHMAP_MAX_LEN
    <2>1. m.from % HASHMAP_MAX_LEN = 0 /\ m.from <= Cardinality(heard.known)
      BY <1>1, <1>3 DEF UpdateFits, Hashes, s
    <2> QED BY <1>1, <1>3, <1>5, <2>1, MappedFormed DEF Requests, Hashes
  <1> HIDE DEF next
  <1>7. /\ Solid(q, s) /\ q.known = next.known /\ q.height = next.height
        /\ \A k \in Request(next, s) :
             /\ k.type = "REQ" /\ k.seg = s
             /\ k.last # 0 => /\ k.last = Cardinality(next.known)
                              /\ Cardinality(next.known) % HASHMAP_MAX_LEN = 0
                              /\ Cardinality(next.known) < parts[s]
                              /\ Cardinality(next.known) + 1 <= next.height + WINDOW_MAX
    BY <1>1, <1>6, RequestedSolid
  <1>8. q \in Receiving(s) BY <1>1, <1>6, NextRequestedType
  <1> HIDE DEF q
  <1>9. inc'[s] = q /\ \A t \in Segment : t # s => inc'[t] = inc[t]
    BY <1>1, <1>4 DEF TypeInv, TypeOK
  <1>10. Advances(s)
    <2>1. m.type = "HMU" /\ m.seg = s BY <1>1 DEF s
    <2> QED BY <1>1, <1>2, <1>6, <1>7, <1>8, <1>9, <2>1 DEF Advances
  <1>11. \A t \in incoming' : Advances(t)
    BY <1>4, <1>9, <1>10, Stays DEF TypeInv, TypeOK
  <1>12. Demands
    <2>1. net' \subseteq (net \ {m}) \cup Request(next, s) BY <1>4, CarriedNew
    <2> QED BY <1>1, <1>4, <1>7, <1>9, <2>1 DEF Demands
  <1>13. last' <= WINDOW_MAX BY <1>4 DEF DemandInv, IncomingInv
  <1> QED BY <1>4, <1>11, <1>12, <1>13, ReceiverKeepsDemand

\* The watchdog asks once more, within a smaller window, or gives up.
LEMMA ReceiverTimeoutDemand ==
  ASSUME TypeInv, TypeInv', LivedInv, DemandInv, StaySettled, HASHMAP_MAX_LEN < WINDOW_MAX,
         NEW s \in Segment, ReceiverTimeout(s)
  PROVE  DemandInv'
  <1> USE DEF receiverKeeps
  <1> DEFINE narrow == Narrowed(inc[s])
             retry  == [narrow EXCEPT !.retries = @ - 1, !.waiting = FALSE]
             q      == NextRequested(retry, s)
  <1>1. /\ inc[s] \in Receiving(s) /\ inc[s].status = "TRANSFERRING"
        /\ s \in incoming /\ Formed(inc[s], s)
    BY IncType DEF ReceiverTimeout, LivedInv, Lived, DemandInv, IncomingInv, Solid
  <1>2. CASE ~(inc[s].retries > 0)
    <2>1. CancelIncoming(s) /\ UNCHANGED <<parts, out, outgoing, last, net>>
      BY <1>2 DEF ReceiverTimeout
    <2> QED BY <2>1, CancelIncomingDemand
  <1>3. CASE inc[s].retries > 0
    <2>1. /\ narrow \in Receiving(s)
          /\ 1 <= narrow.window /\ narrow.window <= WINDOW_MAX
          /\ narrow.window_max <= WINDOW_MAX /\ 1 <= narrow.window_min
          /\ narrow.known = inc[s].known /\ narrow.got = inc[s].got
          /\ narrow.height = inc[s].height /\ narrow.assembly = inc[s].assembly
          /\ narrow.status = inc[s].status
      BY <1>1, WindowType, WindowSolid DEF Formed
    <2>2. narrow.retries = inc[s].retries /\ inc[s].retries - 1 \in Nat
      BY <1>1, <1>3 DEF Narrowed, Receiving, Incoming
    <2>3. /\ inc' = [inc EXCEPT ![s] = q] /\ UNCHANGED <<parts, out, outgoing, last>>
          /\ incoming' = IF "receiver" \in link THEN incoming ELSE incoming \ {s}
          /\ net' \in Carried(net, Request(retry, s))
      BY <1>3 DEF ReceiverTimeout
    <2> HIDE DEF narrow
    <2>4. /\ retry \in Receiving(s) /\ retry.known = narrow.known /\ retry.got = narrow.got
          /\ retry.height = narrow.height /\ retry.assembly = narrow.assembly
          /\ retry.window = narrow.window /\ retry.window_max = narrow.window_max
          /\ retry.window_min = narrow.window_min /\ ~retry.waiting
          /\ retry.status = "TRANSFERRING"
      BY <1>1, <2>1, <2>2 DEF Receiving, Incoming
    <2> HIDE DEF retry
    <2>5. Formed(retry, s) /\ Requests(retry)
      BY <1>1, <2>1, <2>4 DEF Formed, Exact, Requests
    <2>6. q \in Receiving(s) BY <2>4, NextRequestedType
    <2>7. Hashes(s) \in Nat /\ inc[s].height \in Nat /\ retry.known = inc[s].known
          /\ retry.height = inc[s].height
      BY <1>1, <2>1, <2>4, AskedType DEF Hashes, Receiving, Incoming
    <2>8. \A t \in Segment : t # s => inc'[t] = inc[t] BY <2>3
    <2>9. inc'[s] = q BY <2>3 DEF TypeInv, TypeOK
    <2>10. net' \subseteq net \cup Request(retry, s) BY <2>3, CarriedNew
    <2>11. last' <= WINDOW_MAX BY <2>3 DEF DemandInv, IncomingInv
    <2> HIDE DEF q
    <2>12. CASE "receiver" \notin link
      <3>1. Request(retry, s) = {} BY <2>12 DEF Request, Send
      <3>2. /\ incoming' \subseteq incoming
            /\ \A t \in incoming' : inc'[t] = inc[t]
        BY <2>3, <2>8, <2>12 DEF TypeInv, TypeOK
      <3> QED BY <2>3, <2>10, <2>11, <3>1, <3>2, FewerDemand
    <2>13. CASE "receiver" \in link
      <3>1. /\ Solid(q, s) /\ q.known = retry.known /\ q.height = retry.height
            /\ \A k \in Request(retry, s) :
                 /\ k.type = "REQ" /\ k.seg = s
                 /\ k.last # 0 => /\ k.last = Cardinality(retry.known)
                                  /\ Cardinality(retry.known) % HASHMAP_MAX_LEN = 0
                                  /\ Cardinality(retry.known) < parts[s]
                                  /\ Cardinality(retry.known) + 1 <= retry.height + WINDOW_MAX
        BY <2>4, <2>5, <2>13, RequestedSolid DEF q
      <3>2. Advances(s) BY <1>1, <2>6, <2>7, <2>9, <3>1 DEF Advances, Hashes
      <3>3. \A t \in incoming' : Advances(t)
        BY <2>3, <2>8, <2>13, <3>2, Stays DEF TypeInv, TypeOK
      <3>4. Demands BY <1>1, <2>3, <2>9, <2>10, <2>13, <3>1 DEF Demands
      <3> QED BY <2>3, <2>11, <3>3, <3>4, ReceiverKeepsDemand
    <2> QED BY <2>12, <2>13
  <1> QED BY <1>2, <1>3

\* The assembling thread, and the end of a watchdog.
LEMMA AssembleDemand ==
  ASSUME TypeInv, TypeInv', DemandInv, StaySettled, HASHMAP_MAX_LEN < WINDOW_MAX,
         NEW s \in Segment, Assemble(s) \/ WatchdogEnds(s)
  PROVE  DemandInv'
  <1> USE DEF receiverKeeps
  <1>1. inc[s] \in Receiving(s) /\ (s \in incoming => Solid(inc[s], s)) /\ last <= WINDOW_MAX
    BY IncType DEF DemandInv, IncomingInv
  <1>2. UNCHANGED <<parts, out, outgoing>> /\ incoming' \subseteq incoming
    BY DEF Assemble, AssembleStart, AssembleStore, AssembleFail, AssembleConclude, WatchdogEnds
  <1>3. \A t \in Segment : t # s => inc'[t] = inc[t]
    BY DEF Assemble, AssembleStart, AssembleStore, AssembleFail, AssembleConclude, WatchdogEnds,
       TypeInv, TypeOK
  <1>4. \A m \in net' \ net : m.type \notin {"REQ", "HMU"}
    <2>1. net' \subseteq net \cup {[type |-> "PRF", seg |-> s]}
      BY CarriedNew
      DEF Assemble, AssembleStart, AssembleStore, AssembleFail, AssembleConclude, WatchdogEnds,
          Send
    <2> QED BY <2>1
  <1>5. last' <= WINDOW_MAX
    BY <1>1 DEF Assemble, AssembleStart, AssembleStore, AssembleFail, AssembleConclude,
       WatchdogEnds, Solid, Formed
  <1>6. ASSUME s \in incoming' PROVE Advances(s)
    <2>1. ~AssembleConclude(s) BY <1>6 DEF AssembleConclude
    <2>2. /\ inc'[s].known = inc[s].known /\ inc'[s].got = inc[s].got
          /\ inc'[s].height = inc[s].height /\ inc'[s].window = inc[s].window
          /\ inc'[s].window_max = inc[s].window_max /\ inc'[s].window_min = inc[s].window_min
          /\ inc'[s].outstanding = inc[s].outstanding /\ inc'[s].waiting = inc[s].waiting
          /\ inc'[s].assembly # "none" <=> inc[s].assembly # "none"
      <3>1. CASE WatchdogEnds(s)
        BY <1>1, <3>1 DEF WatchdogEnds, Receiving, Incoming, TypeInv, TypeOK
      <3>2. CASE AssembleStart(s) \/ AssembleStore(s) \/ AssembleFail(s)
        <4>1. inc[s].assembly # "none"
          BY <3>2 DEF AssembleStart, AssembleStore, AssembleFail
        <4>2. PICK v \in Status, a \in {"joins", "concludes", "ended"} :
                inc' = [inc EXCEPT ![s] = [inc[s] EXCEPT !.status = v, !.assembly = a]]
          <5>1. CASE AssembleStart(s) /\ inc[s].status = "FAILED"
            <6>1. [inc[s] EXCEPT !.assembly = "ended"]
                    = [inc[s] EXCEPT !.status = "FAILED", !.assembly = "ended"]
              BY <1>1, <5>1 DEF Receiving, Incoming
            <6> QED BY <5>1, <6>1 DEF AssembleStart, Status
          <5>2. CASE AssembleStart(s) /\ inc[s].status # "FAILED"
            BY <5>2 DEF AssembleStart, Status, Open
          <5>3. CASE AssembleStore(s) \/ AssembleFail(s)
            BY <5>3 DEF AssembleStore, AssembleFail, Status
          <5> QED BY <3>2, <5>1, <5>2, <5>3
        <4> DEFINE q == [inc[s] EXCEPT !.status = v, !.assembly = a]
        <4>3. /\ q.known = inc[s].known /\ q.got = inc[s].got
              /\ q.height = inc[s].height /\ q.window = inc[s].window
              /\ q.window_max = inc[s].window_max /\ q.window_min = inc[s].window_min
              /\ q.outstanding = inc[s].outstanding /\ q.waiting = inc[s].waiting
              /\ q.assembly = a
          BY <1>1 DEF Receiving, Incoming
        <4>4. inc'[s] = q BY <4>2 DEF TypeInv, TypeOK
        <4> HIDE DEF q
        <4> QED BY <4>1, <4>3, <4>4
      <3> QED BY <2>1, <3>1, <3>2 DEF Assemble
    <2>3. s \in incoming BY <1>2, <1>6
    <2>4. Solid(inc'[s], s) BY <1>1, <2>2, <2>3, SolidSame
    <2>5. inc'[s] \in Receiving(s)
      BY <1>2 DEF TypeInv, TypeOK, KnownExist, Receiving, Segment, Segments
    <2>6. inc[s].height \in Nat /\ Hashes(s) \in Nat
      BY <1>1, AskedType DEF Hashes, Receiving, Incoming
    <2> QED BY <2>2, <2>3, <2>4, <2>5, <2>6 DEF Advances, Hashes
  <1>7. \A t \in incoming' : inc'[t] = inc[t] \/ Advances(t)
    BY <1>2, <1>3, <1>6 DEF TypeInv, TypeOK
  <1> QED BY <1>2, <1>4, <1>5, <1>7, FewerDemand

\* The link closes at the receiver.
LEMMA CloseReceiverDemand ==
  ASSUME TypeInv, TypeInv', DemandInv, StaySettled, HASHMAP_MAX_LEN < WINDOW_MAX, CloseReceiver
  PROVE  DemandInv'
  <1>1. PICK some \in Walked(incoming, inc) :
          /\ inc' = [s \in Segment |-> IF s \in some THEN Dropped(Cancelled(inc[s])) ELSE inc[s]]
          /\ incoming' = incoming \ some
    BY DEF CloseReceiver
  <1>2. UNCHANGED <<parts, out, outgoing, last, net>> BY DEF CloseReceiver
  <1>3. \A t \in incoming' : inc'[t] = inc[t] BY <1>1 DEF TypeInv, TypeOK
  <1>4. last' <= WINDOW_MAX BY <1>2 DEF DemandInv, IncomingInv
  <1> QED BY <1>1, <1>2, <1>3, <1>4, FewerDemand

\* Steps of the sender that neither send hashes nor move the beginning of its
\* search, unless they drop the resource.
LEMMA SenderKeepsDemand ==
  ASSUME TypeInv, DemandInv, StaySettled, HASHMAP_MAX_LEN < WINDOW_MAX,
         UNCHANGED <<parts, inc, incoming, last>>,
         \A m \in net' \ net : m.type \notin {"REQ", "HMU"},
         \A m \in net' : m.seg \in Segment,
         \A s \in Segment : out'[s].floor = out[s].floor \/ (out'[s].floor = 0 /\ s \notin outgoing'),
         \A s \in outgoing' : s \in Segment /\ (s \in outgoing \/ ~Past(s))
  PROVE  DemandInv'
  <1>1. /\ HASHMAP_MAX_LEN \in Nat \ {0} /\ WINDOW_MAX \in Nat /\ COLLISION_GUARD_SIZE \in Nat
        /\ COLLISION_GUARD_SIZE = 2 * WINDOW_MAX + HASHMAP_MAX_LEN
    BY ConstantsType DEF WINDOW_MAX, COLLISION_GUARD_SIZE
  <1>2. Segment' = Segment BY DEF Segment, Segments
  <1>3. \A s \in Segment : Hashes(s) \in Nat /\ inc[s].height \in Nat /\ out[s].floor \in Nat
    <2>1. \A s \in Segment : inc[s] \in Receiving(s) BY IncType
    <2>2. \A s \in Segment : Hashes(s) \in Nat BY <2>1, AskedType DEF Hashes
    <2> QED BY <2>1, <2>2 DEF Receiving, Incoming, TypeInv, TypeOK, Outgoing
  <1>4. IncomingInv'
    <2>1. \A s \in incoming : Solid(inc[s], s)' <=> Solid(inc[s], s)
      BY DEF Solid, Formed, Exact, Counted, Active
    <2> QED BY <2>1 DEF DemandInv, IncomingInv, Hashes, WINDOW_MAX
  <1>5. RequestsInv'
    BY DEF DemandInv, RequestsInv, RequestFits, Hashes
  <1>6. UpdatesInv'
    <2> SUFFICES ASSUME NEW m \in net', m.type = "HMU" PROVE UpdateFits(m)'
      BY DEF UpdatesInv
    <2>1. m \in net /\ UpdateFits(m) BY DEF DemandInv, UpdatesInv
    <2>2. m.seg \in Segment /\ (Past(m.seg) => Past(m.seg)') BY DEF StaySettled
    <2> QED BY <2>1, <2>2 DEF UpdateFits, Hashes
  <1>7. \A s \in Segment : ~Settled(s)' => ~Settled(s) BY DEF StaySettled
  <1>8. FreshInv'
    <2>1. ASSUME NEW s \in Segment, ~Settled(s)'
          PROVE  out'[s].floor = 0 /\ (s \in incoming => Hashes(s) <= HASHMAP_MAX_LEN)
      BY <1>7, <2>1 DEF DemandInv, FreshInv
    <2>2. ASSUME NEW m \in net', ~Settled(m.seg)'
          PROVE  /\ m.type = "REQ" => m.last <= HASHMAP_MAX_LEN
                 /\ m.type = "HMU" => m.from <= HASHMAP_MAX_LEN
      <3>1. ~Settled(m.seg) BY <1>7, <2>2
      <3> QED BY <3>1 DEF DemandInv, FreshInv
    <2> QED BY <1>2, <2>1, <2>2 DEF FreshInv, Hashes
  <1>9. FloorInv'
    <2>1. ASSUME NEW s \in incoming, s \in outgoing' PROVE FloorBelow(s)'
      <3>1. CASE s \in outgoing
        <4>1. FloorBelow(s) /\ out'[s].floor = out[s].floor
          BY <2>1, <3>1 DEF DemandInv, FloorInv
        <4> QED BY <4>1 DEF FloorBelow, Hashes, COLLISION_GUARD_SIZE, WINDOW_MAX
      <3>2. CASE s \notin outgoing
        <4>1. ~Settled(s) BY <2>1, <3>2 DEF Settled
        <4>2. out'[s].floor = 0 /\ Hashes(s) <= HASHMAP_MAX_LEN
          BY <2>1, <4>1 DEF DemandInv, FreshInv
        <4>3. 0 <= inc[s].height /\ Hashes(s) <= 0 + COLLISION_GUARD_SIZE
          BY <1>1, <1>3, <2>1, <4>2
        <4> QED BY <4>2, <4>3 DEF FloorBelow, Hashes, COLLISION_GUARD_SIZE, WINDOW_MAX
      <3> QED BY <3>1, <3>2
    <2>2. ASSUME NEW m \in net', m.type = "HMU", m.seg \in incoming, m.seg \in outgoing'
          PROVE  m.from + HASHMAP_MAX_LEN <= out'[m.seg].floor + COLLISION_GUARD_SIZE
      <3>1. m \in net /\ m.from \in Nat BY <2>2 DEF TypeInv, TypeOK, Message
      <3>2. CASE m.seg \in outgoing
        <4>1. m.from + HASHMAP_MAX_LEN <= out[m.seg].floor + COLLISION_GUARD_SIZE
          BY <2>2, <3>1, <3>2 DEF DemandInv, FloorInv
        <4>2. m.seg \in Segment BY <2>2
        <4>3. out'[m.seg].floor = out[m.seg].floor BY <2>2, <4>2
        <4> QED BY <4>1, <4>3
      <3>3. CASE m.seg \notin outgoing
        <4>1. ~Settled(m.seg) BY <2>2, <3>3 DEF Settled
        <4>2. m.from <= HASHMAP_MAX_LEN /\ out'[m.seg].floor = 0
          BY <2>2, <3>1, <4>1 DEF DemandInv, FreshInv
        <4> QED BY <1>1, <3>1, <4>2
      <3> QED BY <3>2, <3>3
    <2> QED BY <2>1, <2>2 DEF FloorInv, COLLISION_GUARD_SIZE, WINDOW_MAX
  <1> QED BY <1>4, <1>5, <1>6, <1>8, <1>9 DEF DemandInv

\* Advertising, the sender's watchdog and its applications, and the packets that
\* end a segment.
LEMMA SenderDemand ==
  ASSUME TypeInv, TypeInv', TransferInv, DemandInv, StaySettled, HASHMAP_MAX_LEN < WINDOW_MAX,
         \/ OtherConcluded \/ SenderCancels \/ CloseSender
         \/ \E s \in Segment : AdvertiseQueued(s) \/ AdvertiseJob(s) \/ SenderTimeout(s)
         \/ \E m \in net : ReceiveProof(m) \/ ReceiveRejection(m)
  PROVE  DemandInv'
  <1> USE DEF senderKeeps
  <1> DEFINE Quiet(s) == out'[s].floor = out[s].floor \/ (out'[s].floor = 0 /\ s \notin outgoing')
  <1>1. Segment' = Segment
        /\ (\A m \in net' : m.seg \in Segment) /\ (\A s \in outgoing' : s \in Segment)
    <2>1. parts' = parts
      BY DEF OtherConcluded, SenderCancels, CloseSender, AdvertiseQueued, AdvertiseJob,
         AdvertiseSend, AdvertiseRegister, SenderTimeout, SenderTimeoutAdvertised,
         SenderTimeoutTransferring, SenderTimeoutProof, ReceiveProof, ReceiveRejection
    <2>2. Segment' = Segment BY <2>1 DEF Segment, Segments
    <2> QED BY <2>2 DEF TypeInv, TypeOK, Message
  <1>2. \A s \in Segment : out[s] \in Outgoing BY DEF TypeInv, TypeOK
  <1>3. ASSUME NEW r PROVE Ended(r).floor = 0 BY DEF Ended, NewOutgoing
  <1>4. ASSUME NEW s \in Segment, CancelOutgoing(s), UNCHANGED senderKeeps
        PROVE  DemandInv'
    <2>1. outgoing' = outgoing \ {s} /\ \A t \in Segment : Quiet(t)
      BY <1>3, <1>4 DEF CancelOutgoing, TypeInv, TypeOK
    <2>2. net' \subseteq net \cup {[type |-> "ICL", seg |-> s]}
      BY <1>4, CarriedNew DEF CancelOutgoing, Send
    <2> QED BY <1>1, <1>4, <2>1, <2>2, SenderKeepsDemand
  <1>5. CASE OtherConcluded
    BY <1>1, <1>5, SenderKeepsDemand DEF OtherConcluded
  <1>6. CASE SenderCancels
    BY <1>4, <1>6, FirstStarted DEF SenderCancels
  <1>7. CASE CloseSender
    <2>1. PICK some \in Walked(outgoing, out) :
            /\ out' = [s \in Segment |-> IF s \in some THEN Ended(Cancelled(out[s])) ELSE out[s]]
            /\ outgoing' = outgoing \ some
      BY <1>7 DEF CloseSender
    <2>2. \A s \in Segment : Quiet(s) BY <1>3, <2>1
    <2> QED BY <1>1, <1>7, <2>1, <2>2, SenderKeepsDemand DEF CloseSender
  <1>8. ASSUME NEW s \in Segment, AdvertiseQueued(s) \/ AdvertiseJob(s) PROVE DemandInv'
    <2>1. UNCHANGED <<parts, inc, incoming, last>>
      BY <1>8 DEF AdvertiseQueued, AdvertiseJob, AdvertiseSend, AdvertiseRegister
    <2>2. net' \subseteq net \cup {Advertisement(s)}
      <3>1. CASE AdvertiseQueued(s) BY <3>1 DEF AdvertiseQueued
      <3>2. CASE AdvertiseSend(s) BY <3>2, CarriedNew DEF AdvertiseSend, Send
      <3>3. CASE AdvertiseRegister(s) BY <3>3 DEF AdvertiseRegister
      <3> QED BY <1>8, <3>1, <3>2, <3>3 DEF AdvertiseJob
    <2>3. \A t \in Segment : out'[t].floor = out[t].floor
      <3>1. CASE AdvertiseQueued(s)
        BY <1>2, <3>1 DEF AdvertiseQueued, Outgoing, TypeInv, TypeOK
      <3>2. CASE AdvertiseSend(s)
        BY <1>2, <3>2 DEF AdvertiseSend, Outgoing, TypeInv, TypeOK
      <3>3. CASE AdvertiseRegister(s)
        BY <1>2, <3>3 DEF AdvertiseRegister, Outgoing, TypeInv, TypeOK
      <3> QED BY <1>8, <3>1, <3>2, <3>3 DEF AdvertiseJob
    <2>4. \A t \in outgoing' : t \in outgoing \/ (t = s /\ ~Past(s))
      BY <1>8 DEF AdvertiseQueued, AdvertiseJob, AdvertiseSend, AdvertiseRegister, Past
    <2>5. \A m \in net' \ net : m.type \notin {"REQ", "HMU"} BY <2>2 DEF Advertisement
    <2> QED BY <1>1, <2>1, <2>3, <2>4, <2>5, SenderKeepsDemand
  <1>9. ASSUME NEW s \in Segment, SenderTimeout(s) PROVE DemandInv'
    <2>1. UNCHANGED senderKeeps
      BY <1>9 DEF SenderTimeout, SenderTimeoutAdvertised, SenderTimeoutTransferring,
         SenderTimeoutProof
    <2>2. CASE CancelOutgoing(s) BY <1>4, <2>1, <2>2
    <2>3. CASE /\ out' = [out EXCEPT ![s].retries = @ - 1] /\ UNCHANGED outgoing
               /\ \/ net' \in Carried(net, Send("sender", {Advertisement(s)}))
                  \/ net' \in Carried(net, Send("sender", {[type |-> "CACHE_REQUEST", seg |-> s]}))
      <3>1. \A t \in Segment : out'[t].floor = out[t].floor
        BY <1>2, <2>3 DEF Outgoing, TypeInv, TypeOK
      <3>2. net' \subseteq net \cup {Advertisement(s), [type |-> "CACHE_REQUEST", seg |-> s]}
        BY <2>3, CarriedNew DEF Send
      <3>3. \A m \in net' \ net : m.type \notin {"REQ", "HMU"} BY <3>2 DEF Advertisement
      <3> QED BY <1>1, <2>1, <2>3, <3>1, <3>3, SenderKeepsDemand
    <2> QED
      BY <1>9, <2>2, <2>3 DEF SenderTimeout, SenderTimeoutAdvertised,
         SenderTimeoutTransferring, SenderTimeoutProof
  <1>10. ASSUME NEW m \in net, ReceiveProof(m) PROVE DemandInv'
    <2> DEFINE done == Ended([out[m.seg] EXCEPT !.status = "COMPLETE",
                  !.told = IF m.seg = Segments THEN Append(@, "COMPLETE") ELSE @])
    <2>1. /\ out' = [t \in Segment |-> IF t = m.seg THEN done
                                       ELSE IF t = m.seg + 1 THEN [out[t] EXCEPT !.job = "waits"]
                                       ELSE out[t]]
          /\ outgoing' = outgoing \ {m.seg} /\ net' = net \ {m}
          /\ UNCHANGED <<parts, inc, incoming, last>>
      BY <1>10 DEF ReceiveProof
    <2>2. done.floor = 0 BY <1>3
    <2> HIDE DEF done
    <2>3. \A t \in Segment : Quiet(t) BY <1>2, <2>1, <2>2 DEF Outgoing
    <2> QED BY <1>1, <2>1, <2>3, SenderKeepsDemand
  <1>11. ASSUME NEW m \in net, ReceiveRejection(m) PROVE DemandInv'
    <2> DEFINE told == [out[m.seg] EXCEPT !.status = "REJECTED", !.told = Append(@, "REJECTED")]
    <2>1. /\ out' = [out EXCEPT ![m.seg] = Ended(told)]
          /\ outgoing' = outgoing \ {m.seg} /\ net' = net \ {m}
          /\ UNCHANGED <<parts, inc, incoming, last>>
      BY <1>11 DEF ReceiveRejection
    <2>2. Ended(told).floor = 0 BY <1>3
    <2> HIDE DEF told
    <2>3. \A t \in Segment : Quiet(t) BY <2>1, <2>2 DEF TypeInv, TypeOK
    <2> QED BY <1>1, <2>1, <2>3, SenderKeepsDemand
  <1> QED BY <1>5, <1>6, <1>7, <1>8, <1>9, <1>10, <1>11

\* request() finds the place of the last hash of a timely request, and of any
\* request as long as the segment may be advertised.
LEMMA RequestPlaced ==
  ASSUME TypeInv, DemandInv, Timely, HASHMAP_MAX_LEN < WINDOW_MAX,
         NEW m \in net, m.type = "REQ", m.last # 0,
         m.seg \in outgoing, m.seg \in incoming \/ ~Settled(m.seg)
  PROVE  PartIndex(m.seg, m.last) = m.last
  <1> DEFINE s == m.seg
             v == m.last
             f == out[s].floor
  <1>1. /\ HASHMAP_MAX_LEN \in Nat \ {0} /\ WINDOW_MAX \in Nat /\ COLLISION_GUARD_SIZE \in Nat
        /\ COLLISION_GUARD_SIZE = 2 * WINDOW_MAX + HASHMAP_MAX_LEN
    BY ConstantsType DEF WINDOW_MAX, COLLISION_GUARD_SIZE
  <1>2. s \in Segment /\ v \in Nat /\ v # 0 BY DEF TypeInv, TypeOK, Message
  <1>3. f \in Nat /\ parts[s] \in Nat /\ Hashes(s) \in Nat
    <2>1. inc[s] \in Receiving(s) BY <1>2, IncType
    <2>2. Hashes(s) \in Nat BY <1>2, <2>1, AskedType DEF Hashes
    <2> QED BY <1>2, <2>2, SegmentsType DEF TypeInv, TypeOK, Outgoing
  <1>4. v < parts[s] BY DEF DemandInv, RequestsInv, RequestFits
  <1>5. f + 1 <= v /\ v <= f + COLLISION_GUARD_SIZE
    <2>1. CASE s \in incoming
      <3>1. v <= Hashes(s) /\ Hashes(s) <= v + HASHMAP_MAX_LEN
        BY <2>1 DEF DemandInv, RequestsInv, RequestFits, Timely, Hashes
      <3>2. (f = 0 \/ f + 1 + WINDOW_MAX <= Hashes(s)) /\ Hashes(s) <= f + COLLISION_GUARD_SIZE
        BY <2>1 DEF DemandInv, FloorInv, FloorBelow
      <3> HIDE DEF f, s, v
      <3> QED BY <1>1, <1>2, <1>3, <3>1, <3>2
    <2>2. CASE ~Settled(s)
      <3>1. f = 0 /\ v <= HASHMAP_MAX_LEN BY <1>2, <2>2 DEF DemandInv, FreshInv
      <3> HIDE DEF f, s, v
      <3> QED BY <1>1, <1>2, <1>3, <3>1
    <2> QED BY <2>1, <2>2
  <1>6. v \in f + 1 .. Lowest(f + COLLISION_GUARD_SIZE, parts[s])
    <2> HIDE DEF f, s, v
    <2> QED BY <1>1, <1>2, <1>3, <1>4, <1>5 DEF Lowest
  <1> QED BY <1>6 DEF PartIndex

\* The search goes on from a place that suits the requests and hashmap updates on
\* their way.
LEMMA ServedDemand ==
  ASSUME TypeInv, TypeInv', TransferInv, DemandInv, Timely, StaySettled,
         HASHMAP_MAX_LEN < WINDOW_MAX,
         NEW m \in net, m.type = "REQ", m.last # 0, m.seg \in outgoing, outgoing' = outgoing,
         UNCHANGED <<parts, inc, incoming, last>>,
         PartIndex(m.seg, m.last) % HASHMAP_MAX_LEN = 0, Past(m.seg)',
         out'[m.seg].floor = Floor(PartIndex(m.seg, m.last)),
         \A t \in Segment : t # m.seg => out'[t].floor = out[t].floor,
         \A k \in net' \ net :
           /\ k.type # "REQ"
           /\ k.type = "HMU" => k.seg = m.seg /\ k.from = PartIndex(m.seg, m.last)
  PROVE  DemandInv'
  <1> DEFINE s == m.seg
             v == m.last
             n == Hashes(s)
             index == PartIndex(s, v)
             floor == Floor(index)
  <1>1. /\ HASHMAP_MAX_LEN \in Nat \ {0} /\ WINDOW_MAX \in Nat /\ COLLISION_GUARD_SIZE \in Nat
        /\ COLLISION_GUARD_SIZE = 2 * WINDOW_MAX + HASHMAP_MAX_LEN
    BY ConstantsType DEF WINDOW_MAX, COLLISION_GUARD_SIZE
  <1>2. Segment' = Segment BY DEF Segment, Segments
  <1>3. \A t \in Segment : Hashes(t) \in Nat /\ inc[t].height \in Nat /\ out[t].floor \in Nat
                           /\ parts[t] \in Nat
    <2>1. \A t \in Segment : inc[t] \in Receiving(t) BY IncType
    <2>2. \A t \in Segment : Hashes(t) \in Nat BY <2>1, AskedType DEF Hashes
    <2> QED BY <2>1, <2>2, SegmentsType DEF Receiving, Incoming, TypeInv, TypeOK, Outgoing
  <1>4. s \in Segment /\ v \in Nat BY DEF TypeInv, TypeOK, Message
  <1>5. index \in Nat /\ index <= parts[s]
    <2>1. v < parts[s] BY DEF DemandInv, RequestsInv, RequestFits
    <2> QED BY <1>1, <1>3, <1>4, <2>1 DEF PartIndex, Lowest
  <1>6. s \in incoming \/ ~Settled(s) => index = v BY RequestPlaced
  <1>7. out'[s].floor = floor BY DEF floor
  <1>8. index % HASHMAP_MAX_LEN = 0 OBVIOUS
  <1>9. \A k \in net' \ net : k.type # "REQ" /\ (k.type = "HMU" => k.seg = s /\ k.from = index)
    OBVIOUS
  <1>10. \A k \in net' : k.seg \in Segment
    BY <1>2 DEF TypeInv, TypeOK, Message
  <1>11. \A k \in net : k.type = "HMU" => k.from \in Nat BY DEF TypeInv, TypeOK, Message
  <1> HIDE DEF index, floor, s, v
  <1>12. floor \in Nat /\ (floor = 0 \/ floor = index - 1 - WINDOW_MAX)
         /\ index - 1 - WINDOW_MAX <= floor
    BY <1>1, <1>5 DEF floor, Floor, Highest
  <1>13. IncomingInv'
    <2>1. \A t \in incoming : Solid(inc[t], t)' <=> Solid(inc[t], t)
      BY DEF Solid, Formed, Exact, Counted, Active
    <2> QED BY <2>1 DEF DemandInv, IncomingInv, Hashes, WINDOW_MAX
  <1>14. RequestsInv'
    BY <1>9 DEF DemandInv, RequestsInv, RequestFits, Hashes
  <1>15. s \in incoming => /\ index = v /\ v <= n /\ n <= v + HASHMAP_MAX_LEN
                           /\ v + 1 <= inc[s].height + WINDOW_MAX
    BY <1>6 DEF DemandInv, RequestsInv, RequestFits, Timely, s, v, Hashes
  <1> HIDE DEF n
  <1>16. UpdatesInv'
    <2> SUFFICES ASSUME NEW k \in net', k.type = "HMU" PROVE UpdateFits(k)'
      BY DEF UpdatesInv
    <2>1. CASE k \in net
      <3>1. UpdateFits(k) BY <2>1 DEF DemandInv, UpdatesInv
      <3>2. Past(k.seg) => Past(k.seg)' BY <1>10 DEF StaySettled
      <3> QED BY <3>1, <3>2 DEF UpdateFits, Hashes
    <2>2. CASE k \notin net
      <3>1. k.seg = s /\ k.from = index BY <1>9, <2>2
      <3>2. s \in incoming => index <= n BY <1>15
      <3>3. Past(s)' BY DEF s
      <3> QED BY <1>5, <1>8, <3>1, <3>2, <3>3 DEF UpdateFits, Hashes, n
    <2> QED BY <2>1, <2>2
  <1>17. \A t \in Segment : ~Settled(t)' => ~Settled(t) BY DEF StaySettled
  <1>18. ~Settled(s) => index = v /\ v <= HASHMAP_MAX_LEN /\ floor = 0
    <2> SUFFICES ASSUME ~Settled(s) PROVE index = v /\ v <= HASHMAP_MAX_LEN /\ floor = 0
      OBVIOUS
    <2>1. v <= HASHMAP_MAX_LEN BY DEF DemandInv, FreshInv, s, v
    <2> QED BY <1>1, <1>4, <1>6, <1>12, <2>1
  <1>19. \A t \in Segment : t # s => out'[t].floor = out[t].floor BY DEF s
  <1>20. FreshInv'
    <2>1. ASSUME NEW t \in Segment, ~Settled(t)'
          PROVE  out'[t].floor = 0 /\ (t \in incoming => Hashes(t) <= HASHMAP_MAX_LEN)
      BY <1>7, <1>17, <1>18, <1>19, <2>1 DEF DemandInv, FreshInv
    <2>2. ASSUME NEW k \in net', ~Settled(k.seg)'
          PROVE  /\ k.type = "REQ" => k.last <= HASHMAP_MAX_LEN
                 /\ k.type = "HMU" => k.from <= HASHMAP_MAX_LEN
      <3>1. ~Settled(k.seg) BY <1>10, <1>17, <2>2
      <3>2. CASE k \in net BY <3>1, <3>2 DEF DemandInv, FreshInv
      <3>3. CASE k \notin net BY <1>9, <1>18, <3>1, <3>3
      <3> QED BY <3>2, <3>3
    <2> QED BY <1>2, <2>1, <2>2 DEF FreshInv, Hashes
  <1>21. s \in incoming => /\ floor <= inc[s].height /\ (floor = 0 \/ floor + 1 + WINDOW_MAX <= n)
                           /\ n <= floor + COLLISION_GUARD_SIZE
                           /\ v + HASHMAP_MAX_LEN <= floor + COLLISION_GUARD_SIZE
                           /\ n + HASHMAP_MAX_LEN <= floor + COLLISION_GUARD_SIZE
    <2> SUFFICES ASSUME s \in incoming
                 PROVE  /\ floor <= inc[s].height /\ (floor = 0 \/ floor + 1 + WINDOW_MAX <= n)
                        /\ n <= floor + COLLISION_GUARD_SIZE
                        /\ v + HASHMAP_MAX_LEN <= floor + COLLISION_GUARD_SIZE
                        /\ n + HASHMAP_MAX_LEN <= floor + COLLISION_GUARD_SIZE
      OBVIOUS
    <2>1. n \in Nat /\ inc[s].height \in Nat BY <1>3, <1>4 DEF n
    <2> QED BY <1>1, <1>4, <1>12, <1>15, <2>1
  <1>22. FloorInv'
    <2>1. ASSUME NEW t \in incoming, t \in outgoing PROVE FloorBelow(t)'
      <3>1. t \in Segment BY DEF TypeInv, TypeOK
      <3>2. CASE t = s
        BY <1>7, <1>21, <2>1, <3>2 DEF FloorBelow, Hashes, n, COLLISION_GUARD_SIZE, WINDOW_MAX
      <3>3. CASE t # s
        <4>1. FloorBelow(t) /\ out'[t].floor = out[t].floor
          BY <1>19, <2>1, <3>1, <3>3 DEF DemandInv, FloorInv
        <4> QED BY <4>1 DEF FloorBelow, Hashes, COLLISION_GUARD_SIZE, WINDOW_MAX
      <3> QED BY <3>2, <3>3
    <2>2. ASSUME NEW k \in net', k.type = "HMU", k.seg \in incoming, k.seg \in outgoing
          PROVE  k.from + HASHMAP_MAX_LEN <= out'[k.seg].floor + COLLISION_GUARD_SIZE
      <3>1. CASE k.seg # s
        <4>1. k \in net BY <1>9, <2>2, <3>1
        <4>2. k.from + HASHMAP_MAX_LEN <= out[k.seg].floor + COLLISION_GUARD_SIZE
          BY <2>2, <4>1 DEF DemandInv, FloorInv
        <4>3. out'[k.seg].floor = out[k.seg].floor BY <1>10, <1>19, <2>2, <3>1
        <4> QED BY <4>2, <4>3
      <3>2. CASE k.seg = s /\ k \in net
        <4>1. k.from <= n BY <2>2, <3>2 DEF DemandInv, UpdatesInv, UpdateFits, n
        <4>2. n + HASHMAP_MAX_LEN <= floor + COLLISION_GUARD_SIZE BY <1>21, <2>2, <3>2
        <4>3. k.from \in Nat /\ n \in Nat BY <1>3, <1>4, <1>11, <2>2, <3>2 DEF n
        <4>4. k.from + HASHMAP_MAX_LEN <= floor + COLLISION_GUARD_SIZE
          BY <1>1, <1>12, <4>1, <4>2, <4>3
        <4> QED BY <1>7, <3>2, <4>4
      <3>3. CASE k.seg = s /\ k \notin net
        BY <1>7, <1>9, <1>15, <1>21, <2>2, <3>3
      <3> QED BY <3>1, <3>2, <3>3
    <2> QED BY <2>1, <2>2 DEF FloorInv, COLLISION_GUARD_SIZE, WINDOW_MAX
  <1> QED BY <1>13, <1>14, <1>16, <1>20, <1>22 DEF DemandInv

\* request()
LEMMA ReceiveRequestDemand ==
  ASSUME TypeInv, TypeInv', TransferInv, DemandInv, Timely, StaySettled,
         HASHMAP_MAX_LEN < WINDOW_MAX, NEW m \in net, ReceiveRequest(m)
  PROVE  DemandInv'
  <1> USE DEF senderKeeps
  <1> DEFINE s       == m.seg
             index   == PartIndex(s, m.last)
             floor   == Floor(index)
             found   == Found(s, m.asked)
             sent    == out[s].sent \cup found
             packets == {PartPacket(s, p) : p \in found}
             serving == [out[s] EXCEPT !.status = "TRANSFERRING", !.retries = MAX_RETRIES,
                                       !.sent = sent]
             moved   == [serving EXCEPT !.floor = floor]
             served(r) == IF Cardinality(sent) = parts[s]
                            THEN [r EXCEPT !.status = "AWAITING_PROOF",
                                           !.retries = PROOF_RETRIES] ELSE r
  <1>0. \/ /\ out' = [out EXCEPT ![s] = served(serving)]
            /\ net' \in Carried(net \ {m}, packets) /\ UNCHANGED outgoing
         \/ /\ m.last # 0 /\ index % HASHMAP_MAX_LEN = 0
            /\ out' = [out EXCEPT ![s] = served(moved)]
            /\ net' \in Carried(net \ {m}, packets \cup
                                           {[type |-> "HMU", seg |-> s, from |-> index]})
            /\ UNCHANGED outgoing
         \/ /\ out' = [out EXCEPT ![s] = Ended(Cancelled(serving))]
            /\ outgoing' = outgoing \ {s}
            /\ net' \in Carried(net \ {m}, packets \cup {[type |-> "ICL", seg |-> s]})
    BY DEF ReceiveRequest
  <1>1. /\ s \in Segment /\ s \in outgoing /\ m.type = "REQ"
        /\ UNCHANGED <<parts, inc, incoming, last>>
    BY DEF ReceiveRequest, TypeInv, TypeOK, Message
  <1>2. out[s] \in Outgoing BY <1>1 DEF TypeInv, TypeOK
  <1>3. Started(s) /\ out[s].job = "none"
    BY <1>1, TraceIsStarted DEF TransferInv, ListedOnce
  <1>4. \A k \in packets : k.type = "PART" BY DEF PartPacket
  <1>5. served(serving).floor = out[s].floor BY <1>2 DEF Outgoing
  <1>6. /\ served(moved).floor = floor /\ served(moved).job = "none"
        /\ served(moved).status # "ADVERTISED"
    <2>1. /\ serving \in [status : {"TRANSFERRING"}, job : {"none"}, retries : {MAX_RETRIES},
                          sent : {sent}, floor : Nat, told : Seq(Status)]
      BY <1>2, <1>3 DEF Outgoing
    <2> HIDE DEF serving, floor, sent
    <2>2. moved \in [status : {"TRANSFERRING"}, job : {"none"}, retries : {MAX_RETRIES},
                     sent : {sent}, floor : {floor}, told : Seq(Status)]
      BY <2>1
    <2> HIDE DEF moved
    <2> QED BY <2>2
  <1>7. Ended(Cancelled(serving)).floor = 0 BY DEF Ended, NewOutgoing
  <1>8. Segment' = Segment /\ \A k \in net' : k.seg \in Segment
    BY <1>1 DEF Segment, Segments, TypeInv, TypeOK, Message
  <1> HIDE DEF served, serving, moved, packets, floor
  <1>9. CASE /\ out' = [out EXCEPT ![s] = served(serving)]
             /\ net' \in Carried(net \ {m}, packets) /\ UNCHANGED outgoing
    <2>1. \A t \in Segment : out'[t].floor = out[t].floor
      BY <1>1, <1>5, <1>9 DEF TypeInv, TypeOK
    <2>2. net' \subseteq (net \ {m}) \cup packets BY <1>9, CarriedNew
    <2>3. \A k \in net' \ net : k.type \notin {"REQ", "HMU"} BY <1>4, <2>2
    <2>4. \A t \in outgoing' : t \in Segment /\ t \in outgoing BY <1>9 DEF TypeInv, TypeOK
    <2> QED BY <1>1, <1>8, <2>1, <2>3, <2>4, SenderKeepsDemand
  <1>10. CASE /\ m.last # 0 /\ index % HASHMAP_MAX_LEN = 0
              /\ out' = [out EXCEPT ![s] = served(moved)]
              /\ net' \in Carried(net \ {m}, packets \cup
                                             {[type |-> "HMU", seg |-> s, from |-> index]})
              /\ UNCHANGED outgoing
    <2>1. out'[s] = served(moved) /\ \A t \in Segment : t # s => out'[t] = out[t]
      BY <1>1, <1>10 DEF TypeInv, TypeOK
    <2>2. net' \subseteq (net \ {m}) \cup (packets \cup {[type |-> "HMU", seg |-> s, from |-> index]})
      BY <1>10, CarriedNew
    <2>3. \A k \in net' \ net : /\ k.type # "REQ"
                                /\ k.type = "HMU" => k.seg = s /\ k.from = index
      BY <1>4, <2>2
    <2>4. Past(s)'
      <3>1. \A t \in 1 .. s - 1 : t \in Segment /\ t # s
        BY <1>1, SegmentsType DEF Segment
      <3>2. Started(s)' BY <1>3, <2>1, <3>1 DEF Started
      <3> QED BY <1>6, <2>1, <3>2 DEF Past
    <2>5. out'[s].floor = Floor(index) BY <1>6, <2>1 DEF floor
    <2> QED BY <1>1, <1>10, <2>1, <2>3, <2>4, <2>5, ServedDemand
  <1>11. CASE /\ out' = [out EXCEPT ![s] = Ended(Cancelled(serving))]
              /\ outgoing' = outgoing \ {s}
              /\ net' \in Carried(net \ {m}, packets \cup {[type |-> "ICL", seg |-> s]})
    <2>1. \A t \in Segment : out'[t].floor = out[t].floor
                             \/ (out'[t].floor = 0 /\ t \notin outgoing')
      BY <1>1, <1>7, <1>11 DEF TypeInv, TypeOK
    <2>2. net' \subseteq (net \ {m}) \cup (packets \cup {[type |-> "ICL", seg |-> s]})
      BY <1>11, CarriedNew
    <2>3. \A k \in net' \ net : k.type \notin {"REQ", "HMU"} BY <1>4, <2>2
    <2>4. \A t \in outgoing' : t \in Segment /\ t \in outgoing BY <1>11 DEF TypeInv, TypeOK
    <2> QED BY <1>1, <1>8, <2>1, <2>3, <2>4, SenderKeepsDemand
  <1> QED BY <1>9, <1>10, <1>11, <1>0

\* Nothing is asked for at the start.
LEMMA DemandInit == Init => DemandInv
  <1> SUFFICES ASSUME Init PROVE DemandInv
    OBVIOUS
  <1>1. 0 <= WINDOW_MAX BY ConstantsType DEF WINDOW_MAX
  <1>2. \A s \in Segment : out[s].floor = 0 BY DEF Init, NewOutgoing
  <1>3. incoming = {} /\ outgoing = {} /\ net = {} /\ last = 0 BY DEF Init
  <1> QED BY <1>1, <1>2, <1>3
    DEF DemandInv, IncomingInv, RequestsInv, UpdatesInv, FreshInv, FloorInv

\* Every step keeps DemandInv, as long as requests are timely.
LEMMA DemandNext ==
  ASSUME TypeInv, TransferInv, LivedInv, DemandInv, Timely, [Next]_vars,
         "LATE" \notin Faults, "PREEMPT" \notin Faults, HASHMAP_MAX_LEN < WINDOW_MAX
  PROVE  DemandInv'
  <1> USE DEF senderKeeps, receiverKeeps
  <1>1. TypeInv' /\ StaySettled BY TypeNext, TransferNext
  <1>2. CASE OtherConcluded \/ SenderCancels \/ CloseSender
    BY <1>1, <1>2, SenderDemand
  <1>3. CASE CloseReceiver BY <1>1, <1>3, CloseReceiverDemand
  <1>4. ASSUME NEW s \in Segment, Watchdog(s) \/ Thread(s) \/ ReceiverCancels(s)
        PROVE  DemandInv'
    <2>1. CASE ReceiverTimeout(s) BY <1>1, <2>1, ReceiverTimeoutDemand
    <2>2. CASE Assemble(s) \/ WatchdogEnds(s) BY <1>1, <2>2, AssembleDemand
    <2>3. CASE ReceiverCancels(s)
      BY <1>1, <2>3, CancelIncomingDemand DEF ReceiverCancels
    <2>4. CASE AdvertiseQueued(s) \/ AdvertiseJob(s) \/ SenderTimeout(s)
      BY <1>1, <2>4, SenderDemand
    <2> QED
      BY <1>4, <2>1, <2>2, <2>3, <2>4 DEF Watchdog, Thread, Assemble, AdvertiseJob, SenderTimeout
  <1>5. ASSUME NEW m \in net, Receive(m) \/ Lose(m) PROVE DemandInv'
    <2>1. CASE ReceiveRequest(m) BY <1>1, <2>1, ReceiveRequestDemand
    <2>2. CASE ReceiveProof(m) \/ ReceiveRejection(m) BY <1>1, <2>2, SenderDemand
    <2>3. CASE Reject(m) \/ ReceiveCacheRequest(m) \/ Lose(m)
      BY <1>1, <2>3, ReceiverIdleDemand
    <2>4. CASE Accept(m) BY <1>1, <2>4, AcceptDemand
    <2>5. CASE ReceivePart(m) BY <1>1, <2>5, ReceivePartDemand
    <2>6. CASE ReceiveHashmap(m) BY <1>1, <2>6, ReceiveHashmapDemand
    <2>7. CASE ReceiveCancel(m)
      <3>1. m.seg \in Segment /\ net' \subseteq net
        BY <2>7 DEF ReceiveCancel, TypeInv, TypeOK, Message
      <3> QED BY <1>1, <2>7, <3>1, CancelIncomingDemand DEF ReceiveCancel
    <2> QED BY <1>5, <2>1, <2>2, <2>3, <2>4, <2>5, <2>6, <2>7 DEF Receive
  <1>6. CASE UNCHANGED vars
    <2>1. Segment' = Segment BY <1>6 DEF vars, Segment, Segments
    <2>2. \A m \in net' : m.seg \in Segment
      BY <1>6 DEF vars, TypeInv, TypeOK, Message
    <2>3. \A s \in outgoing' : s \in Segment /\ s \in outgoing
      BY <1>6 DEF vars, TypeInv, TypeOK
    <2> QED BY <1>1, <1>6, <2>2, <2>3, SenderKeepsDemand DEF vars
  <1> QED BY <1>2, <1>3, <1>4, <1>5, <1>6 DEF Next

\* What the receiver would ask for is what the sender looks at.
LEMMA DemandMet ==
  ASSUME TypeInv, DemandInv PROVE DemandServed
  <1> SUFFICES ASSUME NEW s \in Segment, s \in incoming, s \in outgoing
               PROVE  /\ Found(s, Asked(inc[s], s)) = Asked(inc[s], s)
                      /\ PartIndex(s, Hashes(s)) = Hashes(s)
    BY DEF DemandServed, Collecting, Hashes
  <1> DEFINE r == inc[s]
             f == out[s].floor
             n == Hashes(s)
             scope == f + 1 .. Lowest(f + COLLISION_GUARD_SIZE, parts[s])
  <1>1. COLLISION_GUARD_SIZE \in Nat /\ WINDOW_MAX \in Nat /\ f \in Nat /\ r \in Receiving(s)
    BY ConstantsType, IncType DEF COLLISION_GUARD_SIZE, WINDOW_MAX, TypeInv, TypeOK, Outgoing
  <1>2. Exact(r, s) /\ n # 0 BY DEF DemandInv, IncomingInv, Solid, Formed
  <1>3. /\ n \in Nat /\ n <= parts[s] /\ r.known = 1 .. n /\ r.height \in Nat
        /\ parts[s] \in Nat \ {0} /\ r.window \in Nat
    BY <1>1, <1>2, ExactNumbers DEF Hashes
  <1>4. f <= r.height /\ (f = 0 \/ f + 1 + WINDOW_MAX <= n) /\ n <= f + COLLISION_GUARD_SIZE
    BY DEF DemandInv, FloorInv, FloorBelow
  <1> HIDE DEF f, n, r
  <1>5. f + 1 .. n \subseteq scope /\ n \in scope
    BY <1>1, <1>2, <1>3, <1>4 DEF Lowest
  <1>6. Asked(r, s) \subseteq f + 1 .. n
    <2>1. ASSUME NEW p \in Asked(r, s) PROVE p \in f + 1 .. n
      <3>1. p \in Missing(r, s) /\ \A q \in Unknown(r, s) : p < q BY <2>1 DEF Asked
      <3>2. p \in Nat /\ r.height + 1 <= p
        BY <1>3, <3>1 DEF Missing, Lowest
      <3>3. p \in r.known BY <3>1, <3>2 DEF Unknown
      <3> QED BY <1>1, <1>3, <1>4, <3>2, <3>3
    <2> QED BY <2>1
  <1>7. Found(s, Asked(r, s)) = Asked(r, s) /\ PartIndex(s, n) = n
    <2>1. Asked(r, s) \subseteq scope BY <1>5, <1>6
    <2> QED BY <1>5, <2>1 DEF Found, PartIndex, f
  <1> QED BY <1>7 DEF r, n

\* What is short of two hashmap updates has only timely requests.
LEMMA ShortIsTimely ==
  ASSUME TypeInv, DemandInv,
         \A sizes \in Sizes : \A i \in DOMAIN sizes : sizes[i] <= 2 * HASHMAP_MAX_LEN
  PROVE  Timely
  <1> SUFFICES ASSUME NEW m \in net, m.type = "REQ", m.last # 0, m.seg \in incoming
               PROVE  Hashes(m.seg) <= m.last + HASHMAP_MAX_LEN
    BY DEF Timely, Hashes
  <1> DEFINE s == m.seg
  <1>1. HASHMAP_MAX_LEN \in Nat \ {0} BY ConstantsType
  <1>2. s \in Segment /\ m.last \in Nat /\ inc[s] \in Receiving(s)
    BY IncType DEF TypeInv, TypeOK, Message
  <1>3. Exact(inc[s], s) BY DEF DemandInv, IncomingInv, Solid, Formed
  <1>4. Hashes(s) \in Nat /\ Hashes(s) <= parts[s] /\ parts[s] \in Nat
    BY <1>2, <1>3, ExactNumbers DEF Hashes
  <1>5. parts[s] <= 2 * HASHMAP_MAX_LEN
    <2>1. parts \in Sizes /\ parts \in Seq(Nat \ {0})
      BY SizesAssumption DEF TypeInv, TypeOK
    <2> QED BY <1>2, <2>1 DEF Segment, Segments
  <1>6. HASHMAP_MAX_LEN <= m.last
    <2>1. m.last % HASHMAP_MAX_LEN = 0 BY DEF DemandInv, RequestsInv, RequestFits
    <2>2. 0 \in Nat /\ 0 % HASHMAP_MAX_LEN = 0 /\ 0 < m.last BY <1>1, <1>2
    <2>3. 0 + HASHMAP_MAX_LEN <= m.last BY <1>2, <2>1, <2>2, Multiples
    <2> QED BY <1>1, <2>3
  <1> QED BY <1>1, <1>2, <1>4, <1>5, <1>6

\* The invariant all three properties follow from.
LEMMA DemandCorrect ==
  ASSUME Faults \cap {"LATE", "PREEMPT"} = {}, HASHMAP_MAX_LEN < WINDOW_MAX
  PROVE  Spec /\ []Timely => [](TypeInv /\ DemandInv)
  <1>1. Init => TypeInv /\ TransferInv /\ LivedInv /\ DemandInv
    <2>1. Init => LivedInv BY DEF Init, LivedInv, Lived, NewIncoming
    <2> QED BY <2>1, TypeInit, TransferInit, DemandInit
  <1>2. TypeInv /\ TransferInv /\ LivedInv /\ DemandInv /\ Timely /\ [Next]_vars
          => TypeInv' /\ TransferInv' /\ LivedInv' /\ DemandInv'
    BY TypeNext, TransferNext, LivedNext, DemandNext
  <1> QED BY <1>1, <1>2, PTL DEF Spec

\* Unless a request is overtaken by two hashmap updates, the hashmap and the
\* parts the receiver counts are gapless, in whatever order and however often
\* they come (hashmap_update(), receive_part()).
THEOREM ProgressIsExactCorrect ==
  ASSUME Faults \cap {"LATE", "PREEMPT"} = {}, HASHMAP_MAX_LEN < WINDOW_MAX
  PROVE  Spec /\ []Timely => []ProgressIsExact
  <1>1. DemandInv => ProgressIsExact
    BY DEF DemandInv, IncomingInv, Solid, Formed, Exact, ProgressIsExact, Collecting
  <1> QED BY <1>1, DemandCorrect, PTL

\* Nor does the sender's search ever leave what the receiver may ask for: request()
\* finds every part, and the place of the last hash, so that it does not cancel.
THEOREM DemandServedCorrect ==
  ASSUME Faults \cap {"LATE", "PREEMPT"} = {}, HASHMAP_MAX_LEN < WINDOW_MAX
  PROVE  Spec /\ []Timely => []DemandServed
  <1>1. TypeInv /\ DemandInv => DemandServed BY DemandMet
  <1> QED BY <1>1, DemandCorrect, PTL

\* Nor does outstanding_parts ever get out by one, so that a receiver with
\* nothing outstanding waits for an update or has all parts.
THEOREM NeverIdleCorrect ==
  ASSUME Faults \cap {"LATE", "PREEMPT"} = {}, HASHMAP_MAX_LEN < WINDOW_MAX
  PROVE  Spec /\ []Timely => []NeverIdle
  <1>1. DemandInv => NeverIdle
    BY DEF DemandInv, IncomingInv, Solid, Counted, Active, NeverIdle, Collecting
  <1> QED BY <1>1, DemandCorrect, PTL

\* Segments of at most two hashmaps need no such condition: no request of theirs
\* can be overtaken by two updates.
THEOREM ShortTransfersCorrect ==
  ASSUME Faults \cap {"LATE", "PREEMPT"} = {}, HASHMAP_MAX_LEN < WINDOW_MAX,
         \A sizes \in Sizes : \A i \in DOMAIN sizes : sizes[i] <= 2 * HASHMAP_MAX_LEN
  PROVE  Spec => [](ProgressIsExact /\ DemandServed /\ NeverIdle)
  <1>1. Init => TypeInv /\ TransferInv /\ LivedInv /\ DemandInv
    <2>1. Init => LivedInv BY DEF Init, LivedInv, Lived, NewIncoming
    <2> QED BY <2>1, TypeInit, TransferInit, DemandInit
  <1>2. TypeInv /\ TransferInv /\ LivedInv /\ DemandInv /\ [Next]_vars
          => TypeInv' /\ TransferInv' /\ LivedInv' /\ DemandInv'
    <2>1. TypeInv /\ DemandInv => Timely BY ShortIsTimely
    <2> QED BY <2>1, TypeNext, TransferNext, LivedNext, DemandNext
  <1>3. TypeInv /\ DemandInv => ProgressIsExact /\ DemandServed /\ NeverIdle
    <2>1. DemandInv => ProgressIsExact
      BY DEF DemandInv, IncomingInv, Solid, Formed, Exact, ProgressIsExact, Collecting
    <2>2. DemandInv => NeverIdle
      BY DEF DemandInv, IncomingInv, Solid, Counted, Active, NeverIdle, Collecting
    <2> QED BY <2>1, <2>2, DemandMet
  <1> QED BY <1>1, <1>2, <1>3, PTL DEF Spec

-----------------------------------------------------------------------------
(***************************************************************************)
(* Neither end waits for what nothing brings about.                        *)
(***************************************************************************)

\* A segment that is about to be advertised or is listed: the one under way.
Current(s) == out[s].job # "none" \/ s \in outgoing

Untold == \A s \in Segment : out[s].told = <<>>

\* One segment is under way until the sender's application is told the outcome, and
\* never two, so that an advertisement waits for other resources only, whose end is
\* certain; and a watchdog looks after what is listed.
SenderPending ==
  /\ \A s, t \in Segment : Current(s) /\ Current(t) => s = t
  /\ \A s \in Segment : out[s].job # "none" => s \notin outgoing
  /\ \A s \in outgoing : out[s].status \in {"ADVERTISED", "TRANSFERRING", "AWAITING_PROOF"}
  /\ Untold => \E s \in Segment : Current(s)

\* What a step may make of the sender's segment s.
Proceeds(s) ==
  /\ Current(s)' => Current(s)
  /\ out'[s].job # "none" => s \notin outgoing'
  /\ s \in outgoing' => out'[s].status \in {"ADVERTISED", "TRANSFERRING", "AWAITING_PROOF"}
  /\ \/ out'[s].told # <<>>
     \/ out'[s].told = out[s].told /\ (Current(s) => Current(s)')

\* Such steps keep SenderPending.
LEMMA ProceedsPending ==
  ASSUME SenderPending, UNCHANGED parts, outgoing \subseteq Segment, outgoing' \subseteq Segment,
         \A s \in Segment : Proceeds(s)
  PROVE  SenderPending'
  <1>1. Segment' = Segment BY DEF Segment, Segments
  <1>2. ASSUME Untold' PROVE \E s \in Segment : Current(s)'
    BY <1>1, <1>2 DEF SenderPending, Untold, Proceeds
  <1> QED BY <1>1, <1>2 DEF SenderPending, Proceeds

\* The other segments stay as they are.
LEMMA StaysPending ==
  ASSUME SenderPending, NEW s \in Segment, out'[s] = out[s], s \in outgoing' <=> s \in outgoing
  PROVE  Proceeds(s)
  BY DEF SenderPending, Proceeds, Current

\* A Resource that is cancelled tells its application.
LEMMA CancelledTells ==
  ASSUME NEW r \in Outgoing, r.status \in Open
  PROVE  /\ Ended(Cancelled(r)).told # <<>> /\ Ended(Cancelled(r)).job = r.job
         /\ Ended(Cancelled(r)).status = "FAILED"
  <1>1. r.told \in Seq(Status) /\ "FAILED" \in Status BY DEF Outgoing, Status
  <1>2. Append(r.told, "FAILED") # <<>> BY <1>1, AppendProperties
  <1> DEFINE c == [r EXCEPT !.status = "FAILED", !.told = Append(@, "FAILED")]
  <1>3. c.status = "FAILED" /\ c.told = Append(r.told, "FAILED") /\ c.job = r.job
    BY DEF Outgoing
  <1>4. Cancelled(r) = c BY DEF Cancelled
  <1> HIDE DEF c
  <1> QED BY <1>2, <1>3, <1>4 DEF Ended, NewOutgoing

LEMMA CancelOutgoingProceeds ==
  ASSUME TypeInv, SenderPending, UNCHANGED parts, NEW s \in Segment, CancelOutgoing(s),
         out[s].status \in Open
  PROVE  \A t \in Segment : Proceeds(t)
  <1>1. out[s] \in Outgoing BY DEF TypeInv, TypeOK
  <1>2. /\ out'[s] = Ended(Cancelled(out[s])) /\ outgoing' = outgoing \ {s}
        /\ \A t \in Segment \ {s} : out'[t] = out[t]
    BY DEF CancelOutgoing, TypeInv, TypeOK
  <1>3. out'[s].told # <<>> /\ out'[s].job = out[s].job BY <1>1, <1>2, CancelledTells
  <1>4. Proceeds(s) BY <1>2, <1>3 DEF Proceeds, Current
  <1> QED BY <1>2, <1>4, StaysPending

\* The thread that advertises, and the watchdog.
LEMMA SenderThreadProceeds ==
  ASSUME TypeInv, SenderPending, NEW s \in Segment,
         AdvertiseQueued(s) \/ AdvertiseSend(s) \/ AdvertiseRegister(s) \/ SenderTimeout(s)
  PROVE  \A t \in Segment : Proceeds(t)
  <1> USE DEF senderKeeps
  <1>1. out[s] \in Outgoing BY DEF TypeInv, TypeOK
  <1>2. CASE AdvertiseQueued(s) \/ AdvertiseSend(s) \/ AdvertiseRegister(s)
    <2>1. /\ out[s].job # "none" /\ out'[s].told = out[s].told
          /\ \/ out'[s].job # "none" /\ outgoing' = outgoing
             \/ /\ out'[s].job = "none" /\ out'[s].status = "ADVERTISED"
                /\ outgoing' = outgoing \cup {s}
      BY <1>1, <1>2 DEF AdvertiseQueued, AdvertiseSend, AdvertiseRegister, TypeInv, TypeOK, Outgoing
    <2>2. \A t \in Segment \ {s} : out'[t] = out[t]
      BY <1>2 DEF AdvertiseQueued, AdvertiseSend, AdvertiseRegister, TypeInv, TypeOK
    <2>3. Proceeds(s) BY <2>1 DEF SenderPending, Proceeds, Current
    <2> QED BY <2>1, <2>2, <2>3, StaysPending
  <1>3. CASE SenderTimeout(s)
    <2>1. /\ UNCHANGED parts /\ out[s].status \in Open
          /\ \/ CancelOutgoing(s)
             \/ out' = [out EXCEPT ![s].retries = @ - 1] /\ UNCHANGED outgoing
      BY <1>3 DEF SenderTimeout, SenderTimeoutAdvertised, SenderTimeoutTransferring,
         SenderTimeoutProof, Open, Waiting
    <2>2. CASE CancelOutgoing(s) BY <2>1, <2>2, CancelOutgoingProceeds
    <2>3. CASE out' = [out EXCEPT ![s].retries = @ - 1] /\ UNCHANGED outgoing
      <3>1. /\ out'[s].job = out[s].job /\ out'[s].told = out[s].told
            /\ out'[s].status = out[s].status
            /\ \A t \in Segment \ {s} : out'[t] = out[t]
        BY <1>1, <2>3 DEF TypeInv, TypeOK, Outgoing
      <3>2. Proceeds(s) BY <2>3, <3>1 DEF SenderPending, Proceeds, Current
      <3> QED BY <2>3, <3>1, <3>2, StaysPending
    <2> QED BY <2>1, <2>2, <2>3
  <1> QED BY <1>2, <1>3

\* request() goes on with the segment or cancels it.
LEMMA ReceiveRequestProceeds ==
  ASSUME TypeInv, SenderPending, NEW m \in net, ReceiveRequest(m)
  PROVE  \A t \in Segment : Proceeds(t)
  <1> USE DEF senderKeeps
  <1> DEFINE s       == m.seg
             sent    == out[s].sent \cup Found(s, m.asked)
             serving == [out[s] EXCEPT !.status = "TRANSFERRING", !.retries = MAX_RETRIES,
                                       !.sent = sent]
             further == [serving EXCEPT !.floor = Floor(PartIndex(s, m.last))]
             served(r) == IF Cardinality(sent) = parts[s]
                            THEN [r EXCEPT !.status = "AWAITING_PROOF", !.retries = PROOF_RETRIES]
                            ELSE r
  <1>1. s \in Segment /\ out[s] \in Outgoing /\ s \in outgoing
    BY DEF ReceiveRequest, TypeInv, TypeOK, Message
  <1>2. \/ out' \in {[out EXCEPT ![s] = served(serving)], [out EXCEPT ![s] = served(further)]}
           /\ outgoing' = outgoing
        \/ out' = [out EXCEPT ![s] = Ended(Cancelled(serving))] /\ outgoing' = outgoing \ {s}
    BY DEF ReceiveRequest
  <1> HIDE DEF sent
  <1>3. serving.status = "TRANSFERRING" /\ serving.job = out[s].job /\ serving.told = out[s].told
    BY <1>1 DEF Outgoing
  <1>4. further.status = "TRANSFERRING" /\ further.job = out[s].job /\ further.told = out[s].told
    BY <1>1 DEF Outgoing
  <1>5. \A t \in Segment \ {s} : out'[t] = out[t] /\ (t \in outgoing' <=> t \in outgoing)
    BY <1>1, <1>2 DEF TypeInv, TypeOK
  <1>6. out'[s] \in {served(serving), served(further), Ended(Cancelled(serving))}
    BY <1>1, <1>2 DEF TypeInv, TypeOK
  <1>7. CASE out'[s] \in {served(serving), served(further)} /\ outgoing' = outgoing
    <2>1. /\ out'[s].status \in {"TRANSFERRING", "AWAITING_PROOF"}
          /\ out'[s].job = out[s].job /\ out'[s].told = out[s].told
      BY <1>1, <1>7 DEF Outgoing
    <2> QED BY <1>1, <1>5, <1>7, <2>1, StaysPending DEF SenderPending, Proceeds, Current
  <1>8. CASE out'[s] = Ended(Cancelled(serving)) /\ outgoing' = outgoing \ {s}
    <2>1. /\ serving.status \in Open /\ serving.told \in Seq(Status) /\ "FAILED" \in Status
      BY <1>1, <1>3 DEF Outgoing, Status, Open, Waiting
    <2>2. Cancelled(serving).told # <<>> /\ Cancelled(serving).job = serving.job
      <3>1. Append(serving.told, "FAILED") # <<>> BY <2>1, AppendProperties
      <3> QED BY <1>1, <2>1, <3>1 DEF Cancelled, Outgoing
    <2> HIDE DEF serving
    <2>3. out'[s].told # <<>> /\ out'[s].job = out[s].job
      BY <1>3, <1>8, <2>2 DEF Ended, NewOutgoing
    <2>4. Proceeds(s) BY <1>1, <1>8, <2>3 DEF SenderPending, Proceeds, Current
    <2> QED BY <1>5, <2>4, StaysPending
  <1>9. \/ out'[s] \in {served(serving), served(further)} /\ outgoing' = outgoing
        \/ out'[s] = Ended(Cancelled(serving)) /\ outgoing' = outgoing \ {s}
    BY <1>1, <1>2 DEF TypeInv, TypeOK
  <1> QED BY <1>7, <1>8, <1>9

\* validate_proof() tells the application of the last segment, and makes the one
\* after another segment the one that is under way.
LEMMA ReceiveProofPending ==
  ASSUME TypeInv, SenderPending, NEW m \in net, ReceiveProof(m)
  PROVE  SenderPending'
  <1> USE DEF senderKeeps
  <1> DEFINE s    == m.seg
             done == [out[s] EXCEPT !.status = "COMPLETE",
                        !.told = IF s = Segments THEN Append(@, "COMPLETE") ELSE @]
  <1>1. /\ s \in Segment /\ s \in outgoing /\ out[s] \in Outgoing
        /\ Segments \in Nat /\ outgoing \subseteq Segment
    BY SegmentsType DEF ReceiveProof, TypeInv, TypeOK, Message
  <1>2. /\ out' = [t \in Segment |-> IF t = s THEN Ended(done)
                                     ELSE IF t = s + 1 THEN [out[t] EXCEPT !.job = "waits"]
                                     ELSE out[t]]
        /\ outgoing' = outgoing \ {s} /\ UNCHANGED parts
    BY DEF ReceiveProof
  <1>3. Segment' = Segment /\ s \in 1 .. Segments BY <1>1, <1>2 DEF Segment, Segments
  <1>4. done.job = "none" /\ done.told = IF s = Segments THEN Append(out[s].told, "COMPLETE")
                                         ELSE out[s].told
    BY <1>1 DEF SenderPending, Outgoing
  <1> HIDE DEF done
  <1>5. out'[s].job = "none" /\ out'[s].told = done.told
    BY <1>1, <1>2, <1>4 DEF Ended, NewOutgoing
  <1>6. \A t \in Segment \ {s} : out[t].job = "none" /\ t \notin outgoing
    BY <1>1 DEF SenderPending, Current
  <1>7. outgoing' = {} BY <1>1, <1>2, <1>6
  <1>8. \A t \in Segment : t # s + 1 => out'[t].job = "none"
    BY <1>2, <1>5, <1>6
  <1>9. ASSUME Untold' PROVE s + 1 \in Segment /\ out'[s + 1].job = "waits"
    <2>1. s # Segments
      <3>1. out[s].told \in Seq(Status) /\ "COMPLETE" \in Status BY <1>1 DEF Outgoing, Status
      <3>2. Append(out[s].told, "COMPLETE") # <<>> BY <3>1, AppendProperties
      <3> QED BY <1>1, <1>3, <1>4, <1>5, <1>9, <3>2 DEF Untold
    <2>2. s + 1 \in Segment /\ s + 1 # s BY <1>1, <1>3, <2>1 DEF Segment
    <2>3. out[s + 1] \in Outgoing BY <2>2 DEF TypeInv, TypeOK
    <2>4. out'[s + 1] = [out[s + 1] EXCEPT !.job = "waits"] BY <1>2, <2>2
    <2> QED BY <2>2, <2>3, <2>4 DEF Outgoing
  <1> QED BY <1>3, <1>7, <1>8, <1>9 DEF SenderPending, Current

\* _rejected() tells the application; so does link_closed() of what it cancels.
LEMMA ReceiveRejectionProceeds ==
  ASSUME TypeInv, SenderPending, NEW m \in net, ReceiveRejection(m)
  PROVE  \A t \in Segment : Proceeds(t)
  <1> USE DEF senderKeeps
  <1> DEFINE s    == m.seg
             done == [out[s] EXCEPT !.status = "REJECTED", !.told = Append(@, "REJECTED")]
  <1>1. s \in Segment /\ s \in outgoing /\ out[s] \in Outgoing
    BY DEF ReceiveRejection, TypeInv, TypeOK, Message
  <1>2. /\ out' = [out EXCEPT ![s] = Ended(done)] /\ outgoing' = outgoing \ {s}
    BY DEF ReceiveRejection
  <1>3. done.job = out[s].job /\ done.told # <<>>
    <2>1. out[s].told \in Seq(Status) /\ "REJECTED" \in Status
      BY <1>1 DEF Outgoing, Status, Open, Waiting
    <2>2. Append(out[s].told, "REJECTED") # <<>> BY <2>1, AppendProperties
    <2> QED BY <1>1, <2>2 DEF Outgoing
  <1> HIDE DEF done
  <1>4. /\ out'[s].told # <<>> /\ out'[s].job = out[s].job
        /\ \A t \in Segment \ {s} : out'[t] = out[t]
    BY <1>1, <1>2, <1>3 DEF Ended, NewOutgoing, TypeInv, TypeOK
  <1>5. Proceeds(s) BY <1>1, <1>2, <1>4 DEF Proceeds, Current
  <1> QED BY <1>2, <1>4, <1>5, StaysPending

LEMMA CloseSenderProceeds ==
  ASSUME TypeInv, SenderPending, CloseSender
  PROVE  \A t \in Segment : Proceeds(t)
  <1>1. PICK some \in Walked(outgoing, out) :
          /\ out' = [s \in Segment |-> IF s \in some THEN Ended(Cancelled(out[s])) ELSE out[s]]
          /\ outgoing' = outgoing \ some
    BY DEF CloseSender
  <1>2. ASSUME NEW t \in Segment, t \in some PROVE Proceeds(t)
    <2>1. out[t] \in Outgoing /\ out[t].status \in Open
      BY <1>2 DEF TypeInv, TypeOK, Walked
    <2>2. out'[t].told # <<>> /\ out'[t].job = out[t].job BY <1>1, <1>2, <2>1, CancelledTells
    <2> QED BY <1>1, <1>2, <2>2 DEF Proceeds, Current
  <1> QED BY <1>1, <1>2, StaysPending

\* Every step keeps SenderPending.
LEMMA SenderPendingNext ==
  ASSUME TypeInv, SenderPending, [Next]_vars
  PROVE  SenderPending'
  <1> USE DEF senderKeeps, receiverKeeps
  <1>1. /\ outgoing \subseteq Segment /\ outgoing' \subseteq Segment
        /\ UNCHANGED parts
    <2>1. TypeInv' BY TypeNext
    <2>2. UNCHANGED parts
      BY DEF Next, vars, OtherConcluded, SenderCancels, CloseSender, CloseReceiver, Watchdog,
         Thread, ReceiverCancels, Receive, Lose, SenderTimeoutAdvertised,
         SenderTimeoutTransferring, SenderTimeoutProof, ReceiverTimeout, WatchdogEnds,
         AdvertiseQueued, AdvertiseSend, AdvertiseRegister, AssembleStart, AssembleStore,
         AssembleFail, AssembleConclude, ReceiveRequest, ReceiveProof, ReceiveRejection, Accept,
         Reject, ReceivePart, ReceiveHashmap, ReceiveCancel, ReceiveCacheRequest
    <2> QED BY <2>1, <2>2 DEF TypeInv, TypeOK, Segment, Segments
  <1>2. ASSUME UNCHANGED <<out, outgoing>> PROVE SenderPending'
    BY <1>1, <1>2, StaysPending, ProceedsPending
  <1>3. ASSUME \A s \in Segment : Proceeds(s) PROVE SenderPending'
    BY <1>1, <1>3, ProceedsPending
  <1>4. CASE SenderCancels
    <2>1. 1 \in Segment
      BY SegmentsType, SizesAssumption DEF TypeInv, TypeOK, Segment, Segments
    <2> QED BY <1>1, <1>3, <1>4, <2>1, CancelOutgoingProceeds DEF SenderCancels
  <1>5. CASE CloseSender BY <1>3, <1>5, CloseSenderProceeds
  <1>6. CASE OtherConcluded \/ CloseReceiver \/ UNCHANGED vars
    BY <1>2, <1>6 DEF OtherConcluded, CloseReceiver, vars
  <1>7. ASSUME NEW s \in Segment, Watchdog(s) \/ Thread(s) \/ ReceiverCancels(s)
        PROVE  SenderPending'
    <2>1. CASE AdvertiseQueued(s) \/ AdvertiseSend(s) \/ AdvertiseRegister(s) \/ SenderTimeout(s)
      BY <1>3, <2>1, SenderThreadProceeds
    <2>2. CASE ReceiverTimeout(s) \/ WatchdogEnds(s) \/ ReceiverCancels(s)
      BY <1>2, <2>2 DEF ReceiverTimeout, WatchdogEnds, ReceiverCancels
    <2>3. CASE AssembleStart(s) \/ AssembleStore(s) \/ AssembleFail(s) \/ AssembleConclude(s)
      BY <1>2, <2>3 DEF AssembleStart, AssembleStore, AssembleFail, AssembleConclude
    <2> QED BY <1>7, <2>1, <2>2, <2>3 DEF Watchdog, Thread, SenderTimeout
  <1>8. ASSUME NEW m \in net, Receive(m) \/ Lose(m) PROVE SenderPending'
    <2>1. CASE ReceiveRequest(m) BY <1>3, <2>1, ReceiveRequestProceeds
    <2>2. CASE ReceiveProof(m) BY <2>2, ReceiveProofPending
    <2>3. CASE ReceiveRejection(m) BY <1>3, <2>3, ReceiveRejectionProceeds
    <2>4. CASE Accept(m) \/ Reject(m) \/ ReceivePart(m) \/ ReceiveHashmap(m)
      BY <1>2, <2>4 DEF Accept, Reject, ReceivePart, ReceiveHashmap
    <2>5. CASE ReceiveCancel(m) \/ ReceiveCacheRequest(m) \/ Lose(m)
      BY <1>2, <2>5 DEF ReceiveCancel, ReceiveCacheRequest, Lose
    <2> QED BY <1>8, <2>1, <2>2, <2>3, <2>4, <2>5 DEF Receive
  <1> QED BY <1>4, <1>5, <1>6, <1>7, <1>8 DEF Next

\* The safety behind SenderConcludes, with all mishaps: until the sender's application
\* is told an outcome, exactly one segment is under way, which is about to be advertised
\* or in a state its watchdog ends (advertise(), __watchdog_job(), validate_proof()).
THEOREM SenderPendingCorrect == Spec => []SenderPending
  <1>1. Init => SenderPending
    <2> SUFFICES ASSUME Init PROVE SenderPending
      OBVIOUS
    <2>1. 1 \in Segment /\ \A s \in Segment : out[s].job # "none" <=> s = 1
      BY SizesAssumption DEF Init, Segment, Segments, NewOutgoing
    <2> QED BY <2>1 DEF Init, SenderPending, Current
  <1> QED BY <1>1, TypeInit, TypeNext, SenderPendingNext, PTL DEF Spec

\* Somebody acts on the Resource: its watchdog, or the thread that assembles it.
Attended(r) ==
  /\ r.status # "FAILED"
  /\ \/ r.status = "TRANSFERRING" /\ r.watch
     \/ r.assembly \in {"starts", "joins", "concludes"}

\* Whatever the receiver lists will be taken off the list.
ReceiverPending == \A s \in incoming : Attended(inc[s])

\* request_next() leaves it so as long as the link is open.
LEMMA RequestedAttended ==
  ASSUME TypeInv, NEW s \in Segment, NEW r \in Receiving(s), Attended(r), "receiver" \in link
  PROVE  Attended(NextRequested(r, s))
  <1> DEFINE asking == [r EXCEPT !.outstanding = Cardinality(Asked(r, s)),
                                 !.waiting = Unknown(r, s) # {}]
  <1>1. /\ asking.status = r.status /\ asking.watch = r.watch
        /\ asking.assembly = r.assembly
    BY DEF Receiving, Incoming
  <1>2. NextRequested(r, s) \in {r, asking} BY DEF NextRequested
  <1> HIDE DEF asking
  <1> QED BY <1>1, <1>2 DEF Attended

\* One Resource at the receiver changes.
LEMMA AttendedMoves ==
  ASSUME TypeInv, ReceiverPending, NEW s \in Segment, NEW q, inc' = [inc EXCEPT ![s] = q],
         incoming' \subseteq incoming \cup {s}, s \in incoming' => Attended(q)
  PROVE  ReceiverPending'
  <1>1. \A t \in incoming' : inc'[t] = IF t = s THEN q ELSE inc[t]
    BY DEF TypeInv, TypeOK
  <1>2. \A r : Attended(r)' <=> Attended(r') BY DEF Attended
  <1> QED BY <1>1 DEF ReceiverPending, Attended

LEMMA CancelIncomingAttended ==
  ASSUME TypeInv, ReceiverPending, NEW s \in Segment, CancelIncoming(s)
  PROVE  ReceiverPending'
  <1> DEFINE q == IF inc[s].status \in Open THEN Dropped(Cancelled(inc[s])) ELSE inc[s]
  <1>1. inc' = [inc EXCEPT ![s] = q] BY DEF CancelIncoming
  <1>2. /\ incoming' \subseteq incoming
        /\ s \in incoming' => s \in incoming /\ q = inc[s]
    BY DEF CancelIncoming
  <1> HIDE DEF q
  <1> QED BY <1>1, <1>2, AttendedMoves DEF ReceiverPending

\* accept() starts a watchdog.
LEMMA AcceptAttended ==
  ASSUME TypeInv, ReceiverPending, NEW m \in net, Accept(m)
  PROVE  ReceiverPending'
  <1> DEFINE s     == m.seg
             fresh == [NewIncoming EXCEPT !.window = IF last = 0 THEN WINDOW ELSE last,
                                          !.watch = TRUE]
             first == Mapped(fresh, s, 0)
             q     == NextRequested(first, s)
  <1>1. s \in Segment /\ last \in Nat BY DEF Accept, TypeInv, TypeOK, Message
  <1>2. fresh \in Receiving(s) /\ fresh.watch
    <2>1. NewIncoming \in Receiving(s) /\ (IF last = 0 THEN WINDOW ELSE last) \in Nat
      BY <1>1, NewIncomingType, ConstantsType
    <2>2. ASSUME NEW w \in Nat, NEW r \in Receiving(s)
          PROVE  LET f == [r EXCEPT !.window = w, !.watch = TRUE]
                 IN  f \in Receiving(s) /\ f.watch
      BY <2>2 DEF Receiving, Incoming
    <2> HIDE DEF s
    <2> QED BY <2>1, <2>2
  <1>3. 0 \in Nat OBVIOUS
  <1> HIDE DEF fresh, s
  <1>4. first \in Receiving(s) /\ Attended(first)
    <2>1. first \in Receiving(s) BY <1>1, <1>2, <1>3, MappedType
    <2> QED BY <1>2, <2>1 DEF Mapped, Receiving, Incoming, Attended
  <1>5. /\ "receiver" \in link
        /\ inc' = [inc EXCEPT ![s] = q] /\ incoming' = incoming \cup {s}
    BY DEF Accept, fresh, s
  <1> HIDE DEF first
  <1>6. Attended(q) BY <1>1, <1>4, <1>5, RequestedAttended
  <1> HIDE DEF q
  <1> QED BY <1>1, <1>5, <1>6, AttendedMoves

\* receive_part() revives a Resource whose watchdog runs or leaves it to its assembly.
LEMMA ReceivedAttended ==
  ASSUME TypeInv, NEW s \in Segment, NEW r \in Receiving(s), NEW p \in Nat,
         NEW fast \in BOOLEAN, NEW slow \in BOOLEAN, Attended(r)
  PROVE  Attended(Received(r, s, p, fast, slow))
  <1> DEFINE heard == [r EXCEPT !.retries = MAX_RETRIES,
                                !.window_max = IF fast THEN WINDOW_MAX_FAST ELSE @]
             alive == [heard EXCEPT !.status = "TRANSFERRING"]
             taken == IF p = 0 THEN alive ELSE Taken(alive, s, p)
  <1>1. heard \in Receiving(s) /\ heard.assembly = r.assembly /\ heard.watch = r.watch
    BY ConstantsType DEF Receiving, Incoming
  <1>2. /\ alive \in Receiving(s) /\ alive.assembly = r.assembly /\ alive.watch = r.watch
        /\ alive.status = "TRANSFERRING"
    <2> HIDE DEF heard
    <2> QED BY <1>1 DEF Receiving, Incoming, Status, Open, Waiting
  <1>3. /\ taken \in Receiving(s) /\ taken.assembly = r.assembly /\ taken.watch = r.watch
        /\ taken.status = "TRANSFERRING"
    <2> HIDE DEF alive
    <2>1. Taken(alive, s, p) \in Receiving(s) BY <1>2, TakenType
    <2>2. /\ Taken(alive, s, p).assembly = alive.assembly
          /\ Taken(alive, s, p).status = alive.status /\ Taken(alive, s, p).watch = alive.watch
      BY <1>2 DEF Taken, Receiving, Incoming
    <2> QED BY <1>2, <2>1, <2>2
  <1>4. Received(r, s, p, fast, slow) =
          IF Cardinality(taken.got) = parts[s] /\ r.assembly = "none"
            THEN [taken EXCEPT !.assembly = "starts"]
          ELSE IF taken.outstanding = 0 THEN Widened(taken, slow) ELSE taken
    BY DEF Received, Attended
  <1> HIDE DEF taken
  <1>5. Attended(taken) BY <1>3 DEF Attended
  <1>6. Attended(Widened(taken, slow))
    BY <1>3, <1>5 DEF Widened, Receiving, Incoming, Attended
  <1>7. Attended([taken EXCEPT !.assembly = "starts"])
    BY <1>3 DEF Receiving, Incoming, Attended
  <1> QED BY <1>4, <1>5, <1>6, <1>7

LEMMA ReceivePartAttended ==
  ASSUME TypeInv, ReceiverPending, NEW m \in net, ReceivePart(m)
  PROVE  ReceiverPending'
  <1> USE DEF receiverKeeps
  <1>1. PICK fast \in BOOLEAN, slow \in BOOLEAN :
          LET got(s)  == Received(inc[s], s, IF s = m.seg THEN m.part ELSE 0, fast, slow)
              more(s) == Continues(inc[s], got(s))
          IN  /\ inc' = [s \in Segment |->
                           IF s \notin incoming THEN inc[s]
                           ELSE IF more(s) THEN NextRequested(got(s), s) ELSE got(s)]
    BY DEF ReceivePart
  <1> DEFINE p(s)    == IF s = m.seg THEN m.part ELSE 0
             got(s)  == Received(inc[s], s, p(s), fast, slow)
             more(s) == Continues(inc[s], got(s))
  <1>2. /\ "receiver" \in link /\ UNCHANGED incoming /\ incoming \subseteq Segment
        /\ \A s \in Segment : p(s) \in Nat
    BY DEF ReceivePart, TypeInv, TypeOK, Message
  <1>3. \A s \in incoming : inc'[s] = IF more(s) THEN NextRequested(got(s), s) ELSE got(s)
    BY <1>1, <1>2
  <1>4. ASSUME NEW s \in incoming PROVE Attended(inc'[s])
    <2>1. s \in Segment /\ inc[s] \in Receiving(s) /\ Attended(inc[s])
      BY <1>2, <1>4, IncType DEF ReceiverPending
    <2> HIDE DEF p, more
    <2>2. Attended(got(s)) /\ got(s) \in Receiving(s)
      BY <1>2, <2>1, ReceivedAttended, ReceivedType
    <2> HIDE DEF got
    <2>3. Attended(NextRequested(got(s), s)) BY <1>2, <2>1, <2>2, RequestedAttended
    <2> QED BY <1>3, <1>4, <2>2, <2>3
  <1> HIDE DEF p, got, more
  <1> QED BY <1>2, <1>4 DEF ReceiverPending, Attended

LEMMA ReceiveHashmapAttended ==
  ASSUME TypeInv, ReceiverPending, NEW m \in net, ReceiveHashmap(m)
  PROVE  ReceiverPending'
  <1> DEFINE s     == m.seg
             heard == [inc[s] EXCEPT !.retries = MAX_RETRIES]
             next  == Mapped(heard, s, m.from)
             q     == NextRequested(next, s)
  <1>1. s \in Segment /\ s \in incoming /\ m.from \in Nat /\ "receiver" \in link
    BY DEF ReceiveHashmap, TypeInv, TypeOK, Message
  <1>2. inc[s] \in Receiving(s) /\ Attended(inc[s]) BY <1>1, IncType DEF ReceiverPending
  <1>3. /\ heard \in Receiving(s) /\ heard.assembly = inc[s].assembly
        /\ heard.watch = inc[s].watch
    BY <1>2, ConstantsType DEF Receiving, Incoming
  <1>4. inc' = [inc EXCEPT ![s] = q] /\ UNCHANGED incoming
    BY DEF ReceiveHashmap
  <1> HIDE DEF heard, s
  <1>5. next \in Receiving(s) /\ Attended(next)
    <2>1. next \in Receiving(s) BY <1>1, <1>3, MappedType
    <2>2. next.status = "TRANSFERRING" /\ next.assembly = inc[s].assembly
          /\ next.watch = inc[s].watch
      BY <1>3 DEF Mapped, Receiving, Incoming
    <2> QED BY <1>2, <2>1, <2>2 DEF Attended
  <1> HIDE DEF next
  <1>6. Attended(q) BY <1>1, <1>5, RequestedAttended
  <1> HIDE DEF q
  <1> QED BY <1>1, <1>4, <1>6, AttendedMoves

LEMMA ReceiverTimeoutAttended ==
  ASSUME TypeInv, ReceiverPending, NEW s \in Segment, ReceiverTimeout(s)
  PROVE  ReceiverPending'
  <1> DEFINE retry == [Narrowed(inc[s]) EXCEPT !.retries = @ - 1, !.waiting = FALSE]
             q     == NextRequested(retry, s)
  <1>1. inc[s] \in Receiving(s) /\ inc[s].status = "TRANSFERRING" /\ inc[s].watch
    BY IncType DEF ReceiverTimeout
  <1>2. CASE inc[s].retries > 0
    <2>1. retry \in Receiving(s) /\ Attended(retry)
      <3>1. Narrowed(inc[s]) \in Receiving(s) BY <1>1, WindowType
      <3>2. /\ Narrowed(inc[s]).retries = inc[s].retries
            /\ Narrowed(inc[s]).status = inc[s].status
            /\ Narrowed(inc[s]).watch = inc[s].watch
        BY <1>1 DEF Narrowed, Receiving, Incoming
      <3>3. inc[s].retries - 1 \in Nat BY <1>1, <1>2 DEF Receiving, Incoming
      <3>4. ASSUME NEW r \in Receiving(s), r.retries - 1 \in Nat
            PROVE  LET f == [r EXCEPT !.retries = @ - 1, !.waiting = FALSE]
                   IN  /\ f \in Receiving(s)
                       /\ f.status = r.status /\ f.watch = r.watch
        BY <3>4 DEF Receiving, Incoming
      <3> QED BY <1>1, <3>1, <3>2, <3>3, <3>4 DEF Attended
    <2>2. /\ inc' = [inc EXCEPT ![s] = q]
          /\ incoming' = IF "receiver" \in link THEN incoming ELSE incoming \ {s}
      BY <1>2 DEF ReceiverTimeout
    <2> HIDE DEF retry
    <2>3. "receiver" \in link => Attended(q) BY <2>1, RequestedAttended
    <2> HIDE DEF q
    <2>4. incoming' \subseteq incoming \cup {s} /\ (s \in incoming' => Attended(q))
      BY <2>2, <2>3
    <2> QED BY <2>2, <2>4, AttendedMoves
  <1>3. CASE ~(inc[s].retries > 0)
    BY <1>3, CancelIncomingAttended DEF ReceiverTimeout
  <1> QED BY <1>2, <1>3

\* The thread that assembles, and the end of the watchdog.
LEMMA AssembleAttended ==
  ASSUME TypeInv, ReceiverPending, NEW s \in Segment, Assemble(s) \/ WatchdogEnds(s)
  PROVE  ReceiverPending'
  <1> USE DEF receiverKeeps
  <1>1. inc[s] \in Receiving(s) BY IncType
  <1>2. CASE AssembleStart(s)
    <2> DEFINE q == IF inc[s].status = "FAILED" THEN [inc[s] EXCEPT !.assembly = "ended"]
                    ELSE [inc[s] EXCEPT !.status = "ASSEMBLING", !.assembly = "joins"]
    <2>1. inc' = [inc EXCEPT ![s] = q] /\ UNCHANGED incoming BY <1>2 DEF AssembleStart
    <2>2. inc[s].status # "FAILED" => Attended(q)
      BY <1>1 DEF Attended, Receiving, Incoming
    <2>3. s \in incoming' => Attended(q) BY <2>1, <2>2 DEF ReceiverPending, Attended
    <2> HIDE DEF q
    <2> QED BY <2>1, <2>3, AttendedMoves
  <1>3. CASE AssembleStore(s) \/ AssembleFail(s)
    <2>1. PICK v \in {"COMPLETE", "CORRUPT"} :
            inc' = [inc EXCEPT ![s] = [inc[s] EXCEPT !.status = v, !.assembly = "concludes"]]
      BY <1>3 DEF AssembleStore, AssembleFail
    <2>2. Attended([inc[s] EXCEPT !.status = v, !.assembly = "concludes"])
      BY <1>1 DEF Attended, Receiving, Incoming
    <2>3. UNCHANGED incoming BY <1>3 DEF AssembleStore, AssembleFail
    <2> QED BY <2>1, <2>2, <2>3, AttendedMoves
  <1>4. CASE AssembleConclude(s)
    <2> DEFINE q == Dropped([inc[s] EXCEPT !.assembly = "ended",
                       !.told = IF s = Segments THEN Append(@, inc[s].status) ELSE @])
    <2>1. inc' = [inc EXCEPT ![s] = q] /\ incoming' = incoming \ {s}
      BY <1>4 DEF AssembleConclude
    <2> HIDE DEF q
    <2> QED BY <2>1, AttendedMoves
  <1>5. CASE WatchdogEnds(s)
    <2>1. /\ inc' = [inc EXCEPT ![s] = [inc[s] EXCEPT !.watch = FALSE]] /\ UNCHANGED incoming
          /\ inc[s].status # "TRANSFERRING"
      BY <1>5 DEF WatchdogEnds, Waiting
    <2>2. Attended(inc[s]) => Attended([inc[s] EXCEPT !.watch = FALSE])
      BY <1>1, <2>1 DEF Attended, Receiving, Incoming
    <2>3. s \in incoming' => Attended([inc[s] EXCEPT !.watch = FALSE])
      BY <2>1, <2>2 DEF ReceiverPending
    <2> QED BY <2>1, <2>3, AttendedMoves
  <1> QED BY <1>2, <1>3, <1>4, <1>5 DEF Assemble

\* Every step keeps ReceiverPending.
LEMMA ReceiverPendingNext ==
  ASSUME TypeInv, ReceiverPending, [Next]_vars
  PROVE  ReceiverPending'
  <1> USE DEF senderKeeps, receiverKeeps
  <1>1. ASSUME UNCHANGED <<inc, incoming>> PROVE ReceiverPending'
    BY <1>1 DEF ReceiverPending, Attended
  <1>2. CASE OtherConcluded \/ SenderCancels \/ CloseSender \/ UNCHANGED vars
    BY <1>1, <1>2 DEF OtherConcluded, SenderCancels, CloseSender, vars
  <1>3. CASE CloseReceiver
    <2>1. PICK some : /\ inc' = [s \in Segment |-> IF s \in some THEN Dropped(Cancelled(inc[s]))
                                                   ELSE inc[s]]
                      /\ incoming' = incoming \ some
      BY <1>3 DEF CloseReceiver
    <2>2. \A s \in incoming' : s \in incoming /\ inc'[s] = inc[s]
      BY <2>1 DEF TypeInv, TypeOK
    <2> QED BY <2>2 DEF ReceiverPending, Attended
  <1>4. ASSUME NEW s \in Segment, Watchdog(s) \/ Thread(s) \/ ReceiverCancels(s)
        PROVE  ReceiverPending'
    <2>1. CASE ReceiverTimeout(s) BY <2>1, ReceiverTimeoutAttended
    <2>2. CASE Assemble(s) \/ WatchdogEnds(s) BY <2>2, AssembleAttended
    <2>3. CASE ReceiverCancels(s) BY <2>3, CancelIncomingAttended DEF ReceiverCancels
    <2>4. CASE SenderTimeout(s)
      BY <1>1, <2>4 DEF SenderTimeout, SenderTimeoutAdvertised, SenderTimeoutTransferring,
         SenderTimeoutProof
    <2>5. CASE AdvertiseQueued(s) \/ AdvertiseSend(s) \/ AdvertiseRegister(s)
      BY <1>1, <2>5 DEF AdvertiseQueued, AdvertiseSend, AdvertiseRegister
    <2> QED BY <1>4, <2>1, <2>2, <2>3, <2>4, <2>5 DEF Watchdog, Thread, Assemble, SenderTimeout
  <1>5. ASSUME NEW m \in net, Receive(m) \/ Lose(m) PROVE ReceiverPending'
    <2>1. CASE Accept(m) BY <2>1, AcceptAttended
    <2>2. CASE ReceivePart(m) BY <2>2, ReceivePartAttended
    <2>3. CASE ReceiveHashmap(m) BY <2>3, ReceiveHashmapAttended
    <2>4. CASE ReceiveCancel(m)
      BY <2>4, CancelIncomingAttended DEF ReceiveCancel, TypeInv, TypeOK
    <2>5. CASE ReceiveRequest(m) \/ ReceiveProof(m) \/ ReceiveRejection(m)
      BY <1>1, <2>5 DEF ReceiveRequest, ReceiveProof, ReceiveRejection
    <2>6. CASE Reject(m) \/ ReceiveCacheRequest(m) \/ Lose(m)
      BY <1>1, <2>6 DEF Reject, ReceiveCacheRequest, Lose
    <2> QED BY <1>5, <2>1, <2>2, <2>3, <2>4, <2>5, <2>6 DEF Receive
  <1> QED BY <1>2, <1>3, <1>4, <1>5 DEF Next

\* The safety behind ReceiverConcludes, with all mishaps: a resource in the receiver's
\* list is watched, or a thread is assembling it and will take it off the list, although
\* a packet that comes late may set its status back to TRANSFERRING meanwhile, after its
\* watchdog has ended (__watchdog_job(), receive_part(), assemble()).
THEOREM ReceiverPendingCorrect == Spec => []ReceiverPending
  <1>1. Init => ReceiverPending
    BY DEF Init, ReceiverPending
  <1> QED BY <1>1, TypeInit, TypeNext, ReceiverPendingNext, PTL DEF Spec
=============================================================================
