------------------------------ MODULE Resource ------------------------------
(***************************************************************************)
(* The transfer of one resource over an RNS.Link (RNS/Resource.py and the  *)
(* handlers of RNS/Link.py that call it): advertisement, requests for      *)
(* parts within a sliding window, updates of the hashmap, assembly, proof, *)
(* the watchdogs of both ends, cancellation, rejection, and the closing of *)
(* the link at either end.  The data is cut into segments; each of them is *)
(* a Resource of its own, advertised when the one before it is proved.     *)
(* Parts are numbered from 1 and known by their number, as the guard       *)
(* against collisions (Resource.py:440-470) makes their hashes distinct.   *)
(* Packets may be lost and overtake each other.  Time is left out: what    *)
(* may time out may do so at any moment.                                   *)
(***************************************************************************)
EXTENDS Integers, Sequences, FiniteSets

CONSTANTS
  Sizes,               \* what may be sent: the number of parts of each segment
  HASHMAP_MAX_LEN,     \* hashes in an advertisement or a hashmap update
  WINDOW,              \* window of the first segment
  WINDOW_MIN,
  WINDOW_MAX_SLOW,
  WINDOW_MAX_FAST,
  WINDOW_MAX_VERY_SLOW,
  WINDOW_FLEXIBILITY,
  MAX_RETRIES,         \* timeouts of the receiver without a sign of the sender
  MAX_ADV_RETRIES,
  PROOF_RETRIES,       \* queries for a proof, the 3 of request()
  Capacity,            \* packets on their way at once
  Faults               \* the mishaps that may occur:
                       \*   "REJECT"  the receiving application refuses
                       \*   "STORE"   a segment cannot be assembled or stored
                       \*   "CANCEL"  an application cancels the transfer
                       \*   "CLOSE"   an end of the link closes
                       \*   "LATE"    an advertisement may come after later packets
                       \*   "PREEMPT" packets are handled while a thread concludes

WINDOW_MAX == WINDOW_MAX_FAST
COLLISION_GUARD_SIZE == 2 * WINDOW_MAX + HASHMAP_MAX_LEN

ASSUME SizesAssumption == Sizes \subseteq Seq(Nat \ {0}) \ {<<>>}
ASSUME WindowAssumption ==
  /\ {HASHMAP_MAX_LEN, WINDOW_FLEXIBILITY} \subseteq Nat \ {0}
  /\ {WINDOW, WINDOW_MIN, WINDOW_MAX_SLOW, WINDOW_MAX_FAST, WINDOW_MAX_VERY_SLOW}
       \subseteq Nat
  /\ 2 <= WINDOW_MIN /\ WINDOW_MIN <= WINDOW_MAX_VERY_SLOW
  /\ WINDOW_MIN <= WINDOW /\ WINDOW <= WINDOW_MAX_SLOW
  /\ WINDOW_MAX_VERY_SLOW <= WINDOW_MAX_SLOW /\ WINDOW_MAX_SLOW <= WINDOW_MAX_FAST
ASSUME RetriesAssumption == {MAX_RETRIES, MAX_ADV_RETRIES, PROOF_RETRIES} \subseteq Nat
ASSUME FaultsAssumption  == Faults \subseteq {"REJECT", "STORE", "CANCEL", "CLOSE", "LATE", "PREEMPT"}

VARIABLES
  parts,      \* the sizes chosen: parts of each segment (total_parts)
  link,       \* the ends of the link that are not closed
  out,        \* each segment's Resource at the sender
  inc,        \* each segment's Resource at the receiver
  outgoing,   \* Link.outgoing_resources at the sender
  incoming,   \* Link.incoming_resources at the receiver
  busy,       \* another resource of the sender is on its way
  last,       \* Link.last_resource_window at the receiver, 0 for None
  file,       \* the segments appended to the receiver's file
  cached,     \* the segments whose proof the receiver has in its cache
  net         \* packets on their way

vars == <<parts, link, out, inc, outgoing, incoming, busy, last, file, cached, net>>

-----------------------------------------------------------------------------
(***************************************************************************)
(* State.                                                                  *)
(***************************************************************************)

\* The statuses below ASSEMBLING, in which a watchdog keeps running, and those
\* below COMPLETE, in which cancel() has an effect.  REJECTED equals NONE.
Waiting   == {"NONE", "REJECTED", "QUEUED", "ADVERTISED", "TRANSFERRING", "AWAITING_PROOF"}
Open      == Waiting \cup {"ASSEMBLING"}
Status    == Open \cup {"COMPLETE", "FAILED", "CORRUPT"}

Segments == Len(parts)
Segment  == 1 .. Segments

Outgoing == [status : Status,
             job    : {"none", "waits", "sent"},  \* __advertise_job()
             retries: Nat,                        \* retries_left
             sent   : SUBSET Nat,                 \* parts sent once
             floor  : Nat,                        \* receiver_min_consecutive_height
             told   : Seq(Status)]                \* calls of the callback

Incoming == [status     : Status,
             retries    : Nat,                    \* retries_left
             got        : SUBSET Nat,             \* parts
             height     : Nat,                    \* consecutive_completed_height + 1
             known      : SUBSET Nat,             \* hashmap
             outstanding: Int,                    \* outstanding_parts
             waiting    : BOOLEAN,                \* waiting_for_hmu
             window     : Nat,
             window_min : Nat,
             window_max : Nat,
             watch      : BOOLEAN,                \* __watchdog_job() runs
             assembly   : {"none", "starts", "joins", "concludes", "ended"},
             told       : Seq(Status)]

Message == [type: {"ADV"}, seg: Segment, from: {0}]     \* hashes after from
      \cup [type: {"HMU"}, seg: Segment, from: Nat]
      \cup [type: {"REQ"}, seg: Segment, asked: SUBSET Nat, last: Nat]
      \cup [type: {"PART"}, seg: Segment, part: Nat, again: BOOLEAN]
      \cup [type: {"PRF", "ICL", "RCL", "CACHE_REQUEST"}, seg: Segment]

NewOutgoing == [status |-> "NONE", job |-> "none", retries |-> MAX_RETRIES,
                sent |-> {}, floor |-> 0, told |-> <<>>]

NewIncoming == [status |-> "NONE", retries |-> MAX_RETRIES, got |-> {}, height |-> 0,
                known |-> {}, outstanding |-> 0, waiting |-> FALSE,
                window |-> WINDOW, window_min |-> WINDOW_MIN,
                window_max |-> WINDOW_MAX_SLOW,
                watch |-> FALSE, assembly |-> "none", told |-> <<>>]

\* A packet on a closed link is dropped.
Send(end, packets) == IF end \in link THEN packets ELSE {}

Advertisement(s) == [type |-> "ADV", seg |-> s, from |-> 0]

\* The network carries some of the packets that are sent, and loses the others.
Carried(others, packets) ==
  {others \cup some : some \in {t \in SUBSET packets : Cardinality(others \cup t) <= Capacity}}

\* Unless advertisements may come late, none is overtaken by what follows it.
InTurn(m) == "LATE" \in Faults \/ Advertisement(m.seg) \notin net

\* Unless it may be preempted, a thread that concludes an assembly gets to its
\* end before the next packet is handled.
Undisturbed == "PREEMPT" \in Faults \/ \A s \in Segment : inc[s].assembly # "concludes"

Lowest(a, b)  == IF a < b THEN a ELSE b
Highest(a, b) == IF a > b THEN a ELSE b

\* The hashes that follow the first n of segment s, as many as a packet takes.
HashesFrom(s, n) == n + 1 .. Lowest(n + HASHMAP_MAX_LEN, parts[s])

-----------------------------------------------------------------------------
(***************************************************************************)
(* The receiver's Resource.                                                *)
(***************************************************************************)

\* cancel(), as far as it changes the Resource itself: at either end.
Cancelled(r) ==
  IF r.status \in Open
    THEN [r EXCEPT !.status = "FAILED", !.told = Append(@, "FAILED")]
    ELSE r

\* Off the list of resources, with a status that its watchdog ends at, a resource
\* is not looked into any more: its data are left out.
Dropped(r) ==
  IF r.status \in Open THEN r
  ELSE [NewIncoming EXCEPT !.status = r.status, !.assembly = r.assembly, !.told = r.told]

\* request_next(): what is missing in the window, up to the first part whose
\* hash is not known.
Missing(r, s) == (r.height + 1 .. Lowest(r.height + r.window, parts[s])) \ r.got
Unknown(r, s) == Missing(r, s) \ r.known
Asked(r, s)   == {p \in Missing(r, s) : \A q \in Unknown(r, s) : p < q}

Requests(r) == r.status # "FAILED" /\ ~r.waiting

\* On a closed link the packet is never packed, and request_next() fails.
NextRequested(r, s) ==
  LET asking == [r EXCEPT !.outstanding = Cardinality(Asked(r, s)),
                          !.waiting = Unknown(r, s) # {}]
  IN  IF ~Requests(r) THEN r
      ELSE IF "receiver" \in link THEN asking ELSE Dropped(Cancelled(asking))

Request(r, s) ==
  IF Requests(r)
    THEN Send("receiver",
              {[type |-> "REQ", seg |-> s, asked |-> Asked(r, s),
                last |-> IF Unknown(r, s) = {} THEN 0 ELSE Cardinality(r.known)]})
    ELSE {}

\* hashmap_update(), after hashmap_update_packet() or accept().
Mapped(r, s, from) ==
  [r EXCEPT !.status = "TRANSFERRING", !.known = @ \cup HashesFrom(s, from), !.waiting = FALSE]

\* mutant: the height moves on by the part that came only
TakenOneByOne(r, s, p) ==
  LET start == Highest(r.height, 1)
  IN  IF p \in ((start .. start + r.window - 1) \cap r.known) \ r.got
        THEN [r EXCEPT !.got = @ \cup {p}, !.outstanding = @ - 1,
                       !.height = IF p = @ + 1 THEN p ELSE @]
        ELSE r

\* mutant: a part that comes again is counted again
TakenCounted(r, s, p) ==
  LET taken == TakenOneByOne(r, s, p)
      got   == taken.got
      stops == {q \in taken.height .. parts[s] : q = parts[s] \/ q + 1 \notin got}
  IN  [taken EXCEPT !.outstanding = r.outstanding - 1,
                    !.height = CHOOSE q \in stops : \A t \in stops : q <= t]

\* The part of receive_part() that finds the place of part p, if the window
\* still shows it, and moves consecutive_completed_height on.
Taken(r, s, p) ==
  LET start == Highest(r.height, 1)
      got   == r.got \cup {p}
      first == IF p = r.height + 1 THEN p ELSE r.height
      stops == {q \in first .. parts[s] : q = parts[s] \/ q + 1 \notin got}
  IN  IF p \in ((start .. start + r.window - 1) \cap r.known) \ r.got
        THEN [r EXCEPT !.got = got, !.outstanding = @ - 1,
                       !.height = CHOOSE q \in stops : \A t \in stops : q <= t]
        ELSE r

\* A request is answered in full: the window grows, and a transfer found to be
\* very slow gets a maximum of its own.
Widened(r, slow) ==
  LET grows == r.window < r.window_max
      width == IF grows THEN r.window + 1 ELSE r.window
  IN  [r EXCEPT !.window = width,
                !.window_max = IF slow THEN WINDOW_MAX_VERY_SLOW ELSE @,
                !.window_min = IF grows /\ width - @ > WINDOW_FLEXIBILITY - 1
                                 THEN @ + 1 ELSE @]

\* A request is not answered in time.
Narrowed(r) ==
  LET width == r.window - 1
      max   == r.window_max - 1
  IN  IF r.window <= r.window_min THEN r
      ELSE IF r.window_max <= r.window_min THEN [r EXCEPT !.window = width]
      ELSE [r EXCEPT !.window = width,
                     !.window_max = IF max - width > WINDOW_FLEXIBILITY - 1
                                      THEN max - 1 ELSE max]

\* receive_part(): part p of resource s, or with p = 0 a part of another one.
\* The rates measured make the transfer a fast or a slow one.
Received(r, s, p, fast, slow) ==
  LET heard == [r EXCEPT !.retries = MAX_RETRIES,
                         !.window_max = IF fast THEN WINDOW_MAX_FAST ELSE @]
      alive == [heard EXCEPT !.status = "TRANSFERRING"]
      taken == IF p = 0 THEN alive ELSE Taken(alive, s, p)
  IN  IF r.status = "FAILED" THEN heard
      ELSE IF Cardinality(taken.got) = parts[s] /\ r.assembly = "none"
        THEN [taken EXCEPT !.assembly = "starts"]
      ELSE IF taken.outstanding = 0 THEN Widened(taken, slow) ELSE taken

-----------------------------------------------------------------------------
(***************************************************************************)
(* The sender.                                                             *)
(***************************************************************************)

Init ==
  /\ parts \in Sizes
  /\ link = {"sender", "receiver"}
  /\ out = [s \in Segment |-> [NewOutgoing EXCEPT !.job = IF s = 1 THEN "waits" ELSE "none"]]
  /\ inc = [s \in Segment |-> NewIncoming]
  /\ outgoing = {} /\ incoming = {}
  /\ busy \in BOOLEAN
  /\ last = 0 /\ file = <<>> /\ cached = {} /\ net = {}

\* Only the advertising thread of a sender changes, but for what is named.
senderKeeps   == <<parts, link, inc, incoming, last, file, cached>>
receiverKeeps == <<parts, link, out, outgoing, busy, cached>>

\* __advertise_job() finds another resource on its way.
AdvertiseQueued(s) ==
  /\ out[s].job = "waits" /\ out[s].status # "QUEUED"
  /\ busy \/ outgoing # {}
  /\ out' = [out EXCEPT ![s].status = "QUEUED"]
  /\ UNCHANGED <<senderKeeps, outgoing, busy, net>>

\* The other resource is concluded.
OtherConcluded ==
  /\ busy /\ busy' = FALSE
  /\ UNCHANGED <<senderKeeps, out, outgoing, net>>

AdvertiseSend(s) ==
  /\ out[s].job = "waits" /\ ~busy /\ outgoing = {}
  /\ net' \in Carried(net, Send("sender", {Advertisement(s)}))
  /\ out' = [out EXCEPT ![s].job = "sent"]
  /\ UNCHANGED <<senderKeeps, outgoing, busy>>

\* It goes on without another look at the status.
AdvertiseRegister(s) ==
  /\ out[s].job = "sent"
  /\ out' = [out EXCEPT ![s].job = "none", ![s].status = "ADVERTISED",
                        ![s].retries = MAX_ADV_RETRIES]
  /\ outgoing' = outgoing \cup {s}
  /\ UNCHANGED <<senderKeeps, busy, net>>

\* Off its list, the sender's Resource serves no more requests: the data that are
\* for these are left out.
Ended(r) == [NewOutgoing EXCEPT !.status = r.status, !.job = r.job, !.told = r.told]

\* cancel() of the sender: the receiver is told if the link is open.
CancelOutgoing(s) ==
  /\ out' = [out EXCEPT ![s] = Ended(Cancelled(@))]
  /\ outgoing' = outgoing \ {s}
  /\ net' \in Carried(net, Send("sender", {[type |-> "ICL", seg |-> s]}))

SenderTimeoutAdvertised(s) ==
  /\ out[s].status = "ADVERTISED" /\ out[s].job = "none"
  /\ IF out[s].retries > 0
       THEN /\ out' = [out EXCEPT ![s].retries = @ - 1]
            /\ net' \in Carried(net, Send("sender", {Advertisement(s)}))
            /\ UNCHANGED outgoing
       ELSE CancelOutgoing(s)
  /\ UNCHANGED <<senderKeeps, busy>>

\* Neither a request nor the proof came for long.
SenderTimeoutTransferring(s) ==
  /\ out[s].status = "TRANSFERRING"
  /\ CancelOutgoing(s)
  /\ UNCHANGED <<senderKeeps, busy>>

\* mutant: the queries for the proof are not counted
SenderTimeoutProofEndless(s) ==
  /\ out[s].status = "AWAITING_PROOF"
  /\ net' \in Carried(net, Send("sender", {[type |-> "CACHE_REQUEST", seg |-> s]}))
  /\ UNCHANGED <<senderKeeps, busy, out, outgoing>>

SenderTimeoutProof(s) ==
  /\ out[s].status = "AWAITING_PROOF"
  /\ IF out[s].retries > 0
       THEN /\ out' = [out EXCEPT ![s].retries = @ - 1]
            /\ net' \in Carried(net, Send("sender", {[type |-> "CACHE_REQUEST", seg |-> s]}))
            /\ UNCHANGED outgoing
       ELSE CancelOutgoing(s)
  /\ UNCHANGED <<senderKeeps, busy>>

\* The part of segment s the last hash known to the receiver belongs to, as far
\* as the search gets.
PartIndex(s, hash) ==
  LET scope == out[s].floor + 1 .. Lowest(out[s].floor + COLLISION_GUARD_SIZE, parts[s])
  IN  IF hash \in scope THEN hash
      ELSE Lowest(out[s].floor + COLLISION_GUARD_SIZE, parts[s])

\* The parts request() finds among those asked for.
Found(s, asked) ==
  asked \cap (out[s].floor + 1 .. Lowest(out[s].floor + COLLISION_GUARD_SIZE, parts[s]))

PartPacket(s, p) ==
  [type |-> "PART", seg |-> s, part |-> p, again |-> p \in out[s].sent]

\* mutant: the search goes on from the end of the receiver's hashmap
FloorAtLast(index) == Highest(index - 1, 0)

\* Where the search starts from then on: receiver_min_consecutive_height.
Floor(index) == Highest(index - 1 - WINDOW_MAX, 0)

\* request(): the parts that are found are sent, and more of the hashmap if the
\* receiver has come to its end; a request out of sequence ends the transfer.
ReceiveRequest(m) ==
  LET s      == m.seg
      index  == PartIndex(s, m.last)
      floor  == Floor(index)
      found  == Found(s, m.asked)
      sent   == out[s].sent \cup found
      packets== {PartPacket(s, p) : p \in found}
      serving== [out[s] EXCEPT !.status = "TRANSFERRING", !.retries = MAX_RETRIES, !.sent = sent]
      served(r) == IF Cardinality(sent) = parts[s]
                     THEN [r EXCEPT !.status = "AWAITING_PROOF", !.retries = PROOF_RETRIES]
                     ELSE r
  IN  /\ m \in net /\ m.type = "REQ"
      /\ "sender" \in link /\ s \in outgoing
      /\ \/ /\ m.last = 0
            /\ out' = [out EXCEPT ![s] = served(serving)]
            /\ net' \in Carried(net \ {m}, packets)
            /\ UNCHANGED outgoing
         \/ /\ m.last # 0 /\ index % HASHMAP_MAX_LEN = 0
            /\ out' = [out EXCEPT ![s] = served([serving EXCEPT !.floor = floor])]
            /\ net' \in Carried(net \ {m}, packets \cup {[type |-> "HMU", seg |-> s, from |-> index]})
            /\ UNCHANGED outgoing
         \/ /\ m.last # 0 /\ index % HASHMAP_MAX_LEN # 0
            /\ out' = [out EXCEPT ![s] = Ended(Cancelled(serving))]
            /\ outgoing' = outgoing \ {s}
            /\ net' \in Carried(net \ {m}, packets \cup {[type |-> "ICL", seg |-> s]})
      /\ UNCHANGED <<senderKeeps, busy>>

\* mutant: every segment's proof is reported
ReceiveProofEach(m) ==
  LET s == m.seg IN
  /\ m \in net /\ m.type = "PRF"
  /\ "sender" \in link /\ s \in outgoing
  /\ out' = [t \in Segment |->
               IF t = s THEN Ended([out[s] EXCEPT !.status = "COMPLETE",
                                                  !.told = Append(@, "COMPLETE")])
               ELSE IF t = s + 1 THEN [out[t] EXCEPT !.job = "waits"]
               ELSE out[t]]
  /\ outgoing' = outgoing \ {s}
  /\ net' = net \ {m}
  /\ UNCHANGED <<senderKeeps, busy>>

\* validate_proof(): the transfer is complete, or the next segment is due.
ReceiveProof(m) ==
  LET s == m.seg IN
  /\ m \in net /\ m.type = "PRF"
  /\ "sender" \in link /\ s \in outgoing
  /\ out' = [t \in Segment |->
               IF t = s THEN Ended([out[s] EXCEPT !.status = "COMPLETE",
                                     !.told = IF s = Segments THEN Append(@, "COMPLETE") ELSE @])
               ELSE IF t = s + 1 THEN [out[t] EXCEPT !.job = "waits"]
               ELSE out[t]]
  /\ outgoing' = outgoing \ {s}
  /\ net' = net \ {m}
  /\ UNCHANGED <<senderKeeps, busy>>

\* _rejected()
ReceiveRejection(m) ==
  LET s == m.seg IN
  /\ m \in net /\ m.type = "RCL"
  /\ "sender" \in link /\ s \in outgoing
  /\ out' = [out EXCEPT ![s] = Ended([out[s] EXCEPT !.status = "REJECTED",
                                                    !.told = Append(@, "REJECTED")])]
  /\ outgoing' = outgoing \ {s}
  /\ net' = net \ {m}
  /\ UNCHANGED <<senderKeeps, busy>>

\* The application cancels what it sends: it holds the first segment only.
SenderCancels ==
  /\ "CANCEL" \in Faults
  /\ out[1].status \in Open /\ out[1].told = <<>>
  /\ CancelOutgoing(1)
  /\ UNCHANGED <<senderKeeps, busy>>

-----------------------------------------------------------------------------
(***************************************************************************)
(* The receiver.                                                           *)
(***************************************************************************)

\* accept() of an advertisement of a resource that is not under way.
Accept(m) ==
  LET s     == m.seg
      fresh == [NewIncoming EXCEPT !.window = IF last = 0 THEN WINDOW ELSE last, !.watch = TRUE]
      first == Mapped(fresh, s, 0)
  IN  /\ m \in net /\ m.type = "ADV"
      /\ "receiver" \in link /\ s \notin incoming
      /\ inc' = [inc EXCEPT ![s] = NextRequested(first, s)]
      /\ incoming' = incoming \cup {s}
      /\ net' \in Carried(net \ {m}, Request(first, s))
      /\ UNCHANGED <<receiverKeeps, last, file>>

\* reject()
Reject(m) ==
  /\ "REJECT" \in Faults
  /\ m \in net /\ m.type = "ADV"
  /\ "receiver" \in link
  /\ net' \in Carried(net \ {m}, {[type |-> "RCL", seg |-> m.seg]})
  /\ UNCHANGED <<receiverKeeps, inc, incoming, last, file>>

\* Starts the assembly, or asks for more once all that was asked for is there.
Starts(r, q)    == q.assembly = "starts" /\ r.assembly = "none"
Continues(r, q) == r.status # "FAILED" /\ ~Starts(r, q) /\ q.outstanding = 0

\* receive(): a part is handed to every incoming resource.
ReceivePart(m) ==
  /\ m \in net /\ m.type = "PART" /\ InTurn(m) /\ Undisturbed
  /\ "receiver" \in link
  /\ \E fast, slow \in BOOLEAN :
       LET got(s)  == Received(inc[s], s, IF s = m.seg THEN m.part ELSE 0, fast, slow)
           more(s) == Continues(inc[s], got(s))
       IN  /\ inc' = [s \in Segment |->
                        IF s \notin incoming THEN inc[s]
                        ELSE IF more(s) THEN NextRequested(got(s), s) ELSE got(s)]
           /\ net' \in Carried(net \ {m}, UNION {IF more(s) THEN Request(got(s), s) ELSE {} :
                                                s \in incoming})
  /\ UNCHANGED <<receiverKeeps, incoming, last, file>>

\* hashmap_update_packet()
ReceiveHashmap(m) ==
  LET s    == m.seg
      next == Mapped([inc[s] EXCEPT !.retries = MAX_RETRIES], s, m.from)
  IN  /\ m \in net /\ m.type = "HMU" /\ InTurn(m) /\ Undisturbed
      /\ "receiver" \in link /\ s \in incoming /\ inc[s].status # "FAILED"
      /\ inc' = [inc EXCEPT ![s] = NextRequested(next, s)]
      /\ net' \in Carried(net \ {m}, Request(next, s))
      /\ UNCHANGED <<receiverKeeps, incoming, last, file>>

\* cancel() of the receiver: the sender is not told.
CancelIncoming(s) ==
  /\ inc' = [inc EXCEPT ![s] = IF @.status \in Open THEN Dropped(Cancelled(@)) ELSE @]
  /\ incoming' = IF inc[s].status \in Open THEN incoming \ {s} ELSE incoming

ReceiveCancel(m) ==
  /\ m \in net /\ m.type = "ICL"
  /\ "receiver" \in link /\ m.seg \in incoming
  /\ CancelIncoming(m.seg)
  /\ net' = net \ {m}
  /\ UNCHANGED <<receiverKeeps, last, file>>

\* mutant: the retries are not counted
ReceiverTimeoutEndless(s) ==
  LET retry == [Narrowed(inc[s]) EXCEPT !.waiting = FALSE]
  IN  /\ inc[s].watch /\ inc[s].status = "TRANSFERRING"
      /\ inc' = [inc EXCEPT ![s] = NextRequested(retry, s)]
      /\ net' \in Carried(net, Request(retry, s))
      /\ UNCHANGED <<receiverKeeps, last, file, incoming>>

\* The watchdog asks once more, within a smaller window, or gives up.
ReceiverTimeout(s) ==
  LET retry == [Narrowed(inc[s]) EXCEPT !.retries = @ - 1, !.waiting = FALSE]
  IN  /\ inc[s].watch /\ inc[s].status = "TRANSFERRING"
      /\ IF inc[s].retries > 0
           THEN /\ inc' = [inc EXCEPT ![s] = NextRequested(retry, s)]
                /\ incoming' = IF "receiver" \in link THEN incoming ELSE incoming \ {s}
                /\ net' \in Carried(net, Request(retry, s))
           ELSE CancelIncoming(s) /\ UNCHANGED net
      /\ UNCHANGED <<receiverKeeps, last, file>>

WatchdogEnds(s) ==
  /\ inc[s].watch /\ inc[s].status \notin Waiting
  /\ inc' = [inc EXCEPT ![s].watch = FALSE]
  /\ UNCHANGED <<receiverKeeps, incoming, last, file, net>>

\* assemble(), in a thread of its own.
AssembleStart(s) ==
  /\ inc[s].assembly = "starts"
  /\ inc' = [inc EXCEPT ![s] =
               IF inc[s].status = "FAILED" THEN [inc[s] EXCEPT !.assembly = "ended"]
               ELSE [inc[s] EXCEPT !.status = "ASSEMBLING", !.assembly = "joins"]]
  /\ UNCHANGED <<receiverKeeps, incoming, last, file, net>>

\* The segment is appended to the file and proved.  The token a link decrypts with
\* outlives its closing, so that the segment is stored on a closed link, too; the
\* proof is then neither sent nor cached.
AssembleStore(s) ==
  /\ inc[s].assembly = "joins"
  /\ inc' = [inc EXCEPT ![s].status = "COMPLETE", ![s].assembly = "concludes"]
  /\ file' = Append(file, s)
  /\ cached' = IF "receiver" \in link THEN cached \cup {s} ELSE cached
  /\ net' \in Carried(net, Send("receiver", {[type |-> "PRF", seg |-> s]}))
  /\ UNCHANGED <<parts, link, out, outgoing, busy, incoming, last>>

\* The data cannot be unpacked or stored, or are not what was sent.
AssembleFail(s) ==
  /\ "STORE" \in Faults
  /\ inc[s].assembly = "joins"
  /\ inc' = [inc EXCEPT ![s].status = "CORRUPT", ![s].assembly = "concludes"]
  /\ UNCHANGED <<receiverKeeps, incoming, last, file, net>>

\* mutant: only what is complete is reported
AssembleConcludeComplete(s) ==
  /\ inc[s].assembly = "concludes"
  /\ inc' = [inc EXCEPT ![s] =
               Dropped([inc[s] EXCEPT !.assembly = "ended",
                          !.told = IF s = Segments /\ inc[s].status = "COMPLETE"
                                     THEN Append(@, "COMPLETE") ELSE @])]
  /\ last' = IF s \in incoming THEN inc[s].window ELSE last
  /\ incoming' = incoming \ {s}
  /\ UNCHANGED <<receiverKeeps, file, net>>

\* resource_concluded(), and the callback with the last segment.
AssembleConclude(s) ==
  /\ inc[s].assembly = "concludes"
  /\ inc' = [inc EXCEPT ![s] =
               Dropped([inc[s] EXCEPT !.assembly = "ended",
                          !.told = IF s = Segments THEN Append(@, inc[s].status) ELSE @])]
  /\ last' = IF s \in incoming THEN inc[s].window ELSE last
  /\ incoming' = incoming \ {s}
  /\ UNCHANGED <<receiverKeeps, file, net>>

\* A cached proof is sent again.
ReceiveCacheRequest(m) ==
  /\ m \in net /\ m.type = "CACHE_REQUEST"
  /\ "receiver" \in link /\ m.seg \in cached
  /\ net' \in Carried(net \ {m}, {[type |-> "PRF", seg |-> m.seg]})
  /\ UNCHANGED <<receiverKeeps, inc, incoming, last, file>>

ReceiverCancels(s) ==
  /\ "CANCEL" \in Faults
  /\ s \in incoming /\ inc[s].status \in Open
  /\ CancelIncoming(s)
  /\ UNCHANGED <<receiverKeeps, last, file, net>>

-----------------------------------------------------------------------------
(***************************************************************************)
(* The link and the network.                                               *)
(***************************************************************************)

\* What link_closed() cancels of a list: cancel() takes a resource off the list
\* that is being walked, and the next one is skipped.
Walked(list, resources) ==
  LET open == {s \in list : resources[s].status \in Open}
  IN  {some \in SUBSET open : 2 * Cardinality(some) >= Cardinality(open)}

\* link_closed() of an end.
CloseSender ==
  /\ "CLOSE" \in Faults /\ "sender" \in link
  /\ link' = link \ {"sender"}
  /\ \E some \in Walked(outgoing, out) :
       /\ out' = [s \in Segment |-> IF s \in some THEN Ended(Cancelled(out[s])) ELSE out[s]]
       /\ outgoing' = outgoing \ some
  /\ UNCHANGED <<parts, inc, incoming, busy, last, file, cached, net>>

CloseReceiver ==
  /\ "CLOSE" \in Faults /\ "receiver" \in link
  /\ link' = link \ {"receiver"}
  /\ \E some \in Walked(incoming, inc) :
       /\ inc' = [s \in Segment |-> IF s \in some THEN Dropped(Cancelled(inc[s])) ELSE inc[s]]
       /\ incoming' = incoming \ some
  /\ UNCHANGED <<parts, out, outgoing, busy, last, file, cached, net>>

\* A packet is lost, or arrives where nothing waits for it.
Lose(m) ==
  /\ m \in net
  /\ net' = net \ {m}
  /\ UNCHANGED <<parts, link, out, inc, outgoing, incoming, busy, last, file, cached>>

Watchdog(s) ==
  \/ SenderTimeoutAdvertised(s) \/ SenderTimeoutTransferring(s) \/ SenderTimeoutProof(s)
  \/ ReceiverTimeout(s) \/ WatchdogEnds(s)

Thread(s) ==
  \/ AdvertiseQueued(s) \/ AdvertiseSend(s) \/ AdvertiseRegister(s)
  \/ AssembleStart(s) \/ AssembleStore(s) \/ AssembleFail(s) \/ AssembleConclude(s)

Receive(m) ==
  \/ ReceiveRequest(m) \/ ReceiveProof(m) \/ ReceiveRejection(m)
  \/ Accept(m) \/ Reject(m) \/ ReceivePart(m) \/ ReceiveHashmap(m)
  \/ ReceiveCancel(m) \/ ReceiveCacheRequest(m)

Next ==
  \/ OtherConcluded \/ SenderCancels \/ CloseSender \/ CloseReceiver
  \/ \E s \in Segment : Watchdog(s) \/ Thread(s) \/ ReceiverCancels(s)
  \/ \E m \in net : Receive(m) \/ Lose(m)

Spec == Init /\ [][Next]_vars

-----------------------------------------------------------------------------
(***************************************************************************)
(* Fairness: threads and watchdogs get to run.  The network owes nothing.  *)
(***************************************************************************)

SenderTimeout(s) ==
  SenderTimeoutAdvertised(s) \/ SenderTimeoutTransferring(s) \/ SenderTimeoutProof(s)

AdvertiseJob(s) == AdvertiseSend(s) \/ AdvertiseRegister(s)

Assemble(s) ==
  AssembleStart(s) \/ AssembleStore(s) \/ AssembleFail(s) \/ AssembleConclude(s)

FairSpec ==
  /\ Spec /\ WF_vars(OtherConcluded)
  /\ WF_vars(\E s \in Segment : SenderTimeout(s))
  /\ WF_vars(\E s \in Segment : ReceiverTimeout(s))
  /\ WF_vars(\E s \in Segment : AdvertiseJob(s))
  /\ WF_vars(\E s \in Segment : Assemble(s))

-----------------------------------------------------------------------------
(***************************************************************************)
(* Properties.                                                             *)
(***************************************************************************)

\* Every Resource is one, each list holds segments, and the network carries
\* packets of the kinds the two ends exchange.
TypeOK ==
  /\ parts \in Sizes
  /\ link \subseteq {"sender", "receiver"}
  /\ out \in [Segment -> Outgoing]
  /\ inc \in [Segment -> Incoming]
  /\ outgoing \subseteq Segment /\ incoming \subseteq Segment
  /\ busy \in BOOLEAN /\ last \in Nat /\ file \in Seq(Segment)
  /\ cached \subseteq Segment /\ net \subseteq Message

\* A resource the receiver is still collecting.
Collecting(s) == s \in incoming /\ inc[s].status \in Open

\* Whatever order parts and hashmap updates arrive in, and however often, the
\* hashmap the receiver has is a gapless beginning that ends where the sender's
\* next update starts, and consecutive_completed_height is exactly the length of
\* the gapless beginning of the parts (hashmap_update(), receive_part()).  That is
\* so unless two updates overtake a request: the sender may then have searched on,
\* and the update it answers with begins where nothing asked it to.  A segment of
\* 7 parts with 2 hashes a packet never gets there, one of 13 does.
ProgressIsExact ==
  \A s \in Segment : Collecting(s) =>
    LET r == inc[s]
        n == Cardinality(r.known)
    IN  /\ r.known = 1 .. n
        /\ n = parts[s] \/ n % HASHMAP_MAX_LEN = 0
        /\ 1 .. r.height \subseteq r.got
        /\ r.height + 1 \notin r.got
        /\ r.got \subseteq r.known

\* What the receiver would ask for now is within what the sender still looks at:
\* request() searches from receiver_min_consecutive_height on only, which moves
\* with other requests, and a request it cannot place cancels the transfer.  The
\* same exception holds.
DemandServed ==
  \A s \in Segment : Collecting(s) /\ s \in outgoing =>
    /\ Found(s, Asked(inc[s], s)) = Asked(inc[s], s)
    /\ PartIndex(s, Cardinality(inc[s].known)) = Cardinality(inc[s].known)

\* A receiver that has nothing outstanding waits for a hashmap update or has
\* all parts: outstanding_parts is never out by one, at the end of the hashmap,
\* of the window or of the segment, in the way that nothing is asked for again.
NeverIdle ==
  \A s \in Segment : Collecting(s) =>
    /\ inc[s].outstanding >= 0
    /\ inc[s].outstanding = 0 => inc[s].waiting \/ inc[s].assembly # "none"

\* A resource that has left the receiver's list has told its outcome, or was
\* stored as one of several segments, or its assembly is about to tell: it never
\* just disappears when the link closes or a packet cancels it meanwhile.
LeavesWithOutcome ==
  \A s \in Segment : s \notin incoming /\ inc[s].status # "NONE" =>
    \/ inc[s].told # <<>>
    \/ s < Segments /\ inc[s].status \in {"COMPLETE", "CORRUPT"}
    \/ inc[s].assembly \in {"joins", "concludes"}

\* What the sending application was told first, of whichever segment.
TellsFirst(s) ==
  out[s].told # <<>> /\ \A t \in Segment : out[t].told # <<>> => s <= t

FirstTold ==
  IF \E s \in Segment : TellsFirst(s)
    THEN Head(out[CHOOSE s \in Segment : TellsFirst(s)].told) ELSE "none"

Promise == INSTANCE Transfer WITH segments <- Segments, outcome <- FirstTold

\* Windows, retries, lost and repeated packets, watchdogs, cancellation and
\* closing links never show: the segments are stored in order and once each, and
\* "COMPLETE" is told only of a transfer that is (assemble(), validate_proof()).
TransfersAsPromised == Promise!Spec

\* The sending application is told an outcome, unless requests come for ever:
\* its watchdog ends every wait, whatever is lost (__watchdog_job()).
SenderConcludes ==
  <>(FirstTold # "none") \/ []<>(\E m \in net : m.type = "REQ")

\* The receiver's resources are concluded, unless parts or hashmap updates of
\* them come for ever (__watchdog_job(), cancel(), resource_concluded()).
ReceiverConcludes ==
  []<>(incoming = {}) \/ []<>(\E m \in net : m.type \in {"PART", "HMU"})
=============================================================================
