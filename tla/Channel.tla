------------------------------ MODULE Channel ------------------------------
(***************************************************************************)
(* One direction of an RNS.Channel (RNS/Channel.py) between the ends "tx"  *)
(* and "rx" of a link, with the packet receipts of RNS/Packet.py that      *)
(* carry its timeouts and proofs, over a network that loses, duplicates    *)
(* and reorders packets.                                                   *)
(*                                                                         *)
(* Messages are numbered 0, 1, ... in the order of the calls of send(), so *)
(* a message stands for its envelope and its content; on the wire it has   *)
(* the 16-bit sequence number Number(m).  A retransmission of a packet is  *)
(* encrypted anew and so has its own hash: copy c is transmission c of the *)
(* message, and a proof names the copy it proves.                          *)
(***************************************************************************)
EXTENDS ChannelWindow, Sequences, SequencesExt, FiniteSets

CONSTANTS
  MaxSend,       \* bound: number of calls of send() considered
  First,         \* messages sent and delivered before the first one considered
  SEQ_MODULUS,   \* size of the sequence number space
  WINDOW_MAX,    \* what the receiver allows beyond a wrap of the sequence
  MaxTries,      \* _max_tries
  Rtts,          \* the round-trip times the link may measure
  Unregistered,  \* messages of a type the receiver may not have registered yet
  Faults         \* the mishaps of the environment that may occur:
                 \*   "OVERSIZE"     a message is larger than the link's MDU
                 \*   "PREEMPT"      the receipt sweep runs between outlet.send()
                 \*                  and the registration of the callbacks
                 \*   "CULL"         a receipt is culled, MAX_RECEIPTS are tracked
                 \*   "STALE"        the sender's link is stale for a while, having
                 \*                  heard nothing from its peer
                 \*   "UNSENT"       Transport.outbound() has no interface for the
                 \*                  packet, although the link is active

ASSUME ChannelAssumption ==
  /\ MaxSend \in Nat /\ First \in Nat /\ MaxTries \in Nat \ {0}
  /\ SEQ_MODULUS \in Nat \ {0} /\ WINDOW_MAX \in 0 .. SEQ_MODULUS - 1
  /\ Rtts \subseteq RttClass
  /\ Unregistered \subseteq 0 .. MaxSend - 1
  /\ Faults \subseteq {"OVERSIZE", "PREEMPT", "CULL", "STALE", "UNSENT"}

Msgs   == 0 .. MaxSend - 1
Copies == 1 .. MaxTries
Packet == [msg : Msgs, copy : Copies]

Number(m) == (First + m) % SEQ_MODULUS

VARIABLES
  status,      \* status of the link as each end sees it
  next_msg,    \* messages handed to send(); _next_sequence is Number(next_msg)
  phase,       \* how far send() or a retry has come with each message
  tries,       \* transmissions counted in the envelope
  receipt,     \* state of the receipt of the latest transmission
  timer,       \* messages whose timeout callback thread has been started
  tx_ring,     \* envelopes of _tx_ring, in the order of their numbers
  win,         \* the window fields
  data,        \* copies put on the network
  proofs,      \* copies the receiver has proved
  next_rx,     \* _next_rx_sequence
  rx_ring,     \* _rx_ring
  delivering,  \* contiguous envelopes collected and not yet handed over
  delivered    \* messages handed to the message handlers, in order

sendVars == <<next_msg, phase, tries, receipt, timer, tx_ring, win>>
recvVars == <<next_rx, rx_ring, delivering, delivered>>
netVars  == <<data, proofs>>
vars     == <<status, sendVars, recvVars, netVars>>

Phase == {"unsent",  \* send() has not been called for the message
          "queued",  \* its envelope is in the ring, the packet is not sent
          "raised",  \* send() raised ME_TOO_BIG
          "sent",    \* the packet is sent, its callbacks are not set
          "resent",  \* a retry sent it again, its callbacks are not set
          "armed"}   \* the callbacks are set on its receipt, if it has one

Receipt == {"none",    \* there is no packet, or it was never packed
            "unsent",  \* the packet was packed, but not sent, and has no receipt
            "SENT", "DELIVERED", "FAILED", "CULLED"}

TypeOK ==
  /\ status \in [{"tx", "rx"} -> {"ACTIVE", "STALE", "CLOSED"}]
  /\ next_msg \in 0 .. MaxSend
  /\ phase \in [Msgs -> Phase]
  /\ tries \in [Msgs -> 0 .. MaxTries]
  /\ receipt \in [Msgs -> Receipt]
  /\ timer \in SUBSET Msgs
  /\ tx_ring \in SUBSET Msgs
  /\ win \in WindowState
  /\ data \in SUBSET Packet
  /\ proofs \in SUBSET Packet
  /\ next_rx \in 0 .. SEQ_MODULUS - 1
  /\ rx_ring \in Seq(Msgs)
  /\ delivering \in Seq(Msgs)
  /\ delivered \in Seq(Msgs)

\* A channel that has just been opened (First = 0), or one whose first
\* messages have all been delivered and proved.
Init ==
  /\ status = [e \in {"tx", "rx"} |-> "ACTIVE"]
  /\ next_msg = 0
  /\ phase = [m \in Msgs |-> "unsent"]
  /\ tries = [m \in Msgs |-> 0]
  /\ receipt = [m \in Msgs |-> "none"]
  /\ timer = {} /\ tx_ring = {}
  /\ \E rtt \in Rtts : win = InitialWindow(rtt)
  /\ data = {} /\ proofs = {}
  /\ next_rx = Number(0)
  /\ rx_ring = <<>> /\ delivering = <<>> /\ delivered = <<>>

-----------------------------------------------------------------------------
(***************************************************************************)
(* The sending end.                                                        *)
(***************************************************************************)

\* A retry holds the channel's lock until the callbacks are set again.
Locked == \E m \in Msgs : phase[m] = "resent"

\* is_ready_to_send(): fewer envelopes than the window are not yet delivered.
\* (get_packet_state() raises on a culled receipt, so send() fails as well.)
EveryEnvelope == tx_ring    \* mutant: a delivered envelope still counts
Outstanding == {m \in tx_ring : receipt[m] # "DELIVERED"}
IsReady ==
  /\ \A m \in tx_ring : receipt[m] # "CULLED"
  /\ Cardinality(Outstanding) < win.window

\* send(), the part under the lock: number the message and put it in the ring.
\* _emplace_envelope() leaves the ring alone when the number is in it already.
Send ==
  /\ next_msg < MaxSend /\ ~Locked /\ IsReady
  /\ next_msg' = next_msg + 1
  /\ phase' = [phase EXCEPT ![next_msg] = "queued"]
  /\ tx_ring' = IF \E m \in tx_ring : Number(m) = Number(next_msg)
                THEN tx_ring ELSE tx_ring \union {next_msg}
  /\ UNCHANGED <<status, tries, receipt, timer, win, netVars, recvVars>>

\* send(), outlet.send(): nothing leaves, and no receipt is made, on a link
\* that is not active: a stale one included, although a retry would be sent.
Transmit(m) ==
  /\ phase[m] = "queued"
  /\ phase' = [phase EXCEPT ![m] = "sent"]
  /\ IF status["tx"] = "ACTIVE"
     THEN /\ data' = data \union {[msg |-> m, copy |-> 1]}
          /\ receipt' = [receipt EXCEPT ![m] = "SENT"]
     ELSE UNCHANGED <<data, receipt>>
  /\ UNCHANGED <<status, next_msg, tries, timer, tx_ring, win, proofs, recvVars>>

\* The same when outbound() fails: Packet.send() drops the receipt, no callback is
\* ever set, and send() returns as if nothing had happened.
TransmitUnsent(m) ==
  /\ "UNSENT" \in Faults /\ phase[m] = "queued" /\ status["tx"] = "ACTIVE"
  /\ phase' = [phase EXCEPT ![m] = "sent"]
  /\ receipt' = [receipt EXCEPT ![m] = "unsent"]
  /\ UNCHANGED <<status, next_msg, tries, timer, tx_ring, win, netVars, recvVars>>

\* send(), the packed message exceeds outlet.mdu: ME_TOO_BIG is raised after
\* the envelope was numbered and put in the ring, where it stays.
RaiseTooBig(m) ==
  /\ "OVERSIZE" \in Faults /\ phase[m] = "queued"
  /\ phase' = [phase EXCEPT ![m] = "raised"]
  /\ UNCHANGED <<status, next_msg, tries, receipt, timer, tx_ring, win,
                 netVars, recvVars>>

\* send(), after outlet.send() returned: count the try, set the callbacks.
Arm(m) ==
  /\ phase[m] = "sent"
  /\ phase' = [phase EXCEPT ![m] = "armed"]
  /\ tries' = [tries EXCEPT ![m] = 1]
  /\ UNCHANGED <<status, next_msg, receipt, timer, tx_ring, win, netVars, recvVars>>

\* The copy the current receipt of message m is for.
CurrentCopy(m) == IF phase[m] = "sent" THEN 1 ELSE tries[m]

\* _packet_tx_op() looks for the envelope of m from the head of the ring on, and
\* get_packet_id() raises on the way if it meets a packet that was never packed.
Unfound(m) ==
  \E n \in tx_ring :
    Number(n) < Number(m) /\ phase[n] \in {"sent", "armed"} /\ receipt[n] = "none"

\* A proof reaches the sender.  Only a receipt that is still waiting is among
\* Transport.receipts.  The delivery callback, if it has been set, takes the
\* envelope out of the ring and adapts the window (_packet_delivered()).
ReceiveProof(p) ==
  LET m == p.msg IN
  /\ p \in proofs
  /\ receipt[m] = "SENT" /\ p.copy = CurrentCopy(m)
  /\ receipt' = [receipt EXCEPT ![m] = "DELIVERED"]
  /\ IF phase[m] = "armed" /\ m \in tx_ring /\ ~Unfound(m)
     THEN /\ ~Locked
          /\ tx_ring' = tx_ring \ {m}
          /\ \E rtt \in Rtts : win' = Grown(win, rtt)
     ELSE UNCHANGED <<tx_ring, win>>
  /\ UNCHANGED <<status, next_msg, phase, tries, timer, netVars, recvVars>>

\* mutant: the timeout callback is not started
ExpireSilently(m) ==
  /\ receipt[m] = "SENT"
  /\ phase[m] # "armed" => "PREEMPT" \in Faults
  /\ receipt' = [receipt EXCEPT ![m] = "FAILED"]
  /\ UNCHANGED <<status, next_msg, phase, tries, timer, tx_ring, win,
                 netVars, recvVars>>

\* The sweep over Transport.receipts finds the receipt timed out, drops it and
\* starts a thread for the timeout callback if one is set.
Expire(m) ==
  /\ receipt[m] = "SENT"
  /\ phase[m] # "armed" => "PREEMPT" \in Faults
  /\ receipt' = [receipt EXCEPT ![m] = "FAILED"]
  /\ timer' = IF phase[m] = "armed" /\ m \in tx_ring
              THEN timer \union {m} ELSE timer
  /\ UNCHANGED <<status, next_msg, phase, tries, tx_ring, win, netVars, recvVars>>

\* More than MAX_RECEIPTS are tracked and this is the oldest.  Its timeout
\* callback ends in an exception of get_packet_state().
Cull(m) ==
  /\ "CULL" \in Faults /\ receipt[m] = "SENT"
  /\ receipt' = [receipt EXCEPT ![m] = "CULLED"]
  /\ UNCHANGED <<status, next_msg, phase, tries, timer, tx_ring, win,
                 netVars, recvVars>>

\* _packet_timeout() of an envelope no longer in the ring does nothing, and one that
\* is not found in it ends in an exception.
TimeoutSpurious(m) ==
  /\ m \in timer /\ ~Locked
  /\ m \notin tx_ring \/ Unfound(m)
  /\ timer' = timer \ {m}
  /\ UNCHANGED <<status, next_msg, phase, tries, receipt, tx_ring, win,
                 netVars, recvVars>>

\* _packet_timeout(): the packet is sent again.
TimeoutResend(m) ==
  /\ m \in timer /\ ~Locked
  /\ m \in tx_ring /\ ~Unfound(m) /\ tries[m] < MaxTries
  /\ timer' = timer \ {m}
  /\ tries' = [tries EXCEPT ![m] = @ + 1]
  /\ data' = data \union {[msg |-> m, copy |-> tries[m] + 1]}
  /\ receipt' = [receipt EXCEPT ![m] = "SENT"]
  /\ phase' = [phase EXCEPT ![m] = "resent"]
  /\ UNCHANGED <<status, next_msg, tx_ring, win, proofs, recvVars>>

\* The same when outbound() fails: resend() drops the receipt of the packet, and the
\* outlet only logs it.
TimeoutUnsent(m) ==
  /\ "UNSENT" \in Faults /\ m \in timer /\ ~Locked
  /\ m \in tx_ring /\ ~Unfound(m) /\ tries[m] < MaxTries
  /\ timer' = timer \ {m}
  /\ tries' = [tries EXCEPT ![m] = @ + 1]
  /\ receipt' = [receipt EXCEPT ![m] = "unsent"]
  /\ phase' = [phase EXCEPT ![m] = "resent"]
  /\ UNCHANGED <<status, next_msg, tx_ring, win, netVars, recvVars>>

\* _packet_timeout(), after outlet.resend() returned: the callbacks are set,
\* the window shrinks and the lock is released.
Rearm(m) ==
  /\ phase[m] = "resent"
  /\ phase' = [phase EXCEPT ![m] = "armed"]
  /\ win' = Shrunk(win)
  /\ UNCHANGED <<status, next_msg, tries, receipt, timer, tx_ring, netVars, recvVars>>

\* mutant: the channel gives up on the packet and leaves the link open
TimeoutGiveUpQuietly(m) ==
  /\ m \in timer /\ ~Locked
  /\ m \in tx_ring /\ ~Unfound(m) /\ tries[m] >= MaxTries
  /\ timer' = timer \ {m}
  /\ tx_ring' = tx_ring \ {m}
  /\ UNCHANGED <<status, next_msg, phase, tries, receipt, win, netVars, recvVars>>

\* _packet_timeout(), no tries are left: the channel shuts down and tears down
\* the link.
TimeoutGiveUp(m) ==
  /\ m \in timer /\ ~Locked
  /\ m \in tx_ring /\ ~Unfound(m) /\ tries[m] >= MaxTries
  /\ timer' = timer \ {m}
  /\ tx_ring' = {}
  /\ status' = [status EXCEPT !["tx"] = "CLOSED"]
  /\ UNCHANGED <<next_msg, phase, tries, receipt, win, netVars, recvVars>>

\* The watchdog of the sender's link finds it stale; a packet from the peer
\* (its proofs do not count) makes it active again.
LinkStale ==
  /\ "STALE" \in Faults /\ status["tx"] = "ACTIVE"
  /\ status' = [status EXCEPT !["tx"] = "STALE"]
  /\ UNCHANGED <<sendVars, netVars, recvVars>>

LinkRevive ==
  /\ status["tx"] = "STALE"
  /\ status' = [status EXCEPT !["tx"] = "ACTIVE"]
  /\ UNCHANGED <<sendVars, netVars, recvVars>>

\* link_closed() at the sending end, for any other reason.
CloseSender ==
  /\ status["tx"] # "CLOSED" /\ ~Locked
  /\ status' = [status EXCEPT !["tx"] = "CLOSED"]
  /\ tx_ring' = {}
  /\ UNCHANGED <<next_msg, phase, tries, receipt, timer, win, netVars, recvVars>>

-----------------------------------------------------------------------------
(***************************************************************************)
(* The receiving end.                                                      *)
(***************************************************************************)

\* mutant: the expected number is refused with the ones before it
IsInvalidInclusive(s) ==
  LET overflow == (next_rx + WINDOW_MAX) % SEQ_MODULUS
  IN  s <= next_rx /\ (overflow < next_rx => s > overflow)

\* _receive(): numbers behind the next expected one are refused, unless they
\* may be the first ones after a wrap of the sequence.
IsInvalid(s) ==
  LET overflow == (next_rx + WINDOW_MAX) % SEQ_MODULUS
  IN  s < next_rx /\ (overflow < next_rx => s > overflow)

\* _emplace_envelope(): the positions of the ring at which its loop stops for
\* sequence number s, either at an equal number or at a larger one.
Stops(s) ==
  {i \in 1 .. Len(rx_ring) :
     \/ s = Number(rx_ring[i])
     \/ s < Number(rx_ring[i]) /\ ~(next_rx - s > (SEQ_MODULUS - 1) \div 2)}

IsFirst(i, S) == i \in S /\ \A j \in S : i <= j

IsDuplicate(s) == \E i \in Stops(s) : IsFirst(i, Stops(s)) /\ Number(rx_ring[i]) = s

EmplacedLast(m, ring) == ring = Append(rx_ring, m)   \* mutant: not in order

\* ring is _rx_ring after _emplace_envelope() put message m in it.
Emplaced(m, ring) ==
  IF Stops(Number(m)) = {}
  THEN ring = Append(rx_ring, m)
  ELSE \E i \in Stops(Number(m)) :
         IsFirst(i, Stops(Number(m))) /\ ring = InsertAt(rx_ring, i, m)

\* A pass of the collecting loop over the ring from position `from' on, with
\* n the next expected number: pos are the positions it collects.
IsPass(pos, ring, from, n) ==
  /\ \A k \in 1 .. Len(pos) :
       LET after == {i \in 1 .. Len(ring) :
                       /\ i > (IF k = 1 THEN from ELSE pos[k - 1])
                       /\ Number(ring[i]) = n + k - 1}
       IN  IsFirst(pos[k], after)
  /\ \A i \in 1 .. Len(ring) :
       Number(ring[i]) = n + Len(pos)
         => i <= (IF pos = <<>> THEN from ELSE pos[Len(pos)])

\* Candidates for pos: sequences of positions no longer than the ring.
Positions(ring) == UNION {[1 .. k -> 1 .. Len(ring)] : k \in 0 .. Len(ring)}

CollectedWhole(ring, msgs) == msgs = ring   \* mutant: gaps are not looked at

\* The loop over the ring in _receive(): the envelopes it collects, in order.
\* When the number wraps, an inner loop starts over at the head of the ring,
\* after which the outer loop goes on behind the place where it wrapped.
Collected(ring, msgs) ==
  \E pos \in Positions(ring) :
    /\ IsPass(pos, ring, 0, next_rx)
    /\ IF next_rx + Len(pos) < SEQ_MODULUS
       THEN msgs = [k \in 1 .. Len(pos) |-> ring[pos[k]]]
       ELSE \E inner \in Positions(ring) :
              /\ IsPass(inner, ring, 0, 0)
              /\ \E rest \in Positions(ring) :
                   /\ IsPass(rest, ring, pos[Len(pos)], Len(inner))
                   /\ LET all == pos \o inner \o rest
                      IN  msgs = [k \in 1 .. Len(all) |-> ring[all[k]]]

\* mutant: the lock is not held while envelopes are handed over
ProveUnlocked(p) ==
  /\ p \in data /\ status["rx"] = "ACTIVE"
  /\ proofs' = proofs \union {p}
  /\ UNCHANGED <<status, sendVars, data>>

\* Link.receive() of a channel packet: it is proved first, then _receive()
\* takes it.  The receiver's lock is held while envelopes are handed over.
\* A packet stays in data, so it may arrive again, or never.
Prove(p) ==
  /\ p \in data /\ status["rx"] = "ACTIVE" /\ delivering = <<>>
  /\ proofs' = proofs \union {p}
  /\ UNCHANGED <<status, sendVars, data>>

ReceiveNew(p) ==
  /\ Prove(p)
  /\ ~IsInvalid(Number(p.msg)) /\ ~IsDuplicate(Number(p.msg))
  /\ Emplaced(p.msg, rx_ring')
  /\ Collected(rx_ring', delivering')
  /\ next_rx' = (next_rx + Len(delivering')) % SEQ_MODULUS
  /\ UNCHANGED delivered

ReceiveInvalid(p) ==
  /\ Prove(p)
  /\ IsInvalid(Number(p.msg))
  /\ UNCHANGED recvVars

ReceiveDuplicate(p) ==
  /\ Prove(p)
  /\ ~IsInvalid(Number(p.msg)) /\ IsDuplicate(Number(p.msg))
  /\ UNCHANGED recvVars

\* unpack() raises ME_NOT_REGISTERED; the packet has been proved all the same.
ReceiveUnregistered(p) ==
  /\ p.msg \in Unregistered
  /\ Prove(p)
  /\ UNCHANGED recvVars

\* The next collected envelope leaves the ring and goes to the handlers.
Deliver ==
  /\ delivering # <<>>
  /\ \E i \in 1 .. Len(rx_ring) :
       /\ IsFirst(i, {j \in 1 .. Len(rx_ring) : rx_ring[j] = Head(delivering)})
       /\ rx_ring' = RemoveAt(rx_ring, i)
  /\ delivered' = Append(delivered, Head(delivering))
  /\ delivering' = Tail(delivering)
  /\ UNCHANGED <<status, sendVars, netVars, next_rx>>

\* link_closed() at the receiving end.  Done by a message handler, it makes the
\* removal of the next collected envelope fail, which ends the handing over.
CloseReceiver ==
  /\ status["rx"] = "ACTIVE"
  /\ status' = [status EXCEPT !["rx"] = "CLOSED"]
  /\ rx_ring' = <<>> /\ delivering' = <<>>
  /\ UNCHANGED <<sendVars, netVars, next_rx, delivered>>

-----------------------------------------------------------------------------
Sender ==
  \/ Send
  \/ \E m \in Msgs :
       \/ Transmit(m) \/ TransmitUnsent(m) \/ RaiseTooBig(m) \/ Arm(m)
       \/ Expire(m) \/ Cull(m)
       \/ TimeoutSpurious(m) \/ TimeoutResend(m) \/ TimeoutUnsent(m)
       \/ Rearm(m) \/ TimeoutGiveUp(m)
  \/ \E p \in proofs : ReceiveProof(p)
  \/ LinkStale \/ LinkRevive
  \/ CloseSender

Receiver ==
  \/ \E p \in data :
       \/ ReceiveNew(p) \/ ReceiveInvalid(p) \/ ReceiveDuplicate(p)
       \/ ReceiveUnregistered(p)
  \/ Deliver
  \/ CloseReceiver

Next == Sender \/ Receiver

Spec == Init /\ [][Next]_vars

-----------------------------------------------------------------------------
(***************************************************************************)
(* Properties.                                                             *)
(***************************************************************************)

\* The handlers get the messages in the order of the calls of send(), none
\* left out and none twice, whatever the network and the retries do.
InOrderExactlyOnce ==
  /\ Len(delivered) <= next_msg
  /\ \A i \in 1 .. Len(delivered) : delivered[i] = i - 1

\* What the sender takes for delivered (and will not send again) the receiver
\* has handed over or still holds: a proof never vouches for a lost message.
ProvedIsHeld ==
  status["rx"] = "ACTIVE" =>
    \A m \in Msgs : receipt[m] = "DELIVERED" =>
      m \in ToSet(rx_ring) \union ToSet(delivered)

\* The receiver never sits on the message it waits for: once a packet has been
\* handled, the next expected number is not in the ring.
NothingDeliverableHeld ==
  delivering = <<>> => \A m \in ToSet(rx_ring) : Number(m) # next_rx

\* Whatever is still to be delivered will be tried again: an envelope of the
\* ring whose callbacks are set has a live receipt or a timeout thread on the
\* way (or has been proved before they were set).  One that no interface took is
\* not tried again (LinkChannelOutlet.send(), resend()), and it alone is not: its
\* fate does not touch the retries of the others.
RetryPending ==
  status["tx"] = "ACTIVE" =>
    \A m \in tx_ring : phase[m] = "armed" /\ receipt[m] # "unsent" =>
      receipt[m] \in {"SENT", "DELIVERED"} \/ m \in timer

\* The window never exceeds its upper limit nor closes altogether, in whatever
\* order proofs, timeouts and changes of the rate regime come.
WindowSound == /\ 1 <= win.window /\ win.window <= win.max
               /\ 1 <= win.min /\ win.min <= win.max

\* The channel implements the reliable FIFO of its documentation.
Fifo == INSTANCE ReliableFifo
          WITH accepted <- next_msg,
               open <- \A e \in {"tx", "rx"} : status[e] # "CLOSED"
ReliableDelivery == Fifo!Spec

\* The transport's job loop sweeps the receipts over and over, started threads
\* go on, and the watchdog does not leave a link stale: the network alone is
\* free never to deliver anything.
Fairness ==
  /\ \A m \in Msgs :
       /\ WF_vars(Transmit(m)) /\ WF_vars(Arm(m)) /\ WF_vars(Rearm(m))
       /\ WF_vars(Expire(m))
       /\ WF_vars(TimeoutSpurious(m)) /\ WF_vars(TimeoutResend(m))
       /\ WF_vars(TimeoutGiveUp(m))
  /\ WF_vars(status["tx"] = "STALE" /\ (LinkRevive \/ CloseSender))
  /\ WF_vars(Deliver)

FairSpec == Spec /\ Fairness

Closed == \E e \in {"tx", "rx"} : status[e] = "CLOSED"

Unsent(m) == receipt[m] = "unsent"

\* Every message send() accepts is delivered, unless the link closes: lost
\* packets and proofs are made up for by retries, or end in a teardown.  A packet
\* that no interface took is made up for by neither, and holds up what follows it.
EventuallyDelivered ==
  \A m \in Msgs :
    (next_msg > m /\ phase[m] # "raised") ~>
      (m \in ToSet(delivered) \/ Closed \/ \E n \in 0 .. m : Unsent(n))

\* A channel whose window is exhausted becomes ready to send again, or closes,
\* unless an envelope occupies the window whose packet no interface took.
EventuallyReady ==
  (~IsReady) ~> (IsReady \/ Closed \/ \E m \in tx_ring : Unsent(m))
=============================================================================
