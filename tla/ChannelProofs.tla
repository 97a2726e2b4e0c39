--------------------------- MODULE ChannelProofs ---------------------------
(***************************************************************************)
(* Theorems about Channel: its type invariant and the bounds of its window *)
(* for every value of the constants, and the reliability invariants for    *)
(* every channel whose sequence numbers have not yet come near a wrap.     *)
(***************************************************************************)
EXTENDS Channel, SequenceTheorems, TLAPS

-----------------------------------------------------------------------------
(***************************************************************************)
(* The two sequence operations the ring is changed by.                     *)
(***************************************************************************)

\* What inserting into a sequence at a position returns.
LEMMA InsertAtFacts ==
  ASSUME NEW S, NEW s \in Seq(S), NEW e \in S, NEW i \in 1 .. Len(s)
  PROVE  /\ InsertAt(s, i, e) \in Seq(S)
         /\ Len(InsertAt(s, i, e)) = Len(s) + 1
         /\ \A j \in 1 .. Len(s) + 1 :
              InsertAt(s, i, e)[j] = IF j < i THEN s[j]
                                     ELSE IF j = i THEN e ELSE s[j - 1]
  BY DEF InsertAt

\* What removing a position from a sequence returns.
LEMMA RemoveAtFacts ==
  ASSUME NEW S, NEW s \in Seq(S), NEW i \in 1 .. Len(s)
  PROVE  /\ RemoveAt(s, i) \in Seq(S)
         /\ Len(RemoveAt(s, i)) = Len(s) - 1
         /\ \A j \in 1 .. Len(s) - 1 :
              RemoveAt(s, i)[j] = IF j < i THEN s[j] ELSE s[j + 1]
  <1> DEFINE before == SubSeq(s, 1, i - 1)
             behind == SubSeq(s, i + 1, Len(s))
  <1>1. before \in Seq(S) /\ behind \in Seq(S)
    OBVIOUS
  <1>2. Len(before) = i - 1 /\ Len(behind) = Len(s) - i
    OBVIOUS
  <1>3. \A j \in 1 .. i - 1 : before[j] = s[j]
    OBVIOUS
  <1>4. \A j \in 1 .. Len(s) - i : behind[j] = s[j + i]
    OBVIOUS
  <1>5. RemoveAt(s, i) = before \o behind
    BY DEF RemoveAt
  <1> HIDE DEF before, behind
  <1>6. /\ before \o behind \in Seq(S)
        /\ Len(before \o behind) = Len(s) - 1
    BY <1>1, <1>2
  <1>7. ASSUME NEW j \in 1 .. Len(s) - 1
        PROVE  (before \o behind)[j] = IF j < i THEN s[j] ELSE s[j + 1]
    <2>1. (before \o behind)[j] = IF j <= i - 1 THEN before[j] ELSE behind[j - (i - 1)]
      BY <1>1, <1>2
    <2>2. CASE j < i
      BY <1>3, <2>1, <2>2
    <2>3. CASE ~(j < i)
      BY <1>4, <2>1, <2>3
    <2>4. QED
      BY <2>2, <2>3
  <1>8. QED
    BY <1>5, <1>6, <1>7

\* The elements after an insertion: those from before and the new one.
LEMMA InsertAtElements ==
  ASSUME NEW S, NEW s \in Seq(S), NEW e \in S, NEW i \in 1 .. Len(s),
         NEW t, t = InsertAt(s, i, e)
  PROVE  /\ t \in Seq(S) /\ Len(t) = Len(s) + 1
         /\ \A k \in 1 .. Len(t) : t[k] = e \/ \E j \in 1 .. Len(s) : t[k] = s[j]
         /\ \E k \in 1 .. Len(t) : t[k] = e
         /\ \A j \in 1 .. Len(s) : \E k \in 1 .. Len(t) : t[k] = s[j]
  <1>1. /\ t \in Seq(S) /\ Len(t) = Len(s) + 1
        /\ \A k \in 1 .. Len(s) + 1 :
             t[k] = IF k < i THEN s[k] ELSE IF k = i THEN e ELSE s[k - 1]
    BY InsertAtFacts
  <1>2. ASSUME NEW k \in 1 .. Len(t)
        PROVE  t[k] = e \/ \E j \in 1 .. Len(s) : t[k] = s[j]
    BY <1>1
  <1>3. i \in 1 .. Len(t) /\ t[i] = e
    BY <1>1
  <1>4. ASSUME NEW j \in 1 .. Len(s)
        PROVE  \E k \in 1 .. Len(t) : t[k] = s[j]
    <2>1. CASE j < i
      BY <1>1, <2>1
    <2>2. CASE ~(j < i)
      <3>1. j + 1 \in 1 .. Len(t) /\ t[j + 1] = s[j]
        BY <1>1, <2>2
      <3>2. QED
        BY <3>1
    <2>3. QED
      BY <2>1, <2>2
  <1>5. QED
    BY <1>1, <1>2, <1>3, <1>4

-----------------------------------------------------------------------------
(***************************************************************************)
(* The window.                                                             *)
(***************************************************************************)

\* A window record whose fields are in order: the inductive form of WindowSound.
Sound(w) == /\ w \in WindowState
            /\ 1 <= w.window /\ w.window <= w.max
            /\ 1 <= w.min /\ w.min <= w.max

\* The window a channel starts with is sound, whatever the round-trip time.
LEMMA InitialWindowSound ==
  ASSUME NEW rtt \in RttClass PROVE Sound(InitialWindow(rtt))
  BY WindowAssumption DEF Sound, WindowState, InitialWindow

\* No rate regime is entered with limits the window does not fit in.
LEMMA RateRoundSound ==
  ASSUME NEW w, Sound(w), NEW rtt \in RttClass
  PROVE  Sound(RateRound(w, rtt))
  <1> DEFINE v == RateRound(w, rtt)
  <1>1. /\ OneMore(w.fast) \in 0 .. FAST_RATE_THRESHOLD + 1
        /\ OneMore(w.medium) \in 0 .. FAST_RATE_THRESHOLD + 1
        /\ 0 \in 0 .. FAST_RATE_THRESHOLD + 1
    BY WindowAssumption DEF Sound, WindowState, OneMore
  <1>2. v \in WindowState
    BY <1>1, WindowAssumption DEF RateRound, Sound, WindowState
  <1>3. /\ v.window = w.window
        /\ \/ v.max = w.max /\ v.min = w.min
           \/ /\ w.max < WINDOW_MAX_FAST
              /\ v.max = WINDOW_MAX_FAST /\ v.min = WINDOW_MIN_LIMIT_FAST
           \/ /\ w.max < WINDOW_MAX_MEDIUM
              /\ v.max = WINDOW_MAX_MEDIUM /\ v.min = WINDOW_MIN_LIMIT_MEDIUM
    BY DEF RateRound, Sound, WindowState
  <1>4. QED
    BY <1>2, <1>3, WindowAssumption DEF Sound, WindowState

\* A delivery that widens the window leaves it within its maximum.
LEMMA GrownSound ==
  ASSUME NEW w, Sound(w), NEW rtt \in RttClass
  PROVE  Sound(Grown(w, rtt))
  <1>1. Sound([w EXCEPT !.window = IF @ < w.max THEN @ + 1 ELSE @])
    BY DEF Sound, WindowState
  <1>2. QED
    BY <1>1, RateRoundSound DEF Grown

\* A timeout that narrows the window leaves it at its minimum at least.
LEMMA ShrunkSound ==
  ASSUME NEW w, Sound(w) PROVE Sound(Shrunk(w))
  <1> DEFINE v == Shrunk(w)
  <1>1. CASE w.window > w.min
    <2>1. v \in WindowState
      <3>1. /\ w.window - 1 \in Nat
            /\ (IF w.max > w.min + w.flexibility THEN w.max - 1 ELSE w.max) \in Nat
        BY DEF Sound, WindowState
      <3>2. QED
        BY <1>1, <3>1 DEF Shrunk, Sound, WindowState
    <2>2. /\ v.window = w.window - 1 /\ v.min = w.min
          /\ v.max = w.max \/ (v.max = w.max - 1 /\ w.max > w.min + w.flexibility)
      BY <1>1 DEF Shrunk, Sound, WindowState
    <2>3. QED
      BY <1>1, <2>1, <2>2 DEF Sound, WindowState
  <1>2. CASE ~(w.window > w.min)
    BY <1>2 DEF Shrunk
  <1>3. QED
    BY <1>1, <1>2

-----------------------------------------------------------------------------
(***************************************************************************)
(* Type correctness and the bounds of the window.                          *)
(***************************************************************************)

\* The positions a collecting pass may take.
LEMMA PositionsType ==
  ASSUME NEW ring \in Seq(Msgs), NEW pos \in Positions(ring)
  PROVE  pos \in Seq(1 .. Len(ring)) /\ Len(pos) \in 0 .. Len(ring)
  BY DEF Positions

\* The loop over the ring collects messages.
LEMMA CollectedType ==
  ASSUME NEW ring \in Seq(Msgs), NEW msgs, Collected(ring, msgs)
  PROVE  msgs \in Seq(Msgs)
  <1>1. ASSUME NEW all \in Seq(1 .. Len(ring)),
               msgs = [k \in 1 .. Len(all) |-> ring[all[k]]]
        PROVE  msgs \in Seq(Msgs)
    BY <1>1
  <1>2. PICK pos \in Positions(ring) :
          \/ msgs = [k \in 1 .. Len(pos) |-> ring[pos[k]]]
          \/ \E inner, rest \in Positions(ring) :
               LET all == pos \o inner \o rest
               IN  msgs = [k \in 1 .. Len(all) |-> ring[all[k]]]
    BY Zenon DEF Collected
  <1>3. pos \in Seq(1 .. Len(ring))
    BY PositionsType
  <1>4. CASE msgs = [k \in 1 .. Len(pos) |-> ring[pos[k]]]
    BY <1>1, <1>3, <1>4
  <1>5. ASSUME NEW inner \in Positions(ring), NEW rest \in Positions(ring),
               LET all == pos \o inner \o rest
               IN  msgs = [k \in 1 .. Len(all) |-> ring[all[k]]]
        PROVE  msgs \in Seq(Msgs)
    <2>1. inner \in Seq(1 .. Len(ring)) /\ rest \in Seq(1 .. Len(ring))
      BY PositionsType
    <2>2. pos \o inner \o rest \in Seq(1 .. Len(ring))
      BY <1>3, <2>1
    <2>3. QED
      BY <1>1, <1>5, <2>2
  <1>6. QED
    BY <1>2, <1>4, <1>5

\* Putting a message in the ring yields a ring of messages.
LEMMA EmplacedType ==
  ASSUME rx_ring \in Seq(Msgs), NEW m \in Msgs, NEW ring, Emplaced(m, ring)
  PROVE  ring \in Seq(Msgs)
  <1>1. CASE Stops(Number(m)) = {}
    BY <1>1 DEF Emplaced
  <1>2. CASE Stops(Number(m)) # {}
    <2>1. PICK i \in 1 .. Len(rx_ring) : ring = InsertAt(rx_ring, i, m)
      BY <1>2 DEF Emplaced, Stops
    <2>2. QED
      BY <2>1, InsertAtFacts
  <1>3. QED
    BY <1>1, <1>2

TypeInv == TypeOK /\ Sound(win)

\* The channel starts with values of the types.
LEMMA InitType == Init => TypeInv
  <1> SUFFICES ASSUME Init PROVE TypeInv
    OBVIOUS
  <1>1. Sound(win)
    BY InitialWindowSound, ChannelAssumption DEF Init
  <1>2. next_rx \in 0 .. SEQ_MODULUS - 1
    BY ChannelAssumption DEF Init, Number
  <1>3. QED
    BY <1>1, <1>2, ChannelAssumption
    DEF Init, TypeInv, TypeOK, Sound, Phase, Receipt

\* Every step of the sender, of the receiver and of the network keeps the types
\* and the order of the window's fields.
LEMMA NextType == TypeInv /\ [Next]_vars => TypeInv'
  <1> SUFFICES ASSUME TypeInv, [Next]_vars PROVE TypeInv'
    OBVIOUS
  <1> USE ChannelAssumption DEF TypeInv, TypeOK
  <1>1. CASE Send
    <2>1. next_msg \in Msgs /\ next_msg + 1 \in 0 .. MaxSend
      BY <1>1 DEF Send, Msgs
    <2>2. QED
      BY <1>1, <2>1 DEF Send, netVars, recvVars, Phase
  <1>2. ASSUME NEW m \in Msgs, Transmit(m) PROVE TypeInv'
    <2>1. [msg |-> m, copy |-> 1] \in Packet
      BY DEF Packet, Copies
    <2>2. QED
      BY <1>2, <2>1 DEF Transmit, recvVars, Phase, Receipt
  <1>2a. ASSUME NEW m \in Msgs, TransmitUnsent(m) PROVE TypeInv'
    BY <1>2a DEF TransmitUnsent, netVars, recvVars, Phase, Receipt
  <1>3. ASSUME NEW m \in Msgs, RaiseTooBig(m) PROVE TypeInv'
    BY <1>3 DEF RaiseTooBig, netVars, recvVars, Phase
  <1>4. ASSUME NEW m \in Msgs, Arm(m) PROVE TypeInv'
    BY <1>4 DEF Arm, netVars, recvVars, Phase
  <1>5. ASSUME NEW m \in Msgs, Expire(m) PROVE TypeInv'
    BY <1>5 DEF Expire, netVars, recvVars, Receipt
  <1>6. ASSUME NEW m \in Msgs, Cull(m) PROVE TypeInv'
    BY <1>6 DEF Cull, netVars, recvVars, Receipt
  <1>7. ASSUME NEW m \in Msgs, TimeoutSpurious(m) PROVE TypeInv'
    BY <1>7 DEF TimeoutSpurious, netVars, recvVars
  <1>8. ASSUME NEW m \in Msgs, TimeoutResend(m) PROVE TypeInv'
    <2>1. /\ tries[m] + 1 \in 0 .. MaxTries
          /\ [msg |-> m, copy |-> tries[m] + 1] \in Packet
      BY <1>8 DEF TimeoutResend, Packet, Copies
    <2>2. QED
      BY <1>8, <2>1 DEF TimeoutResend, recvVars, Phase, Receipt
  <1>8a. ASSUME NEW m \in Msgs, TimeoutUnsent(m) PROVE TypeInv'
    <2>1. tries[m] + 1 \in 0 .. MaxTries
      BY <1>8a DEF TimeoutUnsent
    <2>2. QED
      BY <1>8a, <2>1 DEF TimeoutUnsent, netVars, recvVars, Phase, Receipt
  <1>9. ASSUME NEW m \in Msgs, Rearm(m) PROVE TypeInv'
    <2>1. Sound(win') /\ win' \in WindowState
      BY <1>9, ShrunkSound DEF Rearm, Sound
    <2>2. QED
      BY <1>9, <2>1 DEF Rearm, netVars, recvVars, Phase
  <1>10. ASSUME NEW m \in Msgs, TimeoutGiveUp(m) PROVE TypeInv'
    BY <1>10 DEF TimeoutGiveUp, netVars, recvVars
  <1>11. ASSUME NEW p \in proofs, ReceiveProof(p) PROVE TypeInv'
    <2>1. p.msg \in Msgs
      BY DEF Packet
    <2>2. Sound(win') /\ win' \in WindowState
      BY <1>11, GrownSound DEF ReceiveProof, Sound
    <2>3. QED
      BY <1>11, <2>1, <2>2 DEF ReceiveProof, netVars, recvVars, Receipt
  <1>12. CASE LinkStale \/ LinkRevive \/ CloseSender
    BY <1>12 DEF LinkStale, LinkRevive, CloseSender, sendVars, netVars, recvVars
  <1>13. ASSUME NEW p \in data, Prove(p) PROVE proofs' \in SUBSET Packet
    BY <1>13 DEF Prove
  <1>14. ASSUME NEW p \in data, ReceiveNew(p) PROVE TypeInv'
    <2>1. p.msg \in Msgs
      BY DEF Packet
    <2>2. rx_ring' \in Seq(Msgs)
      BY <1>14, <2>1, EmplacedType DEF ReceiveNew
    <2>3. delivering' \in Seq(Msgs)
      BY <1>14, <2>2, CollectedType DEF ReceiveNew
    <2>4. next_rx' \in 0 .. SEQ_MODULUS - 1
      BY <1>14, <2>3 DEF ReceiveNew
    <2>5. QED
      BY <1>13, <1>14, <2>2, <2>3, <2>4 DEF ReceiveNew, Prove, sendVars
  <1>15. ASSUME NEW p \in data,
                ReceiveInvalid(p) \/ ReceiveDuplicate(p) \/ ReceiveUnregistered(p)
         PROVE  TypeInv'
    BY <1>13, <1>15
    DEF ReceiveInvalid, ReceiveDuplicate, ReceiveUnregistered, Prove, sendVars, recvVars
  <1>16. CASE Deliver
    <2>1. rx_ring' \in Seq(Msgs)
      BY <1>16, RemoveAtFacts DEF Deliver
    <2>2. Head(delivering) \in Msgs /\ Tail(delivering) \in Seq(Msgs)
      BY <1>16 DEF Deliver
    <2>3. QED
      BY <1>16, <2>1, <2>2 DEF Deliver, sendVars, netVars
  <1>17. CASE CloseReceiver
    BY <1>17 DEF CloseReceiver, sendVars, netVars
  <1>18. CASE UNCHANGED vars
    BY <1>18 DEF vars, sendVars, recvVars, netVars
  <1>19. QED
    BY <1>1, <1>2, <1>2a, <1>3, <1>4, <1>5, <1>6, <1>7, <1>8, <1>8a, <1>9, <1>10, <1>11,
       <1>12, <1>14, <1>15, <1>16, <1>17, <1>18
    DEF Next, Sender, Receiver

\* Types and the order of the window constants hold for ever.
LEMMA TypeInvariant == Spec => []TypeInv
  <1>1. QED
    BY InitType, NextType, PTL DEF Spec

\* The channel's variables, and the network's, keep their types.
THEOREM TypeCorrect == Spec => []TypeOK
  <1>1. TypeInv => TypeOK
    BY DEF TypeInv
  <1>2. QED
    BY <1>1, TypeInvariant, PTL

\* The window never exceeds its limit nor closes, for every choice of limits.
THEOREM WindowAlwaysSound == Spec => []WindowSound
  <1>1. TypeInv => WindowSound
    BY DEF TypeInv, Sound, WindowSound
  <1>2. QED
    BY <1>1, TypeInvariant, PTL

-----------------------------------------------------------------------------
(***************************************************************************)
(* Reliability, as long as the sequence numbers stay clear of the wrap.    *)
(***************************************************************************)

\* No number the run uses, nor one the receiver would allow beyond it, wraps.
NoWrap == First + MaxSend + WINDOW_MAX < SEQ_MODULUS

\* Messages exist before anything else knows of them.
Origin ==
  /\ \A m \in Msgs : phase[m] # "unsent" \/ m \in tx_ring => m < next_msg
  /\ \A p \in data : p.msg < next_msg
  /\ proofs \subseteq data
  /\ \A i \in 1 .. Len(rx_ring) : rx_ring[i] < next_msg

\* What has been handed over, what is about to be, and what is expected next
\* are one run of numbers.
Progress ==
  /\ \A i \in 1 .. Len(delivered) : delivered[i] = i - 1
  /\ \A k \in 1 .. Len(delivering) : delivering[k] = Len(delivered) + k - 1
  /\ Len(delivered) + Len(delivering) <= next_msg
  /\ status["rx"] = "ACTIVE" => next_rx = First + Len(delivered) + Len(delivering)

\* Clear of a wrap, sequence numbers count on from the first.
LEMMA NumberNoWrap ==
  ASSUME NoWrap, NEW m \in 0 .. MaxSend
  PROVE  Number(m) = First + m
  BY ChannelAssumption DEF NoWrap, Number

\* Without a wrap, the loop over the ring collects the messages that continue
\* the run of the numbers received so far.
LEMMA CollectedNoWrap ==
  ASSUME NoWrap, next_rx \in 0 .. SEQ_MODULUS - 1,
         NEW ring \in Seq(Msgs), NEW msgs, Collected(ring, msgs)
  PROVE  \E pos \in Positions(ring) :
           /\ IsPass(pos, ring, 0, next_rx)
           /\ msgs = [k \in 1 .. Len(pos) |-> ring[pos[k]]]
           /\ \A k \in 1 .. Len(pos) : First + ring[pos[k]] = next_rx + k - 1
           /\ next_rx + Len(pos) < SEQ_MODULUS
  <1>1. PICK pos \in Positions(ring) :
          /\ IsPass(pos, ring, 0, next_rx)
          /\ next_rx + Len(pos) < SEQ_MODULUS
               => msgs = [k \in 1 .. Len(pos) |-> ring[pos[k]]]
    BY Zenon DEF Collected
  <1>2. pos \in Seq(1 .. Len(ring)) /\ Len(pos) \in Nat
    BY PositionsType
  <1>3. ASSUME NEW k \in 1 .. Len(pos)
        PROVE  /\ ring[pos[k]] \in Msgs
               /\ First + ring[pos[k]] = next_rx + k - 1
    <2>1. pos[k] \in 1 .. Len(ring) /\ ring[pos[k]] \in Msgs
      BY <1>2
    <2>2. Number(ring[pos[k]]) = next_rx + k - 1
      BY <1>1 DEF IsPass, IsFirst
    <2>3. QED
      BY <2>1, <2>2, NumberNoWrap, ChannelAssumption DEF Msgs
  <1>4. next_rx + Len(pos) < SEQ_MODULUS
    <2>1. CASE Len(pos) = 0
      BY <2>1, ChannelAssumption
    <2>2. CASE Len(pos) # 0
      <3>1. Len(pos) \in 1 .. Len(pos)
        BY <1>2, <2>2
      <3>2. /\ ring[pos[Len(pos)]] \in Msgs
            /\ First + ring[pos[Len(pos)]] = next_rx + Len(pos) - 1
        BY <1>3, <3>1
      <3>3. next_rx + Len(pos) - 1 <= First + MaxSend - 1
        <4>1. ring[pos[Len(pos)]] <= MaxSend - 1 /\ ring[pos[Len(pos)]] \in Int
          BY <3>2, ChannelAssumption DEF Msgs
        <4>2. First \in Nat /\ MaxSend \in Nat
          BY ChannelAssumption
        <4>3. QED
          BY <3>2, <4>1, <4>2
      <3>4. WINDOW_MAX \in Nat /\ First \in Nat /\ MaxSend \in Nat /\ SEQ_MODULUS \in Nat
        BY ChannelAssumption
      <3>5. QED
        BY <1>2, <3>3, <3>4 DEF NoWrap
    <2>3. QED
      BY <1>2, <2>1, <2>2
  <1>5. QED
    BY <1>1, <1>3, <1>4

\* Nothing is sent or delivered at the start.
LEMMA InitReliable == NoWrap /\ Init => Origin /\ Progress
  BY NumberNoWrap, ChannelAssumption DEF Init, Origin, Progress, Msgs

\* The ring gains nothing but the message that is put in it.
LEMMA EmplacedElements ==
  ASSUME rx_ring \in Seq(Msgs), NEW m \in Msgs, NEW ring, Emplaced(m, ring)
  PROVE  /\ \A i \in 1 .. Len(ring) :
              ring[i] = m \/ \E j \in 1 .. Len(rx_ring) : ring[i] = rx_ring[j]
         /\ \E i \in 1 .. Len(ring) : ring[i] = m
         /\ \A j \in 1 .. Len(rx_ring) :
              \E i \in 1 .. Len(ring) : ring[i] = rx_ring[j]
  <1>1. CASE Stops(Number(m)) = {}
    <2>1. ring = Append(rx_ring, m)
      BY <1>1 DEF Emplaced
    <2>2. QED
      BY <2>1
  <1>2. CASE Stops(Number(m)) # {}
    <2>1. PICK i \in 1 .. Len(rx_ring) : ring = InsertAt(rx_ring, i, m)
      BY <1>2 DEF Emplaced, Stops
    <2>2. QED
      BY <2>1, InsertAtElements
  <1>3. QED
    BY <1>1, <1>2

\* Handing an envelope over takes nothing but that envelope out of the ring.
LEMMA DeliverElements ==
  ASSUME rx_ring \in Seq(Msgs), Deliver
  PROVE  /\ rx_ring' \in Seq(Msgs)
         /\ \A k \in 1 .. Len(rx_ring') :
              \E j \in 1 .. Len(rx_ring) : rx_ring'[k] = rx_ring[j]
         /\ \A j \in 1 .. Len(rx_ring) :
              \/ rx_ring[j] = Head(delivering)
              \/ \E k \in 1 .. Len(rx_ring') : rx_ring'[k] = rx_ring[j]
  <1>1. PICK r \in 1 .. Len(rx_ring) :
          rx_ring[r] = Head(delivering) /\ rx_ring' = RemoveAt(rx_ring, r)
    BY DEF Deliver, IsFirst
  <1>2. /\ rx_ring' \in Seq(Msgs) /\ Len(rx_ring') = Len(rx_ring) - 1
        /\ \A k \in 1 .. Len(rx_ring) - 1 :
             rx_ring'[k] = IF k < r THEN rx_ring[k] ELSE rx_ring[k + 1]
    BY <1>1, RemoveAtFacts
  <1>3. ASSUME NEW k \in 1 .. Len(rx_ring')
        PROVE  \E j \in 1 .. Len(rx_ring) : rx_ring'[k] = rx_ring[j]
    <2>1. k \in 1 .. Len(rx_ring) /\ k + 1 \in 1 .. Len(rx_ring)
      BY <1>2
    <2>2. QED
      BY <1>2, <2>1
  <1>4. ASSUME NEW j \in 1 .. Len(rx_ring), j # r
        PROVE  \E k \in 1 .. Len(rx_ring') : rx_ring'[k] = rx_ring[j]
    <2>1. CASE j < r
      BY <1>2, <2>1
    <2>2. CASE r < j
      <3>1. j - 1 \in 1 .. Len(rx_ring') /\ rx_ring'[j - 1] = rx_ring[j]
        BY <1>2, <2>2
      <3>2. QED
        BY <3>1
    <2>3. QED
      BY <1>4, <2>1, <2>2
  <1>5. QED
    BY <1>1, <1>2, <1>3, <1>4

\* The steps of the sender, of the network and of the receiver keep messages
\* from being known before they exist.
LEMMA NextOrigin == TypeInv /\ Origin /\ [Next]_vars => Origin'
  <1> SUFFICES ASSUME TypeInv, Origin, [Next]_vars PROVE Origin'
    OBVIOUS
  <1> USE DEF TypeInv, TypeOK, Origin
  <1>1. CASE Send
    <2>1. next_msg \in Msgs /\ next_msg' = next_msg + 1
      BY <1>1, ChannelAssumption DEF Send, Msgs
    <2>2. \A m \in Msgs : phase'[m] # "unsent" \/ m \in tx_ring' => m < next_msg'
      BY <1>1, <2>1 DEF Send, Msgs
    <2>3. \A p \in data : p.msg \in Msgs
      BY DEF Packet
    <2>4. UNCHANGED <<data, proofs, rx_ring>>
      BY <1>1 DEF Send, netVars, recvVars
    <2>5. ASSUME NEW p \in data' PROVE p.msg < next_msg'
      <3>1. p \in data /\ p.msg < next_msg
        BY <2>4
      <3>2. QED
        BY <2>1, <2>3, <3>1, ChannelAssumption DEF Msgs
    <2>6. ASSUME NEW i \in 1 .. Len(rx_ring') PROVE rx_ring'[i] < next_msg'
      <3>1. rx_ring[i] \in Msgs /\ rx_ring[i] < next_msg
        BY <2>4
      <3>2. QED
        BY <2>1, <2>4, <3>1, ChannelAssumption DEF Msgs
    <2>7. QED
      BY <2>2, <2>4, <2>5, <2>6
  <1>2. ASSUME NEW m \in Msgs, Transmit(m) PROVE Origin'
    BY <1>2 DEF Transmit, recvVars
  <1>2a. ASSUME NEW m \in Msgs, TransmitUnsent(m) PROVE Origin'
    BY <1>2a DEF TransmitUnsent, netVars, recvVars
  <1>3. ASSUME NEW m \in Msgs, RaiseTooBig(m) PROVE Origin'
    BY <1>3 DEF RaiseTooBig, netVars, recvVars
  <1>4. ASSUME NEW m \in Msgs, Arm(m) PROVE Origin'
    BY <1>4 DEF Arm, netVars, recvVars
  <1>5. ASSUME NEW m \in Msgs, Expire(m) PROVE Origin'
    BY <1>5 DEF Expire, netVars, recvVars
  <1>6. ASSUME NEW m \in Msgs, Cull(m) PROVE Origin'
    BY <1>6 DEF Cull, netVars, recvVars
  <1>7. ASSUME NEW m \in Msgs, TimeoutSpurious(m) PROVE Origin'
    BY <1>7 DEF TimeoutSpurious, netVars, recvVars
  <1>8. ASSUME NEW m \in Msgs, TimeoutResend(m) PROVE Origin'
    BY <1>8 DEF TimeoutResend, recvVars
  <1>8a. ASSUME NEW m \in Msgs, TimeoutUnsent(m) PROVE Origin'
    BY <1>8a DEF TimeoutUnsent, netVars, recvVars
  <1>9. ASSUME NEW m \in Msgs, Rearm(m) PROVE Origin'
    BY <1>9 DEF Rearm, netVars, recvVars
  <1>10. ASSUME NEW m \in Msgs, TimeoutGiveUp(m) PROVE Origin'
    BY <1>10 DEF TimeoutGiveUp, netVars, recvVars
  <1>11. ASSUME NEW p \in proofs, ReceiveProof(p) PROVE Origin'
    BY <1>11 DEF ReceiveProof, netVars, recvVars
  <1>12. CASE LinkStale \/ LinkRevive \/ CloseSender
    BY <1>12 DEF LinkStale, LinkRevive, CloseSender, sendVars, netVars, recvVars
  <1>13. ASSUME NEW p \in data, ReceiveNew(p) PROVE Origin'
    <2>1. p.msg \in Msgs /\ p.msg < next_msg
      BY DEF Packet
    <2>2. \A i \in 1 .. Len(rx_ring') :
            rx_ring'[i] = p.msg \/ \E j \in 1 .. Len(rx_ring) : rx_ring'[i] = rx_ring[j]
      BY <1>13, <2>1, EmplacedElements DEF ReceiveNew
    <2>3. QED
      BY <1>13, <2>1, <2>2 DEF ReceiveNew, Prove, sendVars
  <1>14. ASSUME NEW p \in data,
                ReceiveInvalid(p) \/ ReceiveDuplicate(p) \/ ReceiveUnregistered(p)
         PROVE  Origin'
    BY <1>14
    DEF ReceiveInvalid, ReceiveDuplicate, ReceiveUnregistered, Prove, sendVars, recvVars
  <1>15. CASE Deliver
    <2>1. \A k \in 1 .. Len(rx_ring') : \E j \in 1 .. Len(rx_ring) : rx_ring'[k] = rx_ring[j]
      BY <1>15, DeliverElements
    <2>3. \A k \in 1 .. Len(rx_ring') : rx_ring'[k] < next_msg
      BY <2>1
    <2>4. QED
      BY <1>15, <2>3 DEF Deliver, sendVars, netVars
  <1>16. CASE CloseReceiver
    BY <1>16 DEF CloseReceiver, sendVars, netVars
  <1>17. CASE UNCHANGED vars
    BY <1>17 DEF vars, sendVars, recvVars, netVars
  <1>18. QED
    BY <1>1, <1>2, <1>2a, <1>3, <1>4, <1>5, <1>6, <1>7, <1>8, <1>8a, <1>9, <1>10, <1>11,
       <1>12, <1>13, <1>14, <1>15, <1>16, <1>17
    DEF Next, Sender, Receiver

\* A step of the sending end leaves the receiving end alone and forgets no
\* message and no proof.
LEMMA SenderFrame ==
  ASSUME TypeOK, Sender \/ UNCHANGED vars
  PROVE  /\ UNCHANGED recvVars /\ UNCHANGED proofs
         /\ status'["rx"] = status["rx"]
         /\ next_msg' = next_msg \/ next_msg' = next_msg + 1
  <1> USE DEF TypeOK, recvVars, netVars
  <1>1. CASE Send
    BY <1>1 DEF Send
  <1>2. ASSUME NEW m \in Msgs,
               \/ Transmit(m) \/ TransmitUnsent(m) \/ RaiseTooBig(m)
               \/ Arm(m) \/ Expire(m) \/ Cull(m)
        PROVE  UNCHANGED recvVars /\ UNCHANGED <<status, next_msg, proofs>>
    BY <1>2 DEF Transmit, TransmitUnsent, RaiseTooBig, Arm, Expire, Cull
  <1>3. ASSUME NEW m \in Msgs,
               TimeoutSpurious(m) \/ TimeoutResend(m) \/ TimeoutUnsent(m) \/ Rearm(m)
        PROVE  UNCHANGED recvVars /\ UNCHANGED <<status, next_msg, proofs>>
    BY <1>3 DEF TimeoutSpurious, TimeoutResend, TimeoutUnsent, Rearm
  <1>4. ASSUME NEW m \in Msgs, TimeoutGiveUp(m)
        PROVE  UNCHANGED recvVars /\ UNCHANGED <<next_msg, proofs>>
               /\ status'["rx"] = status["rx"]
    BY <1>4 DEF TimeoutGiveUp
  <1>5. ASSUME NEW p \in proofs, ReceiveProof(p)
        PROVE  UNCHANGED recvVars /\ UNCHANGED <<status, next_msg, proofs>>
    BY <1>5 DEF ReceiveProof
  <1>6. CASE LinkStale \/ LinkRevive \/ CloseSender
    BY <1>6 DEF LinkStale, LinkRevive, CloseSender, sendVars
  <1>7. CASE UNCHANGED vars
    BY <1>7 DEF vars, sendVars
  <1>8. QED
    BY <1>1, <1>2, <1>3, <1>4, <1>5, <1>6, <1>7 DEF Sender

\* Without a wrap, what the receiver collects continues what it has delivered.
LEMMA NextProgress ==
  NoWrap /\ TypeInv /\ Origin /\ Progress /\ [Next]_vars => Progress'
  <1> SUFFICES ASSUME NoWrap, TypeInv, Origin, Progress, [Next]_vars
               PROVE  Progress'
    OBVIOUS
  <1>1. TypeOK /\ TypeOK' /\ Origin'
    BY NextType, NextOrigin DEF TypeInv
  <1>2. CASE Sender \/ UNCHANGED vars
    <2>1. /\ UNCHANGED <<next_rx, delivering, delivered>>
          /\ status'["rx"] = status["rx"]
          /\ next_msg' = next_msg \/ next_msg' = next_msg + 1
      BY <1>1, <1>2, SenderFrame DEF recvVars
    <2>2. /\ next_msg \in Nat /\ next_msg <= next_msg'
          /\ Len(delivered) \in Nat /\ Len(delivering) \in Nat
      BY <1>1, <2>1, ChannelAssumption DEF TypeOK
    <2>3. Len(delivered) + Len(delivering) <= next_msg'
      BY <2>1, <2>2 DEF Progress
    <2>4. QED
      BY <2>1, <2>3 DEF Progress
  <1>3. ASSUME NEW p \in data, ReceiveNew(p) PROVE Progress'
    <2>1. /\ delivering = <<>> /\ status["rx"] = "ACTIVE"
          /\ UNCHANGED <<status, next_msg, delivered>>
      BY <1>3 DEF ReceiveNew, Prove, sendVars
    <2>2. next_rx = First + Len(delivered)
      BY <1>1, <2>1, ChannelAssumption DEF Progress, TypeOK
    <2>3. PICK pos \in Positions(rx_ring') :
            /\ delivering' = [k \in 1 .. Len(pos) |-> rx_ring'[pos[k]]]
            /\ \A k \in 1 .. Len(pos) : First + rx_ring'[pos[k]] = next_rx + k - 1
            /\ next_rx + Len(pos) < SEQ_MODULUS
      <3>1. rx_ring' \in Seq(Msgs) /\ next_rx \in 0 .. SEQ_MODULUS - 1
        BY <1>1 DEF TypeOK
      <3>2. Collected(rx_ring', delivering')
        BY <1>3 DEF ReceiveNew
      <3>3. QED
        BY <3>1, <3>2, CollectedNoWrap
    <2>4. pos \in Seq(1 .. Len(rx_ring')) /\ Len(pos) \in Nat
      BY <1>1, PositionsType DEF TypeOK
    <2>5. Len(delivering') = Len(pos)
      BY <2>3, <2>4
    <2>6. ASSUME NEW k \in 1 .. Len(pos)
          PROVE  /\ delivering'[k] = Len(delivered) + k - 1
                 /\ delivering'[k] < next_msg
      <3>1. pos[k] \in 1 .. Len(rx_ring') /\ delivering'[k] = rx_ring'[pos[k]]
        BY <2>3, <2>4
      <3>2. rx_ring' \in Seq(Msgs) /\ Len(delivered) \in Nat
        BY <1>1 DEF TypeOK
      <3>3. delivering'[k] \in Int
        <4>1. rx_ring'[pos[k]] \in Msgs
          BY <3>1, <3>2
        <4>2. QED
          BY <3>1, <4>1, ChannelAssumption DEF Msgs
      <3>4. delivering'[k] < next_msg
        BY <1>1, <2>1, <3>1 DEF Origin
      <3>5. First + delivering'[k] = First + Len(delivered) + k - 1
        BY <2>2, <2>3, <3>1
      <3>6. QED
        BY <3>2, <3>3, <3>4, <3>5, ChannelAssumption
    <2>7. Len(delivered') + Len(delivering') <= next_msg'
      <3>1. CASE Len(pos) = 0
        BY <2>1, <2>5, <3>1 DEF Progress
      <3>2. CASE Len(pos) # 0
        <4>1. Len(pos) \in 1 .. Len(pos)
          BY <2>4, <3>2
        <4>2. Len(delivered) + Len(pos) - 1 < next_msg
          BY <2>6, <4>1
        <4>3. QED
          BY <1>1, <2>1, <2>4, <2>5, <4>2 DEF TypeOK
      <3>3. QED
        BY <3>1, <3>2
    <2>8. next_rx' = First + Len(delivered') + Len(delivering')
      <3>1. next_rx' = (next_rx + Len(pos)) % SEQ_MODULUS
        BY <1>3, <2>5 DEF ReceiveNew
      <3>2. next_rx + Len(pos) \in 0 .. SEQ_MODULUS - 1
        BY <1>1, <2>3, <2>4, ChannelAssumption DEF TypeOK
      <3>3. QED
        BY <2>1, <2>2, <2>5, <3>1, <3>2, ChannelAssumption
    <2>9. QED
      BY <2>1, <2>5, <2>6, <2>7, <2>8 DEF Progress
  <1>4. ASSUME NEW p \in data,
               ReceiveInvalid(p) \/ ReceiveDuplicate(p) \/ ReceiveUnregistered(p)
        PROVE  Progress'
    BY <1>4 DEF ReceiveInvalid, ReceiveDuplicate, ReceiveUnregistered, Prove,
                sendVars, recvVars, Progress
  <1>5. CASE Deliver
    <2>1. /\ delivering # <<>> /\ delivering \in Seq(Msgs) /\ delivered \in Seq(Msgs)
          /\ delivered' = Append(delivered, Head(delivering))
          /\ delivering' = Tail(delivering)
          /\ UNCHANGED <<status, next_msg, next_rx>>
      BY <1>1, <1>5 DEF Deliver, sendVars, TypeOK
    <2>2. /\ Len(delivered') = Len(delivered) + 1
          /\ Len(delivering') = Len(delivering) - 1
          /\ Head(delivering) = delivering[1] /\ 1 \in 1 .. Len(delivering)
      BY <2>1
    <2>3. Head(delivering) = Len(delivered)
      BY <2>1, <2>2 DEF Progress
    <2>4. ASSUME NEW i \in 1 .. Len(delivered') PROVE delivered'[i] = i - 1
      BY <2>1, <2>2, <2>3 DEF Progress
    <2>5. ASSUME NEW k \in 1 .. Len(delivering')
          PROVE  delivering'[k] = Len(delivered') + k - 1
      <3>1. k + 1 \in 1 .. Len(delivering) /\ delivering'[k] = delivering[k + 1]
        BY <2>1, <2>2
      <3>2. delivering[k + 1] = Len(delivered) + (k + 1) - 1
        BY <3>1 DEF Progress
      <3>3. QED
        BY <2>1, <2>2, <3>1, <3>2
    <2>6. Len(delivered') + Len(delivering') = Len(delivered) + Len(delivering)
      BY <2>1, <2>2
    <2>7. status'["rx"] = "ACTIVE" => next_rx' = First + Len(delivered') + Len(delivering')
      BY <2>1, <2>2, ChannelAssumption DEF Progress
    <2>8. QED
      BY <2>1, <2>4, <2>5, <2>6, <2>7 DEF Progress
  <1>6. CASE CloseReceiver
    <2>1. /\ status'["rx"] = "CLOSED" /\ delivering' = <<>>
          /\ UNCHANGED <<next_msg, delivered>>
      BY <1>1, <1>6 DEF CloseReceiver, sendVars, TypeOK
    <2>2. Len(delivered) <= next_msg
      BY <1>1 DEF Progress, TypeOK
    <2>3. QED
      BY <1>1, <2>1, <2>2 DEF Progress, TypeOK
  <1>7. QED
    BY <1>2, <1>3, <1>4, <1>5, <1>6 DEF Next, Receiver

ReliableInv == TypeInv /\ Origin /\ Progress

\* Clear of a wrap, what is delivered is a beginning of what was sent.
LEMMA ReliableInvariant == ASSUME NoWrap PROVE Spec => []ReliableInv
  <1>1. Init => ReliableInv
    BY InitType, InitReliable DEF ReliableInv
  <1>2. ReliableInv /\ [Next]_vars => ReliableInv'
    BY NextType, NextOrigin, NextProgress DEF ReliableInv
  <1>3. QED
    BY <1>1, <1>2, PTL DEF Spec

\* The handlers get every message once and in the order it was sent, for any
\* number of messages, tries and copies in the network, clear of a wrap.
THEOREM DeliveryInOrder == ASSUME NoWrap PROVE Spec => []InOrderExactlyOnce
  <1>1. ReliableInv => InOrderExactlyOnce
    BY DEF ReliableInv, TypeInv, TypeOK, Progress, InOrderExactlyOnce
  <1>2. QED
    BY <1>1, ReliableInvariant, PTL

-----------------------------------------------------------------------------
(***************************************************************************)
(* The receiver's ring, and what a proof vouches for.                      *)
(***************************************************************************)

\* A sequence of numbers in strictly increasing order.
Increasing(s) == \A i, j \in 1 .. Len(s) : i < j => s[i] < s[j]

\* Inserting an element where it belongs keeps a sequence increasing.
LEMMA InsertAtIncreasing ==
  ASSUME NEW s \in Seq(Msgs), Increasing(s), NEW e \in Msgs, NEW i \in 1 .. Len(s),
         NEW t, t = InsertAt(s, i, e),
         \A j \in 1 .. Len(s) : IF j < i THEN s[j] < e ELSE e < s[j]
  PROVE  Increasing(t)
  <1>1. /\ t \in Seq(Msgs) /\ Len(t) = Len(s) + 1
        /\ \A j \in 1 .. Len(s) + 1 :
             t[j] = IF j < i THEN s[j] ELSE IF j = i THEN e ELSE s[j - 1]
    BY InsertAtFacts
  <1>2. ASSUME NEW j \in 1 .. Len(t), NEW k \in 1 .. Len(t), j < k
        PROVE  t[j] < t[k]
    <2>1. CASE k < i
      <3>1. /\ j \in 1 .. Len(s) /\ k \in 1 .. Len(s)
            /\ t[j] = s[j] /\ t[k] = s[k]
        BY <1>1, <1>2, <2>1
      <3>2. QED
        BY <1>2, <3>1 DEF Increasing
    <2>2. CASE k = i
      BY <1>1, <1>2, <2>2
    <2>3. CASE j = i
      <3>1. k - 1 \in 1 .. Len(s) /\ ~(k - 1 < i) /\ t[j] = e /\ t[k] = s[k - 1]
        BY <1>1, <1>2, <2>3
      <3>2. QED
        BY <3>1
    <2>4. CASE j < i /\ i < k
      <3>1. /\ j \in 1 .. Len(s) /\ k - 1 \in 1 .. Len(s) /\ j < k - 1
            /\ t[j] = s[j] /\ t[k] = s[k - 1]
        BY <1>1, <2>4
      <3>2. QED
        BY <3>1 DEF Increasing
    <2>5. CASE i < j
      <3>1. /\ j - 1 \in 1 .. Len(s) /\ k - 1 \in 1 .. Len(s) /\ j - 1 < k - 1
            /\ t[j] = s[j - 1] /\ t[k] = s[k - 1]
        BY <1>1, <1>2, <2>5
      <3>2. QED
        BY <3>1 DEF Increasing
    <2>6. QED
      BY <1>2, <2>1, <2>2, <2>3, <2>4, <2>5
  <1>3. QED
    BY <1>2 DEF Increasing

\* Clear of a wrap, the receiver refuses just the numbers it is done with.
LEMMA IsInvalidNoWrap ==
  ASSUME NoWrap, NEW m \in Msgs, next_rx \in Nat, next_rx <= First + MaxSend
  PROVE  IsInvalid(Number(m)) <=> First + m < next_rx
  <1>1. Number(m) = First + m
    BY NumberNoWrap, ChannelAssumption DEF Msgs
  <1>2. (next_rx + WINDOW_MAX) % SEQ_MODULUS = next_rx + WINDOW_MAX
    BY ChannelAssumption DEF NoWrap
  <1>3. QED
    BY <1>1, <1>2, ChannelAssumption DEF IsInvalid, Msgs

\* Clear of a wrap, the search for the place of a message that is not refused
\* stops at every message that is not before it.
LEMMA StopsNoWrap ==
  ASSUME NoWrap, rx_ring \in Seq(Msgs), next_rx \in Nat,
         NEW m \in Msgs, ~(First + m < next_rx)
  PROVE  \A i \in 1 .. Len(rx_ring) : i \in Stops(Number(m)) <=> m <= rx_ring[i]
  <1> SUFFICES ASSUME NEW i \in 1 .. Len(rx_ring)
               PROVE  i \in Stops(Number(m)) <=> m <= rx_ring[i]
    OBVIOUS
  <1>1. rx_ring[i] \in Msgs
    OBVIOUS
  <1>2. /\ Number(m) = First + m /\ Number(rx_ring[i]) = First + rx_ring[i]
        /\ First + m \in Nat /\ rx_ring[i] \in Nat /\ m \in Nat
    BY <1>1, NumberNoWrap, ChannelAssumption DEF Msgs
  <1>3. ~(next_rx - (First + m) > (SEQ_MODULUS - 1) \div 2)
    <2>1. (SEQ_MODULUS - 1) \div 2 >= 0
      BY ChannelAssumption
    <2>2. QED
      BY <1>2, <2>1, ChannelAssumption
  <1>4. QED
    BY <1>2, <1>3, ChannelAssumption DEF Stops

\* Putting a new message in an ordered ring leaves it ordered.
LEMMA EmplacedIncreasing ==
  ASSUME NoWrap, rx_ring \in Seq(Msgs), Increasing(rx_ring), next_rx \in Nat,
         NEW m \in Msgs, ~(First + m < next_rx), ~IsDuplicate(Number(m)),
         NEW ring, Emplaced(m, ring)
  PROVE  Increasing(ring)
  <1>1. \A i \in 1 .. Len(rx_ring) : i \in Stops(Number(m)) <=> m <= rx_ring[i]
    BY StopsNoWrap
  <1>2. \A i \in 1 .. Len(rx_ring) : rx_ring[i] \in Msgs
    OBVIOUS
  <1>3. \A n \in Msgs : n \in Nat
    BY ChannelAssumption DEF Msgs
  <1>4. CASE Stops(Number(m)) = {}
    <2>1. ring = Append(rx_ring, m)
      BY <1>4 DEF Emplaced
    <2>2. \A i \in 1 .. Len(rx_ring) : rx_ring[i] < m
      BY <1>1, <1>2, <1>3, <1>4
    <2>3. /\ Len(ring) = Len(rx_ring) + 1 /\ ring[Len(rx_ring) + 1] = m
          /\ \A i \in 1 .. Len(rx_ring) : ring[i] = rx_ring[i]
      BY <2>1
    <2>4. QED
      BY <2>2, <2>3 DEF Increasing
  <1>5. CASE Stops(Number(m)) # {}
    <2>1. PICK i \in Stops(Number(m)) :
            IsFirst(i, Stops(Number(m))) /\ ring = InsertAt(rx_ring, i, m)
      BY <1>5 DEF Emplaced
    <2>2. i \in 1 .. Len(rx_ring)
      BY <2>1 DEF Stops
    <2>3. m < rx_ring[i]
      <3>1. Number(rx_ring[i]) # Number(m)
        BY <2>1 DEF IsDuplicate
      <3>2. m <= rx_ring[i] /\ rx_ring[i] # m
        BY <1>1, <2>1, <2>2, <3>1
      <3>3. QED
        BY <1>2, <1>3, <2>2, <3>2
    <2>4. ASSUME NEW j \in 1 .. Len(rx_ring)
          PROVE  IF j < i THEN rx_ring[j] < m ELSE m < rx_ring[j]
      <3>1. rx_ring[j] \in Nat /\ rx_ring[i] \in Nat /\ m \in Nat
        BY <1>2, <1>3, <2>2
      <3>2. CASE j < i
        <4>1. j \notin Stops(Number(m))
          BY <2>1, <2>2, <3>2 DEF IsFirst
        <4>2. ~(m <= rx_ring[j])
          BY <1>1, <4>1
        <4>3. QED
          BY <3>1, <3>2, <4>2
      <3>3. CASE j = i
        BY <2>3, <3>3
      <3>4. CASE i < j
        <4>1. rx_ring[i] < rx_ring[j]
          BY <2>2, <3>4 DEF Increasing
        <4>2. QED
          BY <2>2, <2>3, <3>1, <3>4, <4>1
      <3>5. QED
        BY <2>2, <3>2, <3>3, <3>4
    <2>5. QED
      BY <2>1, <2>2, <2>4, InsertAtIncreasing
  <1>6. QED
    BY <1>4, <1>5

\* The ring is ordered, and the number expected next is not in it.
RingOrdered ==
  /\ Increasing(rx_ring)
  /\ \A i \in 1 .. Len(rx_ring) : First + rx_ring[i] # next_rx

\* What the receiver has proved it holds or has handed over, and only what it
\* has proved does the sender take for delivered.
Vouched ==
  /\ status["rx"] = "ACTIVE" =>
       \A p \in proofs : \/ p.msg < Len(delivered)
                         \/ \E i \in 1 .. Len(rx_ring) : rx_ring[i] = p.msg
  /\ \A m \in Msgs : receipt[m] = "DELIVERED" => \E p \in proofs : p.msg = m

\* The empty ring is ordered, and nothing is vouched for.
LEMMA InitRing == Init => RingOrdered /\ Vouched
  BY DEF Init, RingOrdered, Increasing, Vouched

\* Without a wrap, where the next expected number stands in a state the
\* invariants hold in.
LEMMA ExpectedNoWrap ==
  ASSUME NoWrap, TypeOK, Progress, status["rx"] = "ACTIVE", delivering = <<>>
  PROVE  /\ next_rx = First + Len(delivered) /\ next_rx \in Nat
         /\ next_rx <= First + MaxSend
  <1>1. next_rx = First + Len(delivered) /\ Len(delivered) <= next_msg
    BY ChannelAssumption DEF Progress, TypeOK
  <1>2. next_msg \in 0 .. MaxSend /\ Len(delivered) \in Nat
    BY DEF TypeOK
  <1>3. QED
    BY <1>1, <1>2, ChannelAssumption

\* The loop over the ring leaves no deliverable message behind.
LEMMA NextRing ==
  NoWrap /\ ReliableInv /\ RingOrdered /\ [Next]_vars => RingOrdered'
  <1> SUFFICES ASSUME NoWrap, ReliableInv, RingOrdered, [Next]_vars
               PROVE  RingOrdered'
    OBVIOUS
  <1>1. TypeOK /\ TypeOK' /\ Progress
    BY NextType DEF ReliableInv, TypeInv
  <1>2. CASE Sender \/ UNCHANGED vars
    BY <1>1, <1>2, SenderFrame DEF recvVars, RingOrdered, Increasing
  <1>3. ASSUME NEW p \in data, ReceiveNew(p) PROVE RingOrdered'
    <2>1. p.msg \in Msgs /\ rx_ring \in Seq(Msgs) /\ rx_ring' \in Seq(Msgs)
      BY <1>1 DEF TypeOK, Packet
    <2>2. /\ next_rx \in Nat /\ next_rx <= First + MaxSend
          /\ next_rx \in 0 .. SEQ_MODULUS - 1
      BY <1>1, <1>3, ExpectedNoWrap DEF ReceiveNew, Prove, TypeOK
    <2>3. ~(First + p.msg < next_rx)
      BY <1>3, <2>1, <2>2, IsInvalidNoWrap DEF ReceiveNew
    <2>4. /\ ~IsDuplicate(Number(p.msg)) /\ Emplaced(p.msg, rx_ring')
          /\ Increasing(rx_ring) /\ Collected(rx_ring', delivering')
          /\ next_rx' = (next_rx + Len(delivering')) % SEQ_MODULUS
      BY <1>3 DEF ReceiveNew, RingOrdered
    <2>5. Increasing(rx_ring')
      BY <2>1, <2>2, <2>3, <2>4, EmplacedIncreasing
    <2>6. PICK pos \in Positions(rx_ring') :
            /\ IsPass(pos, rx_ring', 0, next_rx)
            /\ delivering' = [k \in 1 .. Len(pos) |-> rx_ring'[pos[k]]]
            /\ \A k \in 1 .. Len(pos) : First + rx_ring'[pos[k]] = next_rx + k - 1
            /\ next_rx + Len(pos) < SEQ_MODULUS
      BY <2>1, <2>2, <2>4, CollectedNoWrap
    <2>7. pos \in Seq(1 .. Len(rx_ring')) /\ Len(pos) \in Nat
      BY <2>1, PositionsType
    <2>8. next_rx' = next_rx + Len(pos)
      <3>1. Len(delivering') = Len(pos)
        BY <2>6, <2>7
      <3>2. next_rx + Len(pos) \in 0 .. SEQ_MODULUS - 1
        BY <2>2, <2>6, <2>7, ChannelAssumption
      <3>3. QED
        BY <2>4, <3>1, <3>2, ChannelAssumption
    <2>9. ASSUME NEW i \in 1 .. Len(rx_ring'), First + rx_ring'[i] = next_rx'
          PROVE  FALSE
      <3>1. rx_ring'[i] \in Msgs /\ rx_ring'[i] \in 0 .. MaxSend
        BY <2>1, ChannelAssumption DEF Msgs
      <3>2. Number(rx_ring'[i]) = next_rx + Len(pos)
        BY <2>8, <2>9, <3>1, NumberNoWrap
      <3>3. i <= IF pos = <<>> THEN 0 ELSE pos[Len(pos)]
        BY <2>6, <3>2 DEF IsPass
      <3>4. pos # <<>> /\ i <= pos[Len(pos)]
        BY <3>3
      <3>5. Len(pos) \in 1 .. Len(pos) /\ pos[Len(pos)] \in 1 .. Len(rx_ring')
        BY <2>7, <3>4
      <3>6. First + rx_ring'[pos[Len(pos)]] = next_rx + Len(pos) - 1
        BY <2>6, <3>5
      <3>7. i = pos[Len(pos)] \/ rx_ring'[i] < rx_ring'[pos[Len(pos)]]
        BY <2>5, <3>4, <3>5 DEF Increasing
      <3>8. rx_ring'[pos[Len(pos)]] \in 0 .. MaxSend
        BY <2>1, <3>5, ChannelAssumption DEF Msgs
      <3>9. QED
        BY <2>2, <2>7, <2>8, <2>9, <3>1, <3>6, <3>7, <3>8, ChannelAssumption
    <2>10. QED
      BY <2>5, <2>9 DEF RingOrdered
  <1>4. ASSUME NEW p \in data,
               ReceiveInvalid(p) \/ ReceiveDuplicate(p) \/ ReceiveUnregistered(p)
        PROVE  RingOrdered'
    BY <1>4 DEF ReceiveInvalid, ReceiveDuplicate, ReceiveUnregistered, recvVars,
                RingOrdered, Increasing
  <1>5. CASE Deliver
    <2>1. rx_ring \in Seq(Msgs) /\ next_rx' = next_rx
      BY <1>1, <1>5 DEF TypeOK, Deliver
    <2>2. PICK r \in 1 .. Len(rx_ring) : rx_ring' = RemoveAt(rx_ring, r)
      BY <1>5 DEF Deliver
    <2>3. /\ rx_ring' \in Seq(Msgs) /\ Len(rx_ring') = Len(rx_ring) - 1
          /\ \A k \in 1 .. Len(rx_ring) - 1 :
               rx_ring'[k] = IF k < r THEN rx_ring[k] ELSE rx_ring[k + 1]
      BY <2>1, <2>2, RemoveAtFacts
    <2>4. ASSUME NEW i \in 1 .. Len(rx_ring'), NEW j \in 1 .. Len(rx_ring'), i < j
          PROVE  rx_ring'[i] < rx_ring'[j]
      <3>1. PICK a \in {i, i + 1} : /\ rx_ring'[i] = rx_ring[a]
                                    /\ IF i < r THEN a = i ELSE a = i + 1
        BY <2>1, <2>3
      <3>2. PICK b \in {j, j + 1} : /\ rx_ring'[j] = rx_ring[b]
                                    /\ IF j < r THEN b = j ELSE b = j + 1
        BY <2>1, <2>3
      <3>3. a \in 1 .. Len(rx_ring) /\ b \in 1 .. Len(rx_ring) /\ a < b
        BY <2>1, <2>2, <2>3, <2>4, <3>1, <3>2
      <3>4. QED
        BY <3>1, <3>2, <3>3 DEF RingOrdered, Increasing
    <2>5. ASSUME NEW i \in 1 .. Len(rx_ring') PROVE First + rx_ring'[i] # next_rx'
      <3>1. PICK j \in 1 .. Len(rx_ring) : rx_ring'[i] = rx_ring[j]
        BY <1>5, <2>1, DeliverElements
      <3>2. QED
        BY <2>1, <3>1 DEF RingOrdered
    <2>6. QED
      BY <2>4, <2>5 DEF RingOrdered, Increasing
  <1>6. CASE CloseReceiver
    BY <1>6 DEF CloseReceiver, RingOrdered, Increasing
  <1>7. QED
    BY <1>2, <1>3, <1>4, <1>5, <1>6 DEF Next, Receiver

\* No step of the sender makes it take a message for delivered without a proof.
LEMMA SenderVouched ==
  ASSUME TypeOK, Vouched, Sender \/ UNCHANGED vars
  PROVE  \A m \in Msgs : receipt'[m] = "DELIVERED" => \E p \in proofs : p.msg = m
  <1> SUFFICES ASSUME NEW m \in Msgs, receipt'[m] = "DELIVERED"
               PROVE  \E p \in proofs : p.msg = m
    OBVIOUS
  <1> USE DEF TypeOK
  <1>1. CASE receipt'[m] = receipt[m]
    BY <1>1 DEF Vouched
  <1>2. CASE \E p \in proofs : ReceiveProof(p) /\ p.msg = m
    BY <1>2
  <1>3. ASSUME Send \/ LinkStale \/ LinkRevive \/ CloseSender \/ UNCHANGED vars
        PROVE  receipt'[m] = receipt[m]
    BY <1>3 DEF Send, LinkStale, LinkRevive, CloseSender, vars, sendVars
  <1>4. ASSUME NEW n \in Msgs,
               \/ Transmit(n) \/ TransmitUnsent(n) \/ Expire(n) \/ Cull(n)
               \/ TimeoutResend(n) \/ TimeoutUnsent(n)
        PROVE  receipt'[m] = receipt[m]
    BY <1>4 DEF Transmit, TransmitUnsent, Expire, Cull, TimeoutResend, TimeoutUnsent
  <1>5. ASSUME NEW n \in Msgs,
               \/ RaiseTooBig(n) \/ Arm(n) \/ TimeoutSpurious(n) \/ Rearm(n)
               \/ TimeoutGiveUp(n)
        PROVE  receipt'[m] = receipt[m]
    BY <1>5 DEF RaiseTooBig, Arm, TimeoutSpurious, Rearm, TimeoutGiveUp
  <1>6. ASSUME NEW p \in proofs, ReceiveProof(p), p.msg # m
        PROVE  receipt'[m] = receipt[m]
    BY <1>6 DEF ReceiveProof
  <1>7. QED
    BY <1>1, <1>2, <1>3, <1>4, <1>5, <1>6 DEF Sender

\* What is proved is put in the ring, is in it already or has been delivered.
LEMMA NextVouched ==
  NoWrap /\ Unregistered = {} /\ ReliableInv /\ Vouched /\ [Next]_vars
    => Vouched'
  <1> SUFFICES ASSUME NoWrap, Unregistered = {}, ReliableInv, Vouched,
                      [Next]_vars
               PROVE  Vouched'
    OBVIOUS
  <1>1. TypeOK /\ TypeOK' /\ Progress /\ Progress'
    BY NextType, NextOrigin, NextProgress DEF ReliableInv, TypeInv
  <1>2. CASE Sender \/ UNCHANGED vars
    BY <1>1, <1>2, SenderFrame, SenderVouched DEF recvVars, Vouched
  <1>3. ASSUME NEW p \in data, Prove(p), UNCHANGED delivered,
               \/ p.msg < Len(delivered)
               \/ \E i \in 1 .. Len(rx_ring') : rx_ring'[i] = p.msg,
               \A j \in 1 .. Len(rx_ring) :
                 \E i \in 1 .. Len(rx_ring') : rx_ring'[i] = rx_ring[j]
        PROVE  Vouched'
    <2>1. /\ status["rx"] = "ACTIVE" /\ proofs' = proofs \union {p}
          /\ UNCHANGED <<receipt, delivered>>
      BY <1>3 DEF Prove, sendVars
    <2>2. ASSUME NEW q \in proofs'
          PROVE  \/ q.msg < Len(delivered')
                 \/ \E i \in 1 .. Len(rx_ring') : rx_ring'[i] = q.msg
      <3>1. CASE q = p
        BY <1>3, <2>1, <3>1
      <3>2. CASE q \in proofs
        <4>1. q.msg < Len(delivered) \/ \E j \in 1 .. Len(rx_ring) : rx_ring[j] = q.msg
          BY <2>1, <3>2 DEF Vouched
        <4>2. QED
          BY <1>3, <2>1, <4>1
      <3>3. QED
        BY <2>1, <3>1, <3>2
    <2>3. \A m \in Msgs : receipt'[m] = "DELIVERED" => \E q \in proofs' : q.msg = m
      BY <2>1 DEF Vouched
    <2>4. QED
      BY <2>2, <2>3 DEF Vouched
  <1>4. ASSUME NEW p \in data, Prove(p)
        PROVE  /\ p.msg \in Msgs /\ rx_ring \in Seq(Msgs) /\ rx_ring' \in Seq(Msgs)
               /\ next_rx = First + Len(delivered) /\ next_rx \in Nat
               /\ next_rx <= First + MaxSend
    BY <1>1, <1>4, ExpectedNoWrap DEF Prove, TypeOK, Packet
  <1>5. ASSUME NEW p \in data, ReceiveNew(p) PROVE Vouched'
    <2>1. Prove(p) /\ Emplaced(p.msg, rx_ring') /\ UNCHANGED delivered
      BY <1>5 DEF ReceiveNew
    <2>2. /\ \E i \in 1 .. Len(rx_ring') : rx_ring'[i] = p.msg
          /\ \A j \in 1 .. Len(rx_ring) :
               \E i \in 1 .. Len(rx_ring') : rx_ring'[i] = rx_ring[j]
      <3>1. p.msg \in Msgs /\ rx_ring \in Seq(Msgs)
        BY <1>4, <2>1
      <3>2. \E i \in 1 .. Len(rx_ring') : rx_ring'[i] = p.msg
        BY <2>1, <3>1, EmplacedElements
      <3>3. \A j \in 1 .. Len(rx_ring) :
              \E i \in 1 .. Len(rx_ring') : rx_ring'[i] = rx_ring[j]
        BY <2>1, <3>1, EmplacedElements
      <3>4. QED
        BY <3>2, <3>3
    <2>3. QED
      BY <1>3, <2>1, <2>2
  <1>6. ASSUME NEW p \in data, ReceiveInvalid(p) PROVE Vouched'
    <2>1. Prove(p) /\ IsInvalid(Number(p.msg)) /\ UNCHANGED <<rx_ring, delivered>>
      BY <1>6 DEF ReceiveInvalid, recvVars
    <2>2. First + p.msg < First + Len(delivered)
      BY <1>4, <2>1, IsInvalidNoWrap
    <2>3. p.msg < Len(delivered)
      BY <1>1, <1>4, <2>1, <2>2, ChannelAssumption DEF Msgs, TypeOK
    <2>4. QED
      BY <1>3, <2>1, <2>3
  <1>7. ASSUME NEW p \in data, ReceiveDuplicate(p) PROVE Vouched'
    <2>1. Prove(p) /\ IsDuplicate(Number(p.msg)) /\ UNCHANGED <<rx_ring, delivered>>
      BY <1>7 DEF ReceiveDuplicate, recvVars
    <2>2. PICK i \in 1 .. Len(rx_ring) : Number(rx_ring[i]) = Number(p.msg)
      BY <2>1 DEF IsDuplicate, Stops
    <2>3. p.msg \in 0 .. MaxSend /\ rx_ring[i] \in 0 .. MaxSend
      BY <1>4, <2>1, ChannelAssumption DEF Msgs
    <2>4. rx_ring[i] = p.msg
      BY <2>2, <2>3, NumberNoWrap, ChannelAssumption
    <2>5. QED
      BY <1>3, <2>1, <2>4
  <1>8. CASE Deliver
    <2>1. /\ delivering # <<>> /\ delivering \in Seq(Msgs) /\ delivered \in Seq(Msgs)
          /\ delivered' = Append(delivered, Head(delivering))
          /\ UNCHANGED <<status, receipt, proofs>>
      BY <1>1, <1>8 DEF Deliver, sendVars, netVars, TypeOK
    <2>2. Head(delivering) = Len(delivered) /\ Len(delivered') = Len(delivered) + 1
      <3>1. Head(delivering) = delivering[1] /\ 1 \in 1 .. Len(delivering)
        BY <2>1
      <3>2. QED
        BY <1>1, <2>1, <3>1 DEF Progress
    <2>3. \A j \in 1 .. Len(rx_ring) :
            \/ rx_ring[j] = Len(delivered)
            \/ \E k \in 1 .. Len(rx_ring') : rx_ring'[k] = rx_ring[j]
      BY <1>1, <1>8, <2>2, DeliverElements DEF TypeOK
    <2>4. ASSUME status["rx"] = "ACTIVE", NEW q \in proofs
          PROVE  \/ q.msg < Len(delivered')
                 \/ \E i \in 1 .. Len(rx_ring') : rx_ring'[i] = q.msg
      <3>1. q.msg < Len(delivered) \/ \E j \in 1 .. Len(rx_ring) : rx_ring[j] = q.msg
        BY <2>4 DEF Vouched
      <3>2. q.msg \in Nat
        BY <1>1, ChannelAssumption DEF TypeOK, Packet, Msgs
      <3>3. CASE q.msg < Len(delivered)
        BY <2>1, <2>2, <3>2, <3>3
      <3>4. CASE \E j \in 1 .. Len(rx_ring) : rx_ring[j] = q.msg
        BY <2>1, <2>2, <2>3, <3>2, <3>4
      <3>5. QED
        BY <3>1, <3>3, <3>4
    <2>5. QED
      BY <2>1, <2>4 DEF Vouched
  <1>9. CASE CloseReceiver
    <2>1. status'["rx"] = "CLOSED" /\ UNCHANGED <<receipt, proofs>>
      BY <1>1, <1>9 DEF CloseReceiver, sendVars, netVars, TypeOK
    <2>2. QED
      BY <2>1 DEF Vouched
  <1>10. QED
    BY <1>2, <1>5, <1>6, <1>7, <1>8, <1>9
    DEF Next, Receiver, ReceiveUnregistered

\* Once a packet has been handled, the message the receiver waits for is not in
\* its ring: the loop over the ring never stops short of a deliverable message.
THEOREM NothingHeldBack == ASSUME NoWrap PROVE Spec => []NothingDeliverableHeld
  <1>1. Init => RingOrdered
    BY InitRing
  <1>2. ReliableInv /\ RingOrdered /\ [Next]_vars => RingOrdered'
    BY NextRing
  <1>3. ReliableInv /\ RingOrdered => NothingDeliverableHeld
    <2> SUFFICES ASSUME ReliableInv, RingOrdered, NEW m \in ToSet(rx_ring)
                 PROVE  Number(m) # next_rx
      BY DEF NothingDeliverableHeld
    <2>1. rx_ring \in Seq(Msgs)
      BY DEF ReliableInv, TypeInv, TypeOK
    <2>2. PICK i \in 1 .. Len(rx_ring) : m = rx_ring[i]
      BY <2>1 DEF ToSet
    <2>3. m \in 0 .. MaxSend
      BY <2>1, <2>2, ChannelAssumption DEF Msgs
    <2>4. QED
      BY <2>2, <2>3, NumberNoWrap DEF RingOrdered
  <1>4. QED
    BY <1>1, <1>2, <1>3, ReliableInvariant, PTL DEF Spec

\* The sender takes a message for delivered only if the receiver has handed it
\* over or holds it, provided every type sent is registered at the receiver.
THEOREM ProofsVouch ==
  ASSUME NoWrap, Unregistered = {} PROVE Spec => []ProvedIsHeld
  <1>1. Init => Vouched
    BY InitRing
  <1>2. ReliableInv /\ Vouched /\ [Next]_vars => Vouched'
    BY NextVouched
  <1>3. ReliableInv /\ Vouched => ProvedIsHeld
    <2> SUFFICES ASSUME ReliableInv, Vouched, status["rx"] = "ACTIVE",
                        NEW m \in Msgs, receipt[m] = "DELIVERED"
                 PROVE  m \in ToSet(rx_ring) \union ToSet(delivered)
      BY DEF ProvedIsHeld
    <2>1. rx_ring \in Seq(Msgs) /\ delivered \in Seq(Msgs)
      BY DEF ReliableInv, TypeInv, TypeOK
    <2>2. PICK p \in proofs : p.msg = m
      BY DEF Vouched
    <2>3. CASE m < Len(delivered)
      <3>1. m + 1 \in 1 .. Len(delivered) /\ (m + 1) - 1 = m
        BY <2>1, <2>3, ChannelAssumption DEF Msgs
      <3>2. delivered[m + 1] = m
        BY <3>1 DEF ReliableInv, Progress
      <3>3. QED
        BY <2>1, <3>1, <3>2 DEF ToSet
    <2>4. CASE \E i \in 1 .. Len(rx_ring) : rx_ring[i] = m
      BY <2>1, <2>4 DEF ToSet
    <2>5. QED
      BY <2>2, <2>3, <2>4 DEF Vouched
  <1>4. QED
    BY <1>1, <1>2, <1>3, ReliableInvariant, PTL DEF Spec

-----------------------------------------------------------------------------
(***************************************************************************)
(* The channel implements the reliable FIFO.                               *)
(***************************************************************************)

\* Every step of the channel is one of the abstract FIFO or leaves it alone.
LEMMA NextFifo ==
  ReliableInv /\ [Next]_vars => [Fifo!Next]_(Fifo!vars)
  <1> SUFFICES ASSUME ReliableInv, [Next]_vars PROVE [Fifo!Next]_(Fifo!vars)
    OBVIOUS
  <1> USE DEF Fifo!Next, Fifo!vars, Fifo!Accept, Fifo!Deliver, Fifo!Close
  <1>1. TypeOK /\ Progress
    BY DEF ReliableInv, TypeInv
  <1>2. CASE UNCHANGED <<next_msg, delivered, status>>
    BY <1>2
  <1>3. CASE Send
    BY <1>3 DEF Send, recvVars
  <1>4. ASSUME UNCHANGED <<next_msg, delivered>>, status'["tx"] = "CLOSED" \/ status'["rx"] = "CLOSED"
        PROVE  [Fifo!Next]_(Fifo!vars)
    BY <1>4
  <1>5. ASSUME NEW m \in Msgs, TimeoutGiveUp(m) PROVE [Fifo!Next]_(Fifo!vars)
    BY <1>1, <1>4, <1>5 DEF TimeoutGiveUp, recvVars, TypeOK
  <1>6. CASE CloseSender
    BY <1>1, <1>4, <1>6 DEF CloseSender, recvVars, TypeOK
  <1>7. CASE CloseReceiver
    BY <1>1, <1>4, <1>7 DEF CloseReceiver, sendVars, TypeOK
  <1>8. CASE Deliver
    <2>1. /\ delivering # <<>> /\ delivering \in Seq(Msgs) /\ delivered \in Seq(Msgs)
          /\ delivered' = Append(delivered, Head(delivering))
          /\ UNCHANGED <<status, next_msg>>
      BY <1>1, <1>8 DEF Deliver, sendVars, TypeOK
    <2>2. Head(delivering) = delivering[1] /\ 1 \in 1 .. Len(delivering)
      BY <2>1
    <2>3. Head(delivering) = Len(delivered)
      BY <1>1, <2>1, <2>2 DEF Progress
    <2>4. Len(delivered) < next_msg
      BY <1>1, <2>1, <2>2 DEF Progress, TypeOK
    <2>5. QED
      BY <2>1, <2>3, <2>4
  <1>9. ASSUME NEW m \in Msgs,
               \/ Transmit(m) \/ TransmitUnsent(m) \/ RaiseTooBig(m)
               \/ Arm(m) \/ Expire(m) \/ Cull(m)
               \/ TimeoutSpurious(m) \/ TimeoutResend(m) \/ TimeoutUnsent(m) \/ Rearm(m)
        PROVE  UNCHANGED <<next_msg, delivered, status>>
    BY <1>9 DEF Transmit, TransmitUnsent, RaiseTooBig, Arm, Expire, Cull, TimeoutSpurious,
                TimeoutResend, TimeoutUnsent, Rearm, recvVars
  <1>10. ASSUME NEW p \in proofs, ReceiveProof(p)
         PROVE  UNCHANGED <<next_msg, delivered, status>>
    BY <1>10 DEF ReceiveProof, recvVars
  <1>11. ASSUME NEW p \in data,
                \/ ReceiveNew(p) \/ ReceiveInvalid(p) \/ ReceiveDuplicate(p)
                \/ ReceiveUnregistered(p)
         PROVE  UNCHANGED <<next_msg, delivered, status>>
    BY <1>11 DEF ReceiveNew, ReceiveInvalid, ReceiveDuplicate, ReceiveUnregistered,
                 Prove, sendVars, recvVars
  <1>12. CASE UNCHANGED vars
    BY <1>2, <1>12 DEF vars, sendVars, recvVars
  <1>13. CASE LinkStale \/ LinkRevive
    <2>1. UNCHANGED <<next_msg, delivered>>
      BY <1>13 DEF LinkStale, LinkRevive, sendVars, recvVars
    <2>2. status["tx"] # "CLOSED" /\ status'["tx"] # "CLOSED"
      BY <1>1, <1>13 DEF LinkStale, LinkRevive, TypeOK
    <2>3. status'["rx"] = status["rx"]
      BY <1>1, <1>13 DEF LinkStale, LinkRevive, TypeOK
    <2>4. QED
      BY <2>1, <2>2, <2>3
  <1>14. QED
    BY <1>2, <1>3, <1>5, <1>6, <1>7, <1>8, <1>9, <1>10, <1>11, <1>12, <1>13
    DEF Next, Sender, Receiver

\* Clear of a wrap every behaviour of the channel, with its retries, duplicates
\* and its reordering network, is one of the documented reliable FIFO.
THEOREM ImplementsReliableFifo == ASSUME NoWrap PROVE Spec => ReliableDelivery
  <1>1. Init => Fifo!Init
    BY DEF Init, Fifo!Init
  <1>2. ReliableInv /\ [Next]_vars => [Fifo!Next]_(Fifo!vars)
    BY NextFifo
  <1>3. QED
    BY <1>1, <1>2, ReliableInvariant, PTL DEF Spec, ReliableDelivery, Fifo!Spec

-----------------------------------------------------------------------------
(***************************************************************************)
(* Retries are pending.                                                    *)
(***************************************************************************)

\* A receipt that will be looked at again, or has been answered.
Alive(m) == receipt[m] \in {"SENT", "DELIVERED"}

\* While the link is up, each envelope of the ring that was transmitted has such a
\* receipt, or its timeout callback runs, or no interface took its packet; before the
\* callbacks are set there is no callback that could run, so that the receipt must not
\* have timed out.  Its packet was packed, so that get_packet_id() never raises and
\* no timeout callback ends in an exception on its way to another envelope.
RetryInv ==
  /\ status["tx"] # "STALE"
  /\ status["tx"] = "ACTIVE" =>
       \A m \in tx_ring :
         /\ phase[m] \in {"sent", "resent"} => Alive(m) \/ receipt[m] = "unsent"
         /\ phase[m] = "armed" => Alive(m) \/ receipt[m] = "unsent" \/ m \in timer
         /\ phase[m] \in {"sent", "armed"} => receipt[m] # "none"

\* Each step but for those of the three faults keeps a retry pending.
LEMMA NextRetry ==
  ASSUME Faults \cap {"PREEMPT", "CULL", "STALE"} = {}, TypeInv, RetryInv, [Next]_vars
  PROVE  RetryInv'
<1> USE DEF Alive
<1>1. /\ "PREEMPT" \notin Faults /\ "CULL" \notin Faults /\ "STALE" \notin Faults
      /\ status["tx"] \in {"ACTIVE", "CLOSED"}
  BY DEF TypeInv, TypeOK, RetryInv
<1>2. /\ phase \in [Msgs -> Phase] /\ receipt \in [Msgs -> Receipt] /\ tx_ring \subseteq Msgs
      /\ status \in [{"tx", "rx"} -> {"ACTIVE", "STALE", "CLOSED"}]
  BY DEF TypeInv, TypeOK
<1>3. ASSUME status'["tx"] = status["tx"], UNCHANGED <<phase, receipt, timer, tx_ring>>
      PROVE  RetryInv'
  BY <1>3 DEF RetryInv
<1>4. CASE Receiver \/ UNCHANGED vars
  <2>1. UNCHANGED <<phase, receipt, timer, tx_ring>>
    BY <1>4 DEF Receiver, ReceiveNew, ReceiveInvalid, ReceiveDuplicate, ReceiveUnregistered, Prove,
                Deliver, CloseReceiver, vars, sendVars
  <2>2. status'["tx"] = status["tx"]
    BY <1>2, <1>4 DEF Receiver, ReceiveNew, ReceiveInvalid, ReceiveDuplicate, ReceiveUnregistered, Prove,
                      Deliver, CloseReceiver, vars
  <2>3. QED
    BY <1>3, <2>1, <2>2
<1>5. CASE Send
  <2>1. /\ UNCHANGED <<status, receipt, timer>> /\ phase' = [phase EXCEPT ![next_msg] = "queued"]
        /\ tx_ring' \subseteq tx_ring \cup {next_msg}
    BY <1>5 DEF Send
  <2>2. next_msg \in Msgs
    BY <1>5, ChannelAssumption DEF Send, TypeInv, TypeOK, Msgs
  <2>3. QED
    BY <1>2, <2>1, <2>2 DEF RetryInv
<1>6. ASSUME NEW m \in Msgs, Transmit(m) PROVE RetryInv'
  BY <1>1, <1>2, <1>6 DEF Transmit, RetryInv
<1>6a. ASSUME NEW m \in Msgs, TransmitUnsent(m) PROVE RetryInv'
  BY <1>1, <1>2, <1>6a DEF TransmitUnsent, RetryInv
<1>7. ASSUME NEW m \in Msgs, RaiseTooBig(m) \/ Arm(m) \/ Rearm(m) PROVE RetryInv'
  BY <1>2, <1>7 DEF RaiseTooBig, Arm, Rearm, RetryInv
<1>8. ASSUME NEW m \in Msgs, Expire(m) PROVE RetryInv'
  BY <1>1, <1>2, <1>8 DEF Expire, RetryInv
<1>9. ASSUME NEW m \in Msgs, TimeoutSpurious(m) PROVE RetryInv'
  <2>1. status["tx"] = "ACTIVE" => ~Unfound(m)
    BY DEF RetryInv, Unfound
  <2>2. QED
    BY <1>2, <1>9, <2>1 DEF TimeoutSpurious, RetryInv
<1>9a. ASSUME NEW m \in Msgs, TimeoutResend(m) \/ TimeoutUnsent(m) PROVE RetryInv'
  BY <1>2, <1>9a DEF TimeoutResend, TimeoutUnsent, RetryInv
<1>10. ASSUME NEW m \in Msgs, TimeoutGiveUp(m) PROVE RetryInv'
  BY <1>2, <1>10 DEF TimeoutGiveUp, RetryInv
<1>11. ASSUME NEW p \in proofs, ReceiveProof(p) PROVE RetryInv'
  <2>1. p.msg \in Msgs
    BY DEF TypeInv, TypeOK, Packet
  <2>2. /\ receipt' = [receipt EXCEPT ![p.msg] = "DELIVERED"] /\ tx_ring' \subseteq tx_ring
        /\ UNCHANGED <<status, phase, timer>>
    BY <1>11 DEF ReceiveProof
  <2>3. QED
    BY <1>2, <2>1, <2>2 DEF RetryInv
<1>12. CASE CloseSender
  BY <1>2, <1>12 DEF CloseSender, RetryInv
<1>13. QED
  <2>1. ~LinkStale /\ ~LinkRevive /\ \A m \in Msgs : ~Cull(m)
    BY <1>1 DEF LinkStale, LinkRevive, Cull
  <2>2. QED
    BY <1>4, <1>5, <1>6, <1>6a, <1>7, <1>8, <1>9, <1>9a, <1>10, <1>11, <1>12, <2>1
    DEF Next, Sender

\* Whatever is still to be delivered will be tried again, while the link is up, if the
\* sweep over the receipts neither culls one nor comes before the callbacks are set, and
\* the link is not stale when send() is called.  A packet that no interface took is the
\* only one left alone (RetryPending), and costs no other envelope its retry.
THEOREM RetriesArePending ==
  ASSUME Faults \cap {"PREEMPT", "CULL", "STALE"} = {} PROVE Spec => []RetryPending
<1>1. Init => RetryInv
  BY DEF Init, RetryInv
<1>2. TypeInv /\ RetryInv /\ [Next]_vars => RetryInv'
  BY NextRetry
<1>3. RetryInv => RetryPending
  BY DEF RetryInv, RetryPending, Alive
<1>4. QED
  BY <1>1, <1>2, <1>3, TypeInvariant, PTL DEF Spec
=============================================================================
