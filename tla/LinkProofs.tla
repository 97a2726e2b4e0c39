----------------------------- MODULE LinkProofs -----------------------------
(***************************************************************************)
(* Theorems about Link: its type invariant, that the destination's end     *)
(* opens after the initiator's whatever the mishaps, and, as long as no    *)
(* thread is interrupted between looking at the status and setting it,     *)
(* that a closed link stays closed, that open ends can be reached and that *)
(* an end blames a teardown only on a peer that is closed.                 *)
(***************************************************************************)
EXTENDS Link, SequenceTheorems, TLAPS

\* The elements of a sequence after one more was appended to it.
LEMMA ToSetAppend ==
  ASSUME NEW S, NEW s \in Seq(S), NEW x \in S
  PROVE  ToSet(Append(s, x)) = ToSet(s) \union {x}
  <1>1. /\ Append(s, x) \in Seq(S)
        /\ Len(Append(s, x)) = Len(s) + 1
        /\ Append(s, x)[Len(s) + 1] = x
        /\ \A i \in 1 .. Len(s) : Append(s, x)[i] = s[i]
    OBVIOUS
  <1>2. ASSUME NEW y \in ToSet(Append(s, x)) PROVE y \in ToSet(s) \union {x}
    <2>1. PICK i \in 1 .. Len(s) + 1 : y = Append(s, x)[i]
      BY <1>1, <1>2 DEF ToSet
    <2>2. QED
      BY <1>1, <2>1 DEF ToSet
  <1>3. ASSUME NEW y \in ToSet(s) \union {x} PROVE y \in ToSet(Append(s, x))
    <2>1. CASE y = x
      BY <1>1, <2>1 DEF ToSet
    <2>2. CASE y \in ToSet(s)
      BY <1>1, <2>2 DEF ToSet
    <2>3. QED
      BY <1>3, <2>1, <2>2
  <1>4. QED
    BY <1>2, <1>3

-----------------------------------------------------------------------------
(***************************************************************************)
(* Types.                                                                  *)
(***************************************************************************)

\* Every packet an action sends is one of Message.
LEMMA MessageTypes ==
  /\ [type |-> "LINKREQUEST"] \in Message /\ [type |-> "LRRTT"] \in Message
  /\ Proof \subseteq Message
  /\ \A e \in Ends : /\ ClosePacket(e) \in Message
                     /\ [type |-> "DATA", from |-> e] \in Message
  BY DEF Message, Proof, ClosePacket

\* A call to the application is recorded behind the earlier ones.
LEMMA CallType ==
  ASSUME callbacks \in [Ends -> Seq({"established", "closed"})], NEW e \in Ends,
         NEW what \in {"established", "closed"}, Call(e, what)
  PROVE  /\ callbacks' \in [Ends -> Seq({"established", "closed"})]
         /\ callbacks'[e] = Append(callbacks[e], what)
         /\ \A f \in Ends \ {e} : callbacks'[f] = callbacks[f]
  <1> DEFINE C == {"established", "closed"}
  <1> HIDE DEF C
  <1>1. callbacks \in [Ends -> Seq(C)] /\ what \in C
    BY DEF C
  <1>2. Append(callbacks[e], what) \in Seq(C)
    BY <1>1, AppendProperties
  <1>3. callbacks' = [callbacks EXCEPT ![e] = Append(callbacks[e], what)]
    BY DEF Call
  <1>4. callbacks' \in [Ends -> Seq(C)]
    BY <1>1, <1>2, <1>3
  <1>5. QED
    BY <1>1, <1>3, <1>4 DEF C

\* A step of the establishment keeps the types.
LEMMA EstablishType == ASSUME TypeOK, Establish PROVE TypeOK'
  <1> USE DEF TypeOK, Ends, Status, Reason
  <1>1. CASE Open
    BY <1>1, MessageTypes DEF Open
  <1>2. CASE ReceiveRequest
    BY <1>2, MessageTypes DEF ReceiveRequest
  <1>3. ASSUME NEW proof \in Proof, ProofIgnored(proof) PROVE TypeOK'
    BY <1>3 DEF ProofIgnored
  <1>4. ASSUME NEW proof \in Proof, ProofBadMode(proof) PROVE TypeOK'
    BY <1>4 DEF ProofBadMode
  <1>5. ASSUME NEW proof \in Proof, ProofHandshake(proof) PROVE TypeOK'
    BY <1>5 DEF ProofHandshake
  <1>6. CASE ProofCheck
    BY <1>6 DEF ProofCheck
  <1>7. CASE ProofRaise
    BY <1>7 DEF ProofRaise
  <1>8. CASE ProofActivate
    <2>1. PICK works \in Cipher("init") :
            /\ status' = [status EXCEPT !["init"] = IF works THEN "ACTIVE" ELSE "CLOSED"]
            /\ net' = IF works THEN net \union {[type |-> "LRRTT"]} ELSE net
            /\ starting' = (starting \/ works)
      BY <1>8 DEF ProofActivate
    <2>2. works \in BOOLEAN
      BY DEF Cipher
    <2>3. status' \in [Ends -> Status] /\ starting' \in BOOLEAN
      BY <2>1, <2>2
    <2>4. net' \in SUBSET Message
      BY <2>1, MessageTypes
    <2>5. table' \in [Ends -> {"none", "pending", "active"}]
      BY <1>8 DEF ProofActivate
    <2>6. QED
      BY <1>8, <2>3, <2>4, <2>5 DEF ProofActivate
  <1>9. CASE RunEstablished
    <2>1. callbacks' \in [Ends -> Seq({"established", "closed"})]
      BY <1>9, CallType DEF RunEstablished
    <2>2. QED
      BY <1>9, <2>1 DEF RunEstablished
  <1>10. CASE RttCheck
    BY <1>10 DEF RttCheck
  <1>11. CASE RttActivate
    <2>1. CASE Call("dest", "established") /\ status' = [status EXCEPT !["dest"] = "ACTIVE"]
      <3>1. callbacks' \in [Ends -> Seq({"established", "closed"})]
        BY <2>1, CallType
      <3>2. QED
        BY <1>11, <2>1, <3>1 DEF RttActivate
    <2>2. CASE UNCHANGED <<status, callbacks>>
      BY <1>11, <2>2 DEF RttActivate
    <2>3. QED
      BY <1>11, <2>1, <2>2 DEF RttActivate
  <1>12. QED
    BY <1>1, <1>2, <1>3, <1>4, <1>5, <1>6, <1>7, <1>8, <1>9, <1>10, <1>11
    DEF Establish

\* So does every step of an established link.
LEMMA OperateType == ASSUME TypeOK, NEW e \in Ends, Operate(e) PROVE TypeOK'
  <1> USE DEF TypeOK
  <1>1. /\ Peer[e] \in Ends
        /\ OwnReason[e] \in Reason /\ OwnReason[Peer[e]] \in Reason
        /\ "TIMEOUT" \in Reason /\ "CLOSED" \in Status
    BY DEF Ends, Peer, OwnReason, Reason, Status
  <1>2. ASSUME NEW why \in Reason, Close(e, why), torn' \in SUBSET Ends,
               net' \in SUBSET Message,
               parting' \in [Ends -> SUBSET {"teardown", "stale"}]
        PROVE  TypeOK'
    BY <1>1, <1>2 DEF Close
  <1>3. CASE SendData(e)
    BY <1>3, MessageTypes DEF SendData
  <1>4. CASE ReceiveData(e)
    BY <1>4 DEF ReceiveData, Status
  <1>4a. CASE Revive(e)
    BY <1>4a DEF Revive, Status
  <1>5. CASE Teardown(e)
    <2>1. net' \in SUBSET Message
      BY <1>5, MessageTypes DEF Teardown, SendClose
    <2>2. QED
      BY <1>5, <2>1 DEF Teardown
  <1>5a. CASE TeardownClose(e)
    BY <1>1, <1>2, <1>5a DEF TeardownClose
  <1>6. CASE ReceiveClose(e)
    <2>1. net' \in SUBSET Message /\ torn' \in SUBSET Ends /\ UNCHANGED parting
      BY <1>6 DEF ReceiveClose
    <2>2. CASE Close(e, OwnReason[Peer[e]])
      BY <1>1, <1>2, <2>1, <2>2
    <2>3. CASE UNCHANGED <<status, reason, closing, keys, table, step, starting, callbacks>>
      BY <2>1, <2>3
    <2>4. QED
      BY <1>6, <2>2, <2>3 DEF ReceiveClose
  <1>7. CASE LinkClosed(e)
    <2>1. callbacks' \in [Ends -> Seq({"established", "closed"})]
      BY <1>7, CallType DEF LinkClosed
    <2>2. closing[e] - 1 \in Nat
      BY <1>7 DEF LinkClosed
    <2>3. closing' \in [Ends -> Nat]
      BY <1>7, <2>2 DEF LinkClosed
    <2>4. QED
      BY <1>7, <2>1, <2>3 DEF LinkClosed
  <1>8. CASE WatchdogTimeout(e)
    BY <1>1, <1>2, <1>8 DEF WatchdogTimeout
  <1>9. CASE WatchdogStale(e)
    BY <1>9 DEF WatchdogStale, Status
  <1>10. CASE WatchdogClose(e)
    BY <1>10, MessageTypes DEF WatchdogClose
  <1>10a. CASE WatchdogEnd(e)
    BY <1>1, <1>2, <1>10a DEF WatchdogEnd
  <1>11. CASE Sweep(e)
    BY <1>11 DEF Sweep
  <1>12. QED
    BY <1>3, <1>4, <1>4a, <1>5, <1>5a, <1>6, <1>7, <1>8, <1>9, <1>10, <1>10a, <1>11
    DEF Operate

\* Every variable of the link keeps its type, whatever the mishaps: the
\* threads on their way to link_closed() are never fewer than none.
THEOREM LinkTypeCorrect == Spec => []TypeOK
  <1>1. ASSUME Init PROVE TypeOK
    <2>1. <<>> \in Seq({"established", "closed"})
      OBVIOUS
    <2>2. callbacks \in [Ends -> Seq({"established", "closed"})]
      BY <1>1, <2>1 DEF Init
    <2>3. QED
      BY <1>1, <2>2 DEF Init, TypeOK, Status, Reason
  <1>2. TypeOK /\ [Next]_vars => TypeOK'
    <2> SUFFICES ASSUME TypeOK, [Next]_vars PROVE TypeOK'
      OBVIOUS
    <2>1. CASE Establish
      BY <2>1, EstablishType
    <2>2. CASE \E e \in Ends : Operate(e)
      BY <2>2, OperateType
    <2>3. CASE UNCHANGED vars
      BY <2>3 DEF vars, TypeOK
    <2>4. QED
      BY <2>1, <2>2, <2>3 DEF Next
  <1>3. QED
    BY <1>1, <1>2, PTL DEF Spec

-----------------------------------------------------------------------------
(***************************************************************************)
(* The destination opens after the initiator.                              *)
(***************************************************************************)

\* The application of the initiator knows, or is about to.
Told == starting \/ "established" \in ToSet(callbacks["init"])

\* The destination has, or may come to have, heard from an open initiator.
Heard ==
  \/ [type |-> "LRRTT"] \in net
  \/ step["dest"] \in {"checked", "reviving"}
  \/ status["dest"] \in {"ACTIVE", "STALE"}

\* What the application was told is not taken back.
LEMMA ToldForGood == ASSUME TypeOK, Told, [Next]_vars PROVE Told'
  <1> DEFINE C == {"established", "closed"}
  <1>1. "init" \in Ends /\ callbacks \in [Ends -> Seq(C)]
    BY DEF TypeOK, Ends
  <1>2. ASSUME NEW e \in Ends, NEW what \in C, Call(e, what)
        PROVE  "established" \in ToSet(callbacks["init"])
                 => "established" \in ToSet(callbacks'["init"])
    <2>1. CASE e = "init"
      <3>1. callbacks'["init"] = Append(callbacks["init"], what)
        BY <1>1, <1>2, <2>1, CallType
      <3>2. ToSet(callbacks'["init"]) = ToSet(callbacks["init"]) \union {what}
        BY <1>1, <3>1, ToSetAppend
      <3>3. QED
        BY <3>2
    <2>2. CASE e # "init"
      BY <1>1, <1>2, <2>2, CallType
    <2>3. QED
      BY <2>1, <2>2
  <1>3. CASE RunEstablished
    <2>1. callbacks'["init"] = Append(callbacks["init"], "established")
      BY <1>1, <1>3, CallType DEF RunEstablished
    <2>2. "established" \in ToSet(callbacks'["init"])
      BY <1>1, <2>1, ToSetAppend
    <2>3. QED
      BY <2>2 DEF Told
  <1>4. CASE ProofActivate
    BY <1>4 DEF ProofActivate, Told
  <1>5. CASE RttActivate
    <2>1. CASE Call("dest", "established")
      BY <1>2, <1>5, <2>1 DEF RttActivate, Told, Ends
    <2>2. CASE UNCHANGED callbacks
      BY <1>5, <2>2 DEF RttActivate, Told
    <2>3. QED
      BY <1>5, <2>1, <2>2 DEF RttActivate
  <1>6. ASSUME NEW e \in Ends, LinkClosed(e) PROVE Told'
    BY <1>2, <1>6 DEF LinkClosed, Told
  <1>7. CASE UNCHANGED <<starting, callbacks>>
    BY <1>7 DEF Told
  <1>8. ASSUME Establish, ~RunEstablished, ~ProofActivate, ~RttActivate
        PROVE  UNCHANGED <<starting, callbacks>>
    BY <1>8 DEF Establish, Open, ReceiveRequest, ProofIgnored, ProofBadMode,
                ProofHandshake, ProofCheck, ProofRaise, RttCheck
  <1>9. ASSUME NEW e \in Ends, Operate(e), ~LinkClosed(e)
        PROVE  UNCHANGED <<starting, callbacks>>
    BY <1>9 DEF Operate, SendData, ReceiveData, Revive, Teardown,
         SendClose, TeardownClose, ReceiveClose, Close,
                WatchdogTimeout, WatchdogStale, WatchdogClose, WatchdogEnd, Sweep
  <1>10. QED
    BY <1>3, <1>4, <1>5, <1>6, <1>7, <1>8, <1>9 DEF Next, vars

\* Only the step that starts the initiator's callback sends word to the
\* destination: every other step that opens it follows from that word.
LEMMA HeardFromOpen == ASSUME TypeOK, Heard => Told, [Next]_vars, Heard' PROVE Told'
  <1>1. CASE Heard
    BY <1>1, ToldForGood
  <1>2. CASE ~Heard
    <2> USE DEF TypeOK, Ends, Heard
    <2>1. ~Establish \/ ProofActivate
      BY <1>2 DEF Establish, Open, ReceiveRequest, Proof, ProofIgnored, ProofBadMode,
           ProofHandshake, ProofCheck, ProofRaise, RunEstablished, RttCheck, RttActivate
    <2>2. ASSUME NEW e \in Ends PROVE ~Operate(e)
      BY <1>2, <2>2 DEF Operate, SendData, ReceiveData, Revive, Teardown,
         SendClose, TeardownClose, ReceiveClose, Close,
           ClosePacket, LinkClosed, WatchdogTimeout, WatchdogStale, WatchdogClose, WatchdogEnd, Sweep
    <2>3. ~UNCHANGED vars
      BY <1>2 DEF vars
    <2>4. ProofActivate
      BY <2>1, <2>2, <2>3 DEF Next
    <2>5. starting'
      BY <1>2, <2>4 DEF ProofActivate, Cipher
    <2>6. QED
      BY <2>5 DEF Told
  <1>3. QED
    BY <1>1, <1>2

\* The destination opens only once the initiator's application was told, or is
\* about to be, that the link is established, whatever the mishaps.
THEOREM LinkOpensAfterInitiator == Spec => []OpensAfterInitiator
  <1>1. Init => (Heard => Told)
    BY DEF Init, Heard, Ends
  <1>2. TypeOK /\ (Heard => Told) /\ [Next]_vars => (Heard => Told)'
    BY HeardFromOpen
  <1>3. (Heard => Told) => OpensAfterInitiator
    BY DEF Heard, Told, OpensAfterInitiator
  <1>4. QED
    BY <1>1, <1>2, <1>3, LinkTypeCorrect, PTL DEF Spec

-----------------------------------------------------------------------------
(***************************************************************************)
(* No thread interrupted between looking at the status and setting it.     *)
(***************************************************************************)

\* What such a thread has seen is still so when it sets the status.
CheckHolds ==
  /\ step["init"] = "checked" => status["init"] = "HANDSHAKE"
  /\ step["dest"] = "checked" => Listens("dest")
  /\ \A e \in Ends : step[e] = "reviving" => status[e] = "STALE"

\* The lists of Transport follow the status of the links in them.
Listed ==
  /\ status["init"] \in {"PENDING", "HANDSHAKE"} => table["init"] = "pending"
  /\ status["dest"] = "HANDSHAKE" => table["dest"] = "active"
  /\ ReachableWhileOpen

\* A thread of the end has closed it, or has sent the teardown packet and is about to.
Leaving(e) == status[e] = "CLOSED" \/ parting[e] # {}

\* A teardown packet comes from an end that is closed or about to be, and so do the
\* reasons it gives.
Vouched ==
  /\ \A e \in Ends : ClosePacket(e) \in net => Leaving(e)
  /\ BlameIsTrue

LinkInv == TypeOK /\ CheckHolds /\ Listed /\ Vouched

\* What the other lemmas need to know of the constants.
LEMMA EndFacts ==
  /\ Ends = {"init", "dest"}
  /\ \A e \in Ends :
       /\ Peer[e] \in Ends /\ Peer[e] # e /\ Peer[Peer[e]] = e
       /\ OwnReason[e] # OwnReason[Peer[e]]
       /\ OwnReason[e] \notin {"NONE", "TIMEOUT"}
  BY DEF Ends, Peer, OwnReason

\* The checks still hold when a step is made.
LEMMA CheckStep ==
  ASSUME "PREEMPT" \notin Faults, LinkInv, [Next]_vars
  PROVE  CheckHolds'
  <1> USE DEF LinkInv, TypeOK, Ends, CheckHolds, Listed, Listens, Quiet
  <1>1. CASE Establish
    BY <1>1 DEF Establish, Open, ReceiveRequest, ProofIgnored, ProofBadMode,
         ProofHandshake, ProofCheck, ProofRaise, ProofActivate, RunEstablished,
         RttCheck, RttActivate
  <1>2. ASSUME NEW e \in Ends, Operate(e) PROVE CheckHolds'
    BY <1>2 DEF Operate, SendData, ReceiveData, Revive, Teardown,
         SendClose, TeardownClose, ReceiveClose, Close,
         LinkClosed, WatchdogTimeout, WatchdogStale, WatchdogClose, WatchdogEnd, Sweep
  <1>3. CASE UNCHANGED vars
    BY <1>3 DEF vars
  <1>4. QED
    BY <1>1, <1>2, <1>3 DEF Next

\* No step reopens a closed end.
LEMMA ClosedStep ==
  ASSUME "PREEMPT" \notin Faults, LinkInv, [Next]_vars,
         NEW e \in Ends, status[e] = "CLOSED"
  PROVE  status'[e] = "CLOSED"
  <1> USE DEF LinkInv, TypeOK, Ends, CheckHolds, Listens, Quiet
  <1>1. CASE Establish
    BY <1>1 DEF Establish, Open, ReceiveRequest, ProofIgnored, ProofBadMode, IsExpected,
         ProofHandshake, ProofCheck, ProofRaise, ProofActivate, RunEstablished,
         RttCheck, RttActivate
  <1>2. ASSUME NEW f \in Ends, Operate(f) PROVE status'[e] = "CLOSED"
    BY <1>2 DEF Operate, SendData, ReceiveData, Revive, Teardown,
         SendClose, TeardownClose, ReceiveClose, Close,
         LinkClosed, WatchdogTimeout, WatchdogStale, WatchdogClose, WatchdogEnd, Sweep
  <1>3. CASE UNCHANGED vars
    BY <1>3 DEF vars
  <1>4. QED
    BY <1>1, <1>2, <1>3 DEF Next

\* The lists still follow the status.
LEMMA ListedStep ==
  ASSUME "PREEMPT" \notin Faults, LinkInv, [Next]_vars
  PROVE  Listed'
  <1> USE DEF LinkInv, TypeOK, Ends, CheckHolds, Listed, ReachableWhileOpen, Listens, Quiet
  <1>1. CASE Establish
    BY <1>1 DEF Establish, Open, ReceiveRequest, ProofIgnored, ProofBadMode, IsExpected,
         ProofHandshake, ProofCheck, ProofRaise, ProofActivate, RunEstablished,
         RttCheck, RttActivate
  <1>2. ASSUME NEW f \in Ends, Operate(f) PROVE Listed'
    BY <1>2 DEF Operate, SendData, ReceiveData, Revive, Teardown,
         SendClose, TeardownClose, ReceiveClose, Close,
         LinkClosed, WatchdogTimeout, WatchdogStale, WatchdogClose, WatchdogEnd, Sweep
  <1>3. CASE UNCHANGED vars
    BY <1>3 DEF vars
  <1>4. QED
    BY <1>1, <1>2, <1>3 DEF Next

\* A call that has sent the teardown packet is not over before the end is closed.
LEMMA LeavingStep ==
  ASSUME "PREEMPT" \notin Faults, LinkInv, [Next]_vars, NEW e \in Ends, Leaving(e)
  PROVE  Leaving(e)'
  <1> USE DEF LinkInv, TypeOK, Leaving
  <1>1. CASE status[e] = "CLOSED"
    BY <1>1, ClosedStep
  <1>2. CASE parting'[e] = parting[e]
    BY <1>1, <1>2
  <1>3. CASE Establish
    BY <1>2, <1>3 DEF Establish, Open, ReceiveRequest, ProofIgnored, ProofBadMode,
         ProofHandshake, ProofCheck, ProofRaise, ProofActivate, RunEstablished,
         RttCheck, RttActivate
  <1>4. ASSUME NEW f \in Ends, TeardownClose(f) \/ WatchdogEnd(f) PROVE Leaving(e)'
    BY <1>2, <1>4 DEF TeardownClose, WatchdogEnd, Close
  <1>5. ASSUME NEW f \in Ends, Operate(f), ~TeardownClose(f), ~WatchdogEnd(f)
        PROVE  Leaving(e)'
    BY <1>2, <1>5 DEF Operate, SendData, ReceiveData, Revive, Teardown, ReceiveClose,
         LinkClosed, WatchdogTimeout, WatchdogStale, WatchdogClose, Sweep
  <1>6. CASE UNCHANGED vars
    BY <1>2, <1>6 DEF vars
  <1>7. QED
    BY <1>3, <1>4, <1>5, <1>6 DEF Next

\* Only an end that is about to close sends a teardown packet.
LEMMA VouchedStep ==
  ASSUME "PREEMPT" \notin Faults, LinkInv, [Next]_vars
  PROVE  Vouched'
  <1> USE DEF LinkInv, Vouched
  <1>1. \A e \in Ends : Leaving(e) => Leaving(e)'
    BY LeavingStep
  <1>2. CASE UNCHANGED reason /\ \A e \in Ends : ClosePacket(e) \in net' => ClosePacket(e) \in net
    <2>1. BlameIsTrue'
      BY <1>1, <1>2, EndFacts DEF BlameIsTrue, Leaving
    <2>2. QED
      BY <1>1, <1>2, <2>1 DEF ClosePacket
  <1>3. ASSUME Establish
        PROVE  UNCHANGED reason /\ \A e \in Ends : ClosePacket(e) \in net' => ClosePacket(e) \in net
    BY <1>3 DEF Establish, Open, ReceiveRequest, ProofIgnored, ProofBadMode, Proof,
         ProofHandshake, ProofCheck, ProofRaise, ProofActivate, RunEstablished,
         RttCheck, RttActivate, ClosePacket
  <1>4. ASSUME NEW f \in Ends, Operate(f) PROVE Vouched'
    <2>1. ASSUME NEW why \in Reason, Close(f, why), net' \subseteq net,
                 why = OwnReason[Peer[f]] => Leaving(Peer[f])
          PROVE  Vouched'
      <3>1. /\ reason'[f] = why
            /\ \A e \in Ends \ {f} : reason'[e] = reason[e]
        BY <2>1 DEF Close, TypeOK
      <3>2. \A e \in Ends : ClosePacket(e) \in net' => Leaving(e)'
        BY <1>1, <2>1 DEF ClosePacket
      <3>3. BlameIsTrue'
        BY <1>1, <2>1, <3>1, EndFacts DEF BlameIsTrue, Leaving
      <3>4. QED
        BY <3>2, <3>3 DEF ClosePacket
    <2>2. ASSUME UNCHANGED reason, net' \subseteq net \union {ClosePacket(f)},
                 ClosePacket(f) \in net' => ClosePacket(f) \in net \/ Leaving(f)'
          PROVE  Vouched'
      <3>1. \A e \in Ends : ClosePacket(e) \in net' => Leaving(e)'
        BY <1>1, <2>2 DEF ClosePacket
      <3>2. BlameIsTrue'
        BY <1>1, <2>2, EndFacts DEF BlameIsTrue, Leaving
      <3>3. QED
        BY <3>1, <3>2 DEF ClosePacket
    <2>3. CASE Teardown(f)
      BY <2>2, <2>3 DEF Teardown, SendClose, Leaving, TypeOK
    <2>4. CASE WatchdogClose(f)
      BY <2>2, <2>4 DEF WatchdogClose, Leaving, TypeOK
    <2>5. CASE TeardownClose(f)
      BY <2>1, <2>5, EndFacts DEF TeardownClose, OwnReason, Reason
    <2>6. CASE WatchdogTimeout(f) \/ WatchdogEnd(f)
      BY <2>1, <2>6, EndFacts DEF WatchdogTimeout, WatchdogEnd, Reason
    <2>7. CASE ReceiveClose(f)
      <3>1. CASE Close(f, OwnReason[Peer[f]])
        <4>1. OwnReason[Peer[f]] \in Reason
          BY EndFacts DEF OwnReason, Reason
        <4>2. Leaving(Peer[f])
          BY <2>7, EndFacts DEF ReceiveClose
        <4>3. net' \subseteq net
          BY <2>7 DEF ReceiveClose
        <4>4. QED
          BY <2>1, <3>1, <4>1, <4>2, <4>3
      <3>2. CASE UNCHANGED reason
        BY <1>2, <2>7, <3>2 DEF ReceiveClose
      <3>3. QED
        BY <2>7, <3>1, <3>2 DEF ReceiveClose
    <2>8. CASE \/ SendData(f) \/ ReceiveData(f) \/ Revive(f)
               \/ LinkClosed(f) \/ WatchdogStale(f) \/ Sweep(f)
      BY <1>2, <2>8 DEF SendData, ReceiveData, Revive, LinkClosed, WatchdogStale, Sweep, ClosePacket
    <2>9. QED
      BY <1>4, <2>3, <2>4, <2>5, <2>6, <2>7, <2>8 DEF Operate
  <1>5. CASE UNCHANGED vars
    BY <1>2, <1>5 DEF vars
  <1>6. QED
    BY <1>2, <1>3, <1>4, <1>5 DEF Next

\* The strengthening that the theorems below rest on.
LEMMA LinkInvariant == ASSUME "PREEMPT" \notin Faults PROVE Spec => []LinkInv
  <1>1. Init => CheckHolds /\ Listed /\ Vouched
    BY EndFacts DEF Init, CheckHolds, Listed, ReachableWhileOpen, Vouched, BlameIsTrue
  <1>2. TypeOK /\ TypeOK' /\ LinkInv /\ [Next]_vars => LinkInv'
    BY CheckStep, ListedStep, VouchedStep DEF LinkInv
  <1>3. QED
    BY <1>1, <1>2, LinkTypeCorrect, PTL DEF Spec, LinkInv

\* A closed link stays closed: a proof or a round-trip time that arrives late
\* does not bring it back, unless a thread is preempted after its check.
THEOREM LinkClosedForGood == ASSUME "PREEMPT" \notin Faults PROVE Spec => ClosedForGood
  <1>1. LinkInv /\ [Next]_vars
          => [\A e \in Ends : status[e] = "CLOSED" => status'[e] = "CLOSED"]_vars
    BY ClosedStep
  <1>2. QED
    BY <1>1, LinkInvariant, PTL DEF Spec, ClosedForGood

\* An open end is among the links that Transport delivers packets to.
THEOREM LinkReachableWhileOpen ==
  ASSUME "PREEMPT" \notin Faults PROVE Spec => []ReachableWhileOpen
  <1>1. LinkInv => ReachableWhileOpen
    BY DEF LinkInv, Listed
  <1>2. QED
    BY <1>1, LinkInvariant, PTL

\* An end that blames the teardown on its peer is right: that end is closed, or has sent
\* the packet and is about to close.
THEOREM LinkBlameIsTrue == ASSUME "PREEMPT" \notin Faults PROVE Spec => []BlameIsTrue
  <1>1. LinkInv => BlameIsTrue
    BY DEF LinkInv, Vouched
  <1>2. QED
    BY <1>1, LinkInvariant, PTL

-----------------------------------------------------------------------------
(***************************************************************************)
(* Closed links are reported.                                              *)
(***************************************************************************)

\* A link closed for a reason was reported and has given up its keys, or a thread is
\* on its way to link_closed(); and only the initiator closes without a reason.
ReportPending ==
  \A e \in Ends :
    /\ reason[e] # "NONE" => closing[e] > 0 \/ ("closed" \in ToSet(callbacks[e]) /\ ~keys[e])
    /\ status[e] = "CLOSED" /\ reason[e] = "NONE" => e = "init"

\* An end that does not exist has none, and one that closed without a reason did so
\* while its proof was handled.
Unreasoned == \A e \in Ends : status[e] = "NONE" => reason[e] = "NONE"

\* What the application was told of the end of the link is not taken back.
LEMMA ClosedToldForGood ==
  ASSUME TypeOK, [Next]_vars, NEW e \in Ends, "closed" \in ToSet(callbacks[e])
  PROVE  "closed" \in ToSet(callbacks'[e])
  <1> DEFINE C == {"established", "closed"}
  <1>1. callbacks \in [Ends -> Seq(C)]
    BY DEF TypeOK
  <1>2. ASSUME NEW f \in Ends, NEW what \in C, Call(f, what)
        PROVE  "closed" \in ToSet(callbacks'[e])
    <2>1. CASE f = e
      <3>1. callbacks'[e] = Append(callbacks[e], what)
        BY <1>1, <1>2, <2>1, CallType
      <3>2. ToSet(callbacks'[e]) = ToSet(callbacks[e]) \union {what}
        BY <1>1, <3>1, ToSetAppend
      <3>3. QED
        BY <3>2
    <2>2. CASE f # e
      BY <1>1, <1>2, <2>2, CallType
    <2>3. QED
      BY <2>1, <2>2
  <1>3. CASE Establish
    <2>1. UNCHANGED callbacks \/ Call("init", "established") \/ Call("dest", "established")
      BY <1>3 DEF Establish, Open, ReceiveRequest, ProofIgnored, ProofBadMode, ProofHandshake,
           ProofCheck, ProofRaise, ProofActivate, RunEstablished, RttCheck, RttActivate
    <2>2. QED
      BY <1>2, <2>1 DEF Ends
  <1>4. ASSUME NEW f \in Ends, Operate(f) PROVE "closed" \in ToSet(callbacks'[e])
    <2>1. UNCHANGED callbacks \/ Call(f, "closed")
      BY <1>4 DEF Operate, SendData, ReceiveData, Revive, Teardown,
         SendClose, TeardownClose, ReceiveClose, Close, LinkClosed,
           WatchdogTimeout, WatchdogStale, WatchdogClose, WatchdogEnd, Sweep
    <2>2. QED
      BY <1>2, <1>4, <2>1
  <1>5. CASE UNCHANGED vars
    BY <1>5 DEF vars
  <1>6. QED
    BY <1>3, <1>4, <1>5 DEF Next

LEMMA ReportStep ==
  ASSUME TypeOK, Unreasoned, ReportPending, [Next]_vars
  PROVE  Unreasoned' /\ ReportPending'
  <1>1. \A e \in Ends : "closed" \in ToSet(callbacks[e]) => "closed" \in ToSet(callbacks'[e])
    BY ClosedToldForGood
  <1>2. CASE Establish
    <2>1. UNCHANGED <<reason, closing>>
      BY <1>2 DEF Establish, Open, ReceiveRequest, ProofIgnored, ProofBadMode, ProofHandshake,
           ProofCheck, ProofRaise, ProofActivate, RunEstablished, RttCheck, RttActivate
    <2>2. \A e \in Ends : status[e] # "NONE" => (keys'[e] <=> keys[e]) /\ status'[e] # "NONE"
      BY <1>2 DEF TypeOK, Establish, Open, ReceiveRequest, ProofIgnored, ProofBadMode, ProofHandshake,
           ProofCheck, ProofRaise, ProofActivate, RunEstablished, RttCheck, RttActivate
    <2>3. status'["dest"] = "CLOSED" => status["dest"] = "CLOSED"
      BY <1>2 DEF TypeOK, Ends, Establish, Open, ReceiveRequest, ProofIgnored, ProofBadMode, ProofHandshake,
           ProofCheck, ProofRaise, ProofActivate, RunEstablished, RttCheck, RttActivate
    <2>4. QED
      BY <1>1, <2>1, <2>2, <2>3 DEF Unreasoned, ReportPending, Ends
  <1>3. ASSUME NEW f \in Ends, Operate(f) PROVE Unreasoned' /\ ReportPending'
    <2>1. ASSUME NEW why \in Reason \ {"NONE"}, Close(f, why) PROVE Unreasoned' /\ ReportPending'
      BY <2>1 DEF Close, TypeOK, Unreasoned, ReportPending
    <2>2. CASE TeardownClose(f) \/ WatchdogTimeout(f) \/ WatchdogEnd(f)
      BY <2>1, <2>2 DEF TeardownClose, WatchdogTimeout, WatchdogEnd, OwnReason, Reason, Ends
    <2>3. CASE ReceiveClose(f)
      <3>1. OwnReason[Peer[f]] \in Reason \ {"NONE"}
        BY DEF OwnReason, Reason, Peer, Ends
      <3>2. CASE Close(f, OwnReason[Peer[f]])
        BY <2>1, <3>1, <3>2
      <3>3. CASE UNCHANGED <<status, reason, closing, keys, callbacks>>
        BY <3>3 DEF Unreasoned, ReportPending
      <3>4. QED
        BY <2>3, <3>2, <3>3 DEF ReceiveClose
    <2>4. CASE LinkClosed(f)
      <3>1. callbacks'[f] = Append(callbacks[f], "closed")
        BY <2>4, CallType DEF LinkClosed, TypeOK
      <3>2. "closed" \in ToSet(callbacks'[f])
        <4> DEFINE C == {"established", "closed"}
        <4>1. callbacks[f] \in Seq(C) /\ "closed" \in C
          BY DEF TypeOK
        <4> HIDE DEF C
        <4>2. ToSet(callbacks'[f]) = ToSet(callbacks[f]) \union {"closed"}
          BY <3>1, <4>1, ToSetAppend
        <4>3. QED
          BY <4>2
      <3>3. /\ UNCHANGED <<status, reason>> /\ ~keys'[f]
            /\ \A e \in Ends \ {f} : closing'[e] = closing[e] /\ keys'[e] = keys[e]
        BY <2>4 DEF LinkClosed, TypeOK
      <3>4. QED
        BY <1>1, <3>2, <3>3 DEF Unreasoned, ReportPending
    <2>5. CASE \/ SendData(f) \/ ReceiveData(f) \/ Teardown(f)
               \/ WatchdogStale(f) \/ WatchdogClose(f) \/ Sweep(f)
      BY <2>5 DEF SendData, ReceiveData, Teardown, WatchdogStale, WatchdogClose, Sweep, TypeOK,
                  Unreasoned, ReportPending
    <2>5a. CASE Revive(f)
      BY <2>5a DEF Revive, TypeOK, Unreasoned, ReportPending
    <2>6. QED
      BY <1>3, <2>2, <2>3, <2>4, <2>5, <2>5a DEF Operate
  <1>4. CASE UNCHANGED vars
    BY <1>4 DEF vars, Unreasoned, ReportPending
  <1>5. QED
    BY <1>2, <1>3, <1>4 DEF Next

\* The safety behind TeardownIsReported, with all mishaps: whatever closes a link, and
\* however often, link_closed() has been called or is about to be; only what
\* Link.validate_proof() closes at the initiator has no reason and is not reported.
THEOREM LinkReportPending == Spec => []ReportPending
  <1>1. Init => Unreasoned /\ ReportPending
    BY DEF Init, Unreasoned, ReportPending
  <1>2. QED
    BY <1>1, ReportStep, LinkTypeCorrect, PTL DEF Spec
=============================================================================
