---------------------------- MODULE TransitProofs ----------------------------
(***************************************************************************)
(* Proofs about Transit: the types, what the ends of a link are given, and *)
(* the MTU they agree on.                                                  *)
(***************************************************************************)
EXTENDS Transit, TLAPS

\* A size that a path carries, or anything has to carry.
Fits(size, path) == size <= MTU \/ \A s \in path : size <= HW_MTU[s]

OneRoute == \A n \in Nodes : route[n] = {} \/ \E r \in Routes[n] : route[n] = {r}

MtuInv ==
  /\ OneRoute
  /\ \A m \in net : Fits(m.packet.mtu, m.over)
  /\ MtuFits

Known(n) == hashes[n] \cup hashes_prev[n]

MemoryInv ==
  /\ \A n \in Nodes : <<"ROTATE", n>> \notin past => hashes_prev[n] = {}
  /\ \A e \in Ends : received[e] \subseteq Known(e)
  /\ \A m \in net : m.packet.kind = "DATA" => m.packet.src = Initiator
  /\ \A m \in net : m.packet.kind = "LINKDATA" => m.packet \in Known(m.packet.src)
  /\ OnceFromPeer

-----------------------------------------------------------------------------
\* A transmission makes messages.
LEMMA SentType ==
  ASSUME NodesAssumption, NEW n, NEW s \in Media, NEW packet \in Packet,
         NEW next \in SUBSET Nodes, NEW hops \in Nat, NEW path \in SUBSET Media
  PROVE  Sent(n, s, packet, next, hops, path) \subseteq Message
<1>1. SUFFICES ASSUME NEW hearer \in {pair \in Hears[s] : pair[1] = n}
               PROVE  [packet |-> packet, next |-> next, hops |-> hops, to |-> hearer[2],
                       on |-> s, over |-> path] \in Message
  BY DEF Sent
<1>2. hearer[2] \in Nodes
  BY <1>1 DEF NodesAssumption
<1>3. QED
  BY <1>2 DEF Message

\* Every message of a transmission is the packet that is sent.
LEMMA SentFacts ==
  ASSUME NEW n, NEW s, NEW packet, NEW next, NEW hops, NEW path,
         NEW m \in Sent(n, s, packet, next, hops, path)
  PROVE  m.packet = packet /\ m.over = path /\ m.on = s
BY DEF Sent

\* Packets as the ends make them.
LEMMA PlainType ==
  ASSUME NEW kind \in {"LINKREQUEST", "LRPROOF", "LINKDATA", "DATA", "PROOF"}, NEW e \in Ends,
         NEW num \in Nat
  PROVE  /\ Plain(kind, e, num) \in Packet
         /\ Plain(kind, e, num).kind = kind /\ Plain(kind, e, num).src = e
         /\ Plain(kind, e, num).mtu = 0
BY DEF Plain, Packet

\* The same with an MTU that is signalled.
LEMMA SizedType ==
  ASSUME NEW packet \in Packet, NEW size \in Nat
  PROVE  /\ [packet EXCEPT !.mtu = size] \in Packet
         /\ [packet EXCEPT !.mtu = size].mtu = size
         /\ [packet EXCEPT !.mtu = size].kind = packet.kind
BY DEF Packet

\* The same with a context.
LEMMA ContextType ==
  ASSUME NEW packet \in Packet, NEW context \in Contexts
  PROVE  /\ [packet EXCEPT !.context = context] \in Packet
         /\ [packet EXCEPT !.context = context].mtu = packet.mtu
         /\ [packet EXCEPT !.context = context].kind = packet.kind
         /\ [packet EXCEPT !.context = context].src = packet.src
BY DEF Packet

\* What a message holds.
LEMMA MessageFacts ==
  ASSUME NEW m \in Message
  PROVE  /\ m.packet \in Packet /\ m.next \in SUBSET Nodes /\ m.hops \in Nat
         /\ m.to \in Nodes /\ m.on \in Media /\ m.over \in SUBSET Media
         /\ m.packet.kind \in {"LINKREQUEST", "LRPROOF", "LINKDATA", "DATA", "PROOF"}
         /\ m.packet.src \in Ends /\ m.packet.num \in Nat /\ m.packet.mtu \in Nat
         /\ m.packet.context \in Contexts \cup {"NONE"}
BY DEF Message, Packet

\* The next hop of a path is a node.
LEMMA OnwardType ==
  ASSUME NEW r \in Route
  PROVE  Onward(r) \in SUBSET Nodes /\ r.on \in Media /\ r.hops \in 1 .. PATHFINDER_M
BY DEF Onward, Route

\* Whatever comes in is remembered as a set of packets.
LEMMA RememberType ==
  ASSUME TypeOK, NEW m \in Message, Remember(m)
  PROVE  hashes' \in [Nodes -> SUBSET Packet]
BY MessageFacts DEF Remember, TypeOK

-----------------------------------------------------------------------------
\* A packet that leaves the initiator for the destination leaves the types alone.
LEMMA OutboundType ==
  ASSUME TypeOK, NodesAssumption, NEW packet \in Packet, NEW path \in SUBSET Media,
         Outbound(packet, path)
  PROVE  net' \subseteq Message /\ hashes' \in [Nodes -> SUBSET Packet]
<1>1. Initiator \in Nodes
  BY DEF Nodes, Ends
<1>2. CASE route[Initiator] # {}
  <2>1. PICK r \in route[Initiator] :
          net' = net \cup Sent(Initiator, r.on, packet, Onward(r), 0, path \cap {r.on})
    BY <1>2 DEF Outbound
  <2>2. r \in Route
    BY <1>1 DEF TypeOK
  <2>3. Sent(Initiator, r.on, packet, Onward(r), 0, path \cap {r.on}) \subseteq Message
    BY <2>2, OnwardType, SentType
  <2>4. UNCHANGED hashes
    BY <1>2 DEF Outbound
  <2>5. QED
    BY <2>1, <2>3, <2>4 DEF TypeOK
<1>3. CASE route[Initiator] = {}
  <2>1. ASSUME NEW s \in Media
        PROVE  Sent(Initiator, s, packet, {}, 0, path \cap {s}) \subseteq Message
    BY SentType
  <2> DEFINE all == {Sent(Initiator, s, packet, {}, 0, path \cap {s}) : s \in Media}
  <2>2. UNION all \subseteq Message
    BY <2>1
  <2>3. net' = net \cup UNION all /\ hashes' = [hashes EXCEPT ![Initiator] = @ \cup {packet}]
    BY <1>3 DEF Outbound
  <2> HIDE DEF all
  <2>4. QED
    BY <2>2, <2>3, <1>1 DEF TypeOK
<1>4. QED
  BY <1>2, <1>3

-----------------------------------------------------------------------------
\* The types hold initially.
LEMMA InitType == NodesAssumption /\ NumbersAssumption /\ Init => TypeOK
<1>1. SUFFICES ASSUME NodesAssumption, NumbersAssumption, Init PROVE TypeOK
  OBVIOUS
<1>2. \A n \in Nodes : Routes[n] \subseteq Route
  BY <1>1 DEF NodesAssumption
<1>3. route \in [Nodes -> SUBSET Route]
  <2>1. route = [n \in Nodes |-> route[n]]
    BY <1>1 DEF Init
  <2>2. \A n \in Nodes : route[n] \subseteq Route
    BY <1>1, <1>2 DEF Init
  <2>3. QED
    BY <2>1, <2>2
<1>4. QED
  BY <1>1, <1>3 DEF Init, TypeOK, NumbersAssumption

\* The types survive what the ends send.
LEMMA SendType ==
  ASSUME TypeOK, NodesAssumption, NumbersAssumption
  PROVE  /\ RequestLink => TypeOK'
         /\ SendSingle => TypeOK'
         /\ \A e \in Ends : SendOnLink(e) => TypeOK'
<1>0. Initiator \in Ends /\ Ends \subseteq Nodes
  BY DEF Nodes, Ends
<1>1. ASSUME RequestLink PROVE TypeOK'
  <2>1. \A r \in route[Initiator] : r \in Route
    BY <1>0 DEF TypeOK
  <2>2. expected' \in Nat
    <3>1. CASE route[Initiator] = {}
      BY <3>1, <1>1 DEF RequestLink, NumbersAssumption
    <3>2. CASE route[Initiator] # {}
      <4>1. (CHOOSE r \in route[Initiator] : TRUE) \in route[Initiator]
        BY <3>2
      <4>2. QED
        BY <4>1, <3>2, <2>1, <1>1, OnwardType DEF RequestLink
    <3>3. QED
      BY <3>1, <3>2
  <2>3. Signalled \in Nat
    <3>1. CASE \E r \in route[Initiator] : r.on \in Tuned
      <4>1. (CHOOSE r \in route[Initiator] : TRUE) \in route[Initiator]
        BY <3>1
      <4>2. QED
        BY <4>1, <3>1, <2>1, OnwardType DEF Signalled, NumbersAssumption
    <3>2. CASE ~ \E r \in route[Initiator] : r.on \in Tuned
      BY <3>2 DEF Signalled, NumbersAssumption
    <3>3. QED
      BY <3>1, <3>2
  <2>4. [Plain("LINKREQUEST", Initiator, 1) EXCEPT !.mtu = Signalled] \in Packet
    BY <2>3, <1>0, PlainType, SizedType
  <2>5. net' \subseteq Message /\ hashes' \in [Nodes -> SUBSET Packet]
    BY <2>4, <1>1, OutboundType DEF RequestLink
  <2>6. QED
    BY <2>2, <2>5, <1>1 DEF RequestLink, TypeOK, tables
<1>2. ASSUME SendSingle PROVE TypeOK'
  <2>1. singles + 1 \in Nat
    BY DEF TypeOK
  <2>2. Plain("DATA", Initiator, singles + 1) \in Packet
    BY <2>1, <1>0, PlainType
  <2>3. net' \subseteq Message /\ hashes' \in [Nodes -> SUBSET Packet]
    BY <2>2, <1>2, OutboundType DEF SendSingle
  <2>4. QED
    BY <2>1, <2>3, <1>2 DEF SendSingle, TypeOK, tables
<1>3. ASSUME NEW e \in Ends, SendOnLink(e) PROVE TypeOK'
  <2>1. PICK s \in attached[e], context \in Contexts :
          LET packet == [Plain("LINKDATA", e, sent[e] + 1) EXCEPT !.context = context]
          IN  /\ net' = net \cup Sent(e, s, packet, {}, 0, {})
              /\ hashes' = [hashes EXCEPT ![e] = @ \cup {packet}]
    BY <1>3 DEF SendOnLink
  <2> DEFINE packet == [Plain("LINKDATA", e, sent[e] + 1) EXCEPT !.context = context]
  <2>2. packet \in Packet
    <3>1. sent[e] + 1 \in Nat
      BY DEF TypeOK
    <3>2. QED
      BY <3>1, PlainType, ContextType
  <2>3. s \in Media /\ sent[e] + 1 \in Nat
    BY DEF TypeOK
  <2>4. Sent(e, s, packet, {}, 0, {}) \subseteq Message
    <3> HIDE DEF packet
    <3>1. QED
      BY <2>2, <2>3, SentType
  <2>5. net' = net \cup Sent(e, s, packet, {}, 0, {}) /\ hashes' = [hashes EXCEPT ![e] = @ \cup {packet}]
    BY <2>1
  <2> HIDE DEF packet
  <2>6. QED
    BY <1>0, <1>3, <2>2, <2>3, <2>4, <2>5 DEF SendOnLink, TypeOK, tables
<1>4. QED
  BY <1>1, <1>2, <1>3

\* The types survive what the relays forward.
LEMMA ForwardType ==
  ASSUME TypeOK, NodesAssumption, NumbersAssumption, NEW m \in net, Forward(m)
  PROVE  TypeOK'
<1>1. m \in Message
  BY DEF TypeOK
<1>2. m.hops + 1 \in Nat /\ m.hops + 1 # 0
  BY <1>1, MessageFacts
<1>3. Remember(m) => hashes' \in [Nodes -> SUBSET Packet]
  BY <1>1, RememberType
<1>4. Relays \subseteq Nodes
  BY DEF Nodes
<1>5. \A n \in Relays : \A r \in route[n] : r \in Route
  BY <1>4 DEF TypeOK
<1>6. ASSUME ForwardRequest(m) PROVE TypeOK'
  <2>1. m.to \in Relays
    BY <1>6 DEF ForwardRequest, InTransport
  <2>2. PICK r \in route[m.to] :
          LET size == Clamped(m.packet.mtu, HW_MTU[m.on], HW_MTU[r.on], r.on \in Tuned)
          IN  /\ link_table' = [link_table EXCEPT ![m.to] = {Entry(m, r)}]
              /\ net' = (net \ {m}) \cup
                          Sent(m.to, r.on, [m.packet EXCEPT !.mtu = size], Onward(r), m.hops + 1,
                               m.over \cup {r.on})
    BY <1>6 DEF ForwardRequest
  <2>3. r \in Route /\ r.on \in Media
    BY <1>5, <2>1, OnwardType
  <2> DEFINE size == Clamped(m.packet.mtu, HW_MTU[m.on], HW_MTU[r.on], r.on \in Tuned)
  <2>4. size \in Nat
    <3>1. m.packet.mtu \in Nat /\ HW_MTU[m.on] \in Nat /\ HW_MTU[r.on] \in Nat
      BY <1>1, <2>3, MessageFacts, NumbersAssumption DEF NumbersAssumption
    <3>2. (r.on \in Tuned) \in BOOLEAN
      OBVIOUS
    <3>3. QED
      BY <3>1, <3>2 DEF Clamped, Lowest
  <2>5. link_table' = [link_table EXCEPT ![m.to] = {Entry(m, r)}] /\
        net' = (net \ {m}) \cup Sent(m.to, r.on, [m.packet EXCEPT !.mtu = size], Onward(r), m.hops + 1,
                                    m.over \cup {r.on})
    BY <2>2
  <2> HIDE DEF size
  <2>6. [m.packet EXCEPT !.mtu = size] \in Packet
    BY <2>4, <1>1, MessageFacts, SizedType
  <2>7. m.over \cup {r.on} \in SUBSET Media
    BY <1>1, <2>3, MessageFacts
  <2>8. net' \subseteq Message
    BY <1>2, <2>3, <2>5, <2>6, <2>7, OnwardType, SentType DEF TypeOK
  <2>9. Entry(m, r) \in LinkEntry
    <3>1. r.hops \in Nat \ {0}
      BY <2>3, OnwardType, NumbersAssumption DEF NumbersAssumption
    <3>2. QED
      BY <3>1, <1>1, <1>2, <2>3, MessageFacts DEF Entry, LinkEntry
  <2>10. link_table' \in [Relays -> SUBSET LinkEntry]
    BY <2>1, <2>5, <2>9 DEF TypeOK
  <2>11. QED
    BY <1>3, <1>6, <2>8, <2>10 DEF ForwardRequest, TypeOK, tables, ends
<1>7. ASSUME ForwardSingle(m) PROVE TypeOK'
  <2>1. m.to \in Relays
    BY <1>7 DEF ForwardSingle, InTransport
  <2>2. PICK r \in route[m.to] :
          /\ reverse' = [reverse EXCEPT ![m.to] = {x \in @ : x.num # m.packet.num} \cup
                           {[num |-> m.packet.num, rcvd |-> m.on, outb |-> r.on]}]
          /\ net' = (net \ {m}) \cup Sent(m.to, r.on, m.packet, Onward(r), m.hops + 1, {})
    BY <1>7 DEF ForwardSingle
  <2>3. r \in Route /\ r.on \in Media
    BY <1>5, <2>1, OnwardType
  <2>4. net' \subseteq Message
    BY <1>1, <1>2, <2>2, <2>3, MessageFacts, OnwardType, SentType DEF TypeOK
  <2>5. [num |-> m.packet.num, rcvd |-> m.on, outb |-> r.on] \in ReverseEntry
    BY <1>1, <2>3, MessageFacts DEF ReverseEntry
  <2>6. reverse' \in [Relays -> SUBSET ReverseEntry]
    BY <2>1, <2>2, <2>5 DEF TypeOK
  <2>7. QED
    BY <1>3, <1>7, <2>4, <2>6 DEF ForwardSingle, TypeOK, tables, ends
<1>8. ASSUME Repeat(m) PROVE TypeOK'
  <2>1. m.to \in Relays /\ m.to \in Nodes /\ m.packet \in Packet
    BY <1>8, <1>4, <1>1, MessageFacts DEF Repeat
  <2>2. PICK entry \in link_table[m.to] : \E s \in Outward(m, entry) :
          net' = (net \ {m}) \cup Sent(m.to, s, m.packet, {}, m.hops + 1, {})
    BY <1>8 DEF Repeat
  <2>3. entry \in LinkEntry
    BY <2>1 DEF TypeOK
  <2>4. Outward(m, entry) \subseteq Media
    BY <2>3 DEF Outward, LinkEntry
  <2>5. net' \subseteq Message
    BY <1>2, <2>1, <2>2, <2>4, SentType DEF TypeOK
  <2>6. QED
    BY <1>8, <2>1, <2>5 DEF Repeat, TypeOK, tables, ends
<1>9. ASSUME TransportProof(m) PROVE TypeOK'
  <2>1. m.to \in Relays
    BY <1>9 DEF TransportProof
  <2>2. PICK entry \in link_table[m.to] :
          /\ link_table' = [link_table EXCEPT ![m.to] = {[entry EXCEPT !.validated = TRUE]}]
          /\ net' = (net \ {m}) \cup Sent(m.to, entry.rcvd, m.packet, {}, m.hops + 1, m.over)
    BY <1>9 DEF TransportProof
  <2>3. entry \in LinkEntry
    BY <2>1 DEF TypeOK
  <2>4. [entry EXCEPT !.validated = TRUE] \in LinkEntry /\ entry.rcvd \in Media
    BY <2>3 DEF LinkEntry
  <2>5. net' \subseteq Message
    BY <1>1, <1>2, <2>2, <2>4, MessageFacts, SentType DEF TypeOK
  <2>6. link_table' \in [Relays -> SUBSET LinkEntry]
    BY <2>1, <2>2, <2>4 DEF TypeOK
  <2>7. QED
    BY <1>9, <2>5, <2>6 DEF TransportProof, TypeOK, tables, ends
<1>10. ASSUME ReturnProof(m) PROVE TypeOK'
  <2>1. m.to \in Relays
    BY <1>10 DEF ReturnProof
  <2>2. PICK entry \in reverse[m.to] :
          /\ reverse' = [reverse EXCEPT ![m.to] = @ \ {entry}]
          /\ net' = (net \ {m}) \cup
               IF m.on = entry.outb THEN Sent(m.to, entry.rcvd, m.packet, {}, m.hops + 1, {}) ELSE {}
    BY <1>10 DEF ReturnProof
  <2>3. entry.rcvd \in Media
    BY <2>1 DEF TypeOK, ReverseEntry
  <2>4. Sent(m.to, entry.rcvd, m.packet, {}, m.hops + 1, {}) \subseteq Message
    BY <1>1, <1>2, <2>3, MessageFacts, SentType
  <2>5. net' \subseteq Message
    BY <2>2, <2>4 DEF TypeOK
  <2>6. reverse' \in [Relays -> SUBSET ReverseEntry]
    BY <2>1, <2>2 DEF TypeOK
  <2>7. QED
    BY <1>3, <1>10, <2>5, <2>6 DEF ReturnProof, TypeOK, tables, ends
<1>11. QED
  BY <1>6, <1>7, <1>8, <1>9, <1>10 DEF Forward

\* The types survive what the ends are given.
LEMMA ReceiveType ==
  ASSUME TypeOK, NodesAssumption, NumbersAssumption, NEW m \in net
  PROVE  /\ ReceiveAtEnd(m) => TypeOK'
         /\ Filter(m) \/ Ignore(m) => TypeOK'
<1>1. m \in Message
  BY DEF TypeOK
<1>2. m.on \in Media /\ m.packet \in Packet /\ m.over \in SUBSET Media /\ m.to \in Nodes
      /\ m.packet.num \in Nat /\ m.packet.mtu \in Nat
  BY <1>1, MessageFacts
<1>3. Remember(m) => hashes' \in [Nodes -> SUBSET Packet]
  BY <1>1, RememberType
<1>4. Destination \in Ends /\ Initiator \in Ends /\ Ends \subseteq Nodes
  BY DEF Nodes, Ends
<1>5. ASSUME AcceptRequest(m) PROVE TypeOK'
  <2> DEFINE proof == [Plain("LRPROOF", Destination, 1) EXCEPT !.mtu = Accepted(m)]
  <2>1. Accepted(m) \in Nat
    BY <1>2, NumbersAssumption DEF Accepted, Lowest, InterfaceMtu, NumbersAssumption
  <2>2. proof \in Packet
    BY <2>1, <1>4, PlainType, SizedType
  <2>3. /\ net' = (net \ {m}) \cup Sent(Destination, m.on, proof, {}, 0, m.over)
        /\ hashes' = [hashes EXCEPT ![Destination] = @ \cup {m.packet, proof}]
    BY <1>5 DEF AcceptRequest
  <2> HIDE DEF proof
  <2>4. net' \subseteq Message
    BY <1>2, <2>2, <2>3, SentType DEF TypeOK
  <2>5. QED
    BY <1>2, <1>4, <1>5, <2>1, <2>2, <2>3, <2>4 DEF AcceptRequest, TypeOK, tables
<1>6. ASSUME ReceiveLinkProof(m) PROVE TypeOK'
  <2> DEFINE rtt == Plain("LINKDATA", Initiator, 0)
  <2>1. rtt \in Packet
    BY <1>4, PlainType
  <2>2. /\ net' = (net \ {m}) \cup Sent(Initiator, m.on, rtt, {}, 0, {})
        /\ hashes' = [hashes EXCEPT ![Initiator] = @ \cup {m.packet, rtt}]
    BY <1>6 DEF ReceiveLinkProof
  <2> HIDE DEF rtt
  <2>3. net' \subseteq Message
    BY <1>2, <2>1, <2>2, SentType DEF TypeOK
  <2>4. QED
    BY <1>2, <1>4, <1>6, <2>1, <2>2, <2>3 DEF ReceiveLinkProof, TypeOK, tables
<1>7. ASSUME ReceiveOnLink(m) PROVE TypeOK'
  BY <1>2, <1>3, <1>7 DEF ReceiveOnLink, Give, TypeOK, tables
<1>8. ASSUME ReceiveSingle(m) PROVE TypeOK'
  <2> DEFINE proof == Plain("PROOF", Destination, m.packet.num)
  <2>1. proof \in Packet
    BY <1>2, <1>4, PlainType
  <2>2. /\ net' = (net \ {m}) \cup Sent(Destination, m.on, proof, {}, 0, {})
        /\ hashes' = [hashes EXCEPT ![Destination] = @ \cup {m.packet, proof}]
    BY <1>8 DEF ReceiveSingle
  <2> HIDE DEF proof
  <2>3. net' \subseteq Message
    BY <1>2, <2>1, <2>2, SentType DEF TypeOK
  <2>4. QED
    BY <1>2, <1>4, <1>8, <2>1, <2>2, <2>3 DEF ReceiveSingle, Give, TypeOK, tables
<1>9. ASSUME ReceiveProof(m) PROVE TypeOK'
  BY <1>2, <1>3, <1>9 DEF ReceiveProof, TypeOK, tables
<1>10. ASSUME Filter(m) PROVE TypeOK'
  BY <1>10 DEF Filter, TypeOK, tables, ends
<1>11. ASSUME Ignore(m) PROVE TypeOK'
  BY <1>3, <1>11 DEF Ignore, TypeOK, tables, ends
<1>12. QED
  BY <1>5, <1>6, <1>7, <1>8, <1>9, <1>10, <1>11 DEF ReceiveAtEnd

\* The types survive what times out, is full or changes.
LEMMA TablesType ==
  ASSUME TypeOK, NodesAssumption
  PROVE  /\ \A n \in Nodes : Reroute(n) \/ Rotate(n) => TypeOK'
         /\ \A n \in Relays : CullLink(n) \/ CullReverse(n) => TypeOK'
<1>1. ASSUME NEW n \in Nodes, Reroute(n) PROVE TypeOK'
  <2>1. \A x \in Routes[n] : x \in Route
    BY DEF NodesAssumption
  <2>2. route' \in [Nodes -> SUBSET Route]
    BY <1>1, <2>1 DEF Reroute, TypeOK
  <2>3. QED
    BY <1>1, <2>2 DEF Reroute, TypeOK, ends
<1>2. ASSUME NEW n \in Nodes, Rotate(n) PROVE TypeOK'
  BY <1>2 DEF Rotate, TypeOK, ends
<1>3. ASSUME NEW n \in Relays, CullLink(n) PROVE TypeOK'
  BY <1>3 DEF CullLink, TypeOK, ends
<1>4. ASSUME NEW n \in Relays, CullReverse(n) PROVE TypeOK'
  BY <1>4 DEF CullReverse, TypeOK, ends
<1>5. QED
  BY <1>1, <1>2, <1>3, <1>4

\* The types hold of every state (Transport's tables, the packets and the ends).
THEOREM TypeCorrect == Spec => []TypeOK
<1>1. Init => TypeOK
  BY InitType, NodesAssumption, NumbersAssumption
<1>2. TypeOK /\ [Next]_vars => TypeOK'
  <2>1. SUFFICES ASSUME TypeOK, [Next]_vars PROVE TypeOK'
    OBVIOUS
  <2>2. CASE UNCHANGED vars
    BY <2>1, <2>2 DEF vars, tables, ends, TypeOK
  <2>3. CASE Next
    BY <2>1, <2>3, SendType, ForwardType, ReceiveType, TablesType, NodesAssumption,
       NumbersAssumption DEF Next, Receive
  <2>4. QED
    BY <2>1, <2>2, <2>3
<1>3. QED
  BY <1>1, <1>2, PTL DEF Spec

-----------------------------------------------------------------------------
(***************************************************************************)
(* The MTU of a link.  Every packet signals a size that fits the media it  *)
(* went over, or that anything has to carry.                               *)
(***************************************************************************)

\* What is sent fits the path that is noted with it.
LEMMA SentFits ==
  ASSUME NEW n, NEW s, NEW packet, NEW next, NEW hops, NEW path, Fits(packet.mtu, path),
         NEW m \in Sent(n, s, packet, next, hops, path)
  PROVE  Fits(m.packet.mtu, m.over)
BY SentFacts

\* Without a path, anything of the least MTU fits, and so does anything smaller.
LEMMA FitsFacts ==
  ASSUME NumbersAssumption, NEW size \in Nat, NEW path \in SUBSET Media
  PROVE  /\ Fits(size, {})
         /\ size <= MTU => Fits(size, path)
         /\ \A less \in Nat : less <= size /\ Fits(size, path) => Fits(less, path)
<1>1. MTU \in Nat /\ \A s \in path : HW_MTU[s] \in Nat
  BY DEF NumbersAssumption
<1>2. QED
  BY <1>1 DEF Fits

\* The initiator signals what its next hop's interface carries.
LEMMA SignalledFits ==
  ASSUME TypeOK, OneRoute, NumbersAssumption
  PROVE  /\ Signalled \in Nat
         /\ route[Initiator] = {} => Signalled = MTU
         /\ \A r \in route[Initiator] : Fits(Signalled, {r.on})
<1>1. Initiator \in Nodes
  BY DEF Nodes, Ends
<1>2. CASE route[Initiator] = {}
  BY <1>2 DEF Signalled, NumbersAssumption
<1>3. CASE route[Initiator] # {}
  <2>1. PICK r : route[Initiator] = {r}
    BY <1>1, <1>3 DEF OneRoute
  <2>2. r \in Route /\ r.on \in Media
    BY <1>1, <2>1, OnwardType DEF TypeOK
  <2>3. (CHOOSE x \in route[Initiator] : TRUE) = r
    BY <2>1
  <2>4. CASE r.on \in Tuned
    BY <2>1, <2>2, <2>3, <2>4 DEF Signalled, Fits, NumbersAssumption
  <2>5. CASE r.on \notin Tuned
    BY <2>1, <2>2, <2>5 DEF Signalled, Fits, NumbersAssumption
  <2>6. QED
    BY <2>4, <2>5
<1>4. QED
  BY <1>2, <1>3

\* A relay clamps to the interface a request leaves on.
LEMMA ClampedFits ==
  ASSUME NumbersAssumption, NEW p \in Nat, NEW path \in SUBSET Media, Fits(p, path),
         NEW on \in Media, NEW out \in Media
  PROVE  LET size == Clamped(p, HW_MTU[on], HW_MTU[out], out \in Tuned)
         IN  size \in Nat /\ Fits(size, path \cup {out})
<1> DEFINE size == Clamped(p, HW_MTU[on], HW_MTU[out], out \in Tuned)
<1>1. HW_MTU[on] \in Nat /\ HW_MTU[out] \in Nat /\ MTU \in Nat /\ \A s \in path : HW_MTU[s] \in Nat
  BY DEF NumbersAssumption
<1>2. CASE p = 0 \/ HW_MTU[out] = 0 \/ out \notin Tuned
  <2>1. size = 0
    BY <1>2 DEF Clamped
  <2> HIDE DEF size
  <2>2. size \in Nat /\ Fits(size, path \cup {out})
    BY <2>1, <1>1 DEF Fits
  <2>3. QED
    BY <2>2 DEF size
<1>3. CASE ~(p = 0 \/ HW_MTU[out] = 0 \/ out \notin Tuned)
  <2>1. size \in Nat /\ size <= p /\ size <= HW_MTU[out]
    BY <1>1, <1>3 DEF Clamped, Lowest
  <2> HIDE DEF size
  <2>2. Fits(size, path \cup {out})
    BY <1>1, <2>1 DEF Fits
  <2>3. QED
    BY <2>1, <2>2 DEF size
<1>4. QED
  BY <1>2, <1>3

\* Packets on their way fit their paths after a step that sends one that does.
LEMMA NetFits ==
  ASSUME MtuInv, NEW n, NEW s, NEW packet, NEW next, NEW hops, NEW path, Fits(packet.mtu, path),
         net' \subseteq net \cup Sent(n, s, packet, next, hops, path)
  PROVE  \A m \in net' : Fits(m.packet.mtu, m.over)
BY SentFits DEF MtuInv

\* The sizes survive what the ends send.
LEMMA SendFits ==
  ASSUME TypeOK, MtuInv, NodesAssumption, NumbersAssumption
  PROVE  /\ RequestLink => MtuInv'
         /\ SendSingle => MtuInv'
         /\ \A e \in Ends : SendOnLink(e) => MtuInv'
<1>0. Initiator \in Ends /\ Initiator \in Nodes
  BY DEF Nodes, Ends
<1>a. \A r \in route[Initiator] : r.on \in Media
  BY <1>0, OnwardType DEF TypeOK
<1>1. ASSUME NEW packet \in Packet, NEW path \in SUBSET Media, Outbound(packet, path),
             \A r \in route[Initiator] : Fits(packet.mtu, path \cap {r.on}),
             route[Initiator] = {} => packet.mtu <= MTU
      PROVE  \A m \in net' : Fits(m.packet.mtu, m.over)
  <2>1. CASE route[Initiator] # {}
    <3>1. PICK r \in route[Initiator] :
            net' = net \cup Sent(Initiator, r.on, packet, Onward(r), 0, path \cap {r.on})
      BY <1>1, <2>1 DEF Outbound
    <3>2. QED
      BY <1>1, <3>1, NetFits
  <2>2. CASE route[Initiator] = {}
    <3>1. net' = net \cup UNION {Sent(Initiator, s, packet, {}, 0, path \cap {s}) : s \in Media}
      BY <1>1, <2>2 DEF Outbound
    <3>2. ASSUME NEW s \in Media, NEW m \in Sent(Initiator, s, packet, {}, 0, path \cap {s})
          PROVE  Fits(m.packet.mtu, m.over)
      BY <3>2, <1>1, <2>2, SentFits DEF Fits
    <3>3. QED
      BY <3>1, <3>2 DEF MtuInv
  <2>3. QED
    BY <2>1, <2>2
<1>2. ASSUME RequestLink PROVE MtuInv'
  <2> DEFINE packet == [Plain("LINKREQUEST", Initiator, 1) EXCEPT !.mtu = Signalled]
  <2>1. OneRoute
    BY DEF MtuInv
  <2>2. packet \in Packet /\ packet.mtu = Signalled
    BY <1>0, <2>1, SignalledFits, PlainType, SizedType
  <2>3. Outbound(packet, Media)
    BY <1>2 DEF RequestLink
  <2> HIDE DEF packet
  <2>4. \A r \in route[Initiator] : Fits(packet.mtu, Media \cap {r.on})
    <3>1. \A r \in route[Initiator] : Media \cap {r.on} = {r.on}
      BY <1>a
    <3>2. QED
      BY <2>1, <2>2, <3>1, SignalledFits
  <2>5. route[Initiator] = {} => packet.mtu <= MTU
    BY <2>1, <2>2, SignalledFits, NumbersAssumption DEF NumbersAssumption
  <2>6. \A m \in net' : Fits(m.packet.mtu, m.over)
    BY <1>1, <2>2, <2>3, <2>4, <2>5
  <2>7. QED
    BY <1>2, <2>6 DEF RequestLink, MtuInv, OneRoute, MtuFits, tables
<1>3. ASSUME SendSingle PROVE MtuInv'
  <2>1. Plain("DATA", Initiator, singles + 1) \in Packet /\ Plain("DATA", Initiator, singles + 1).mtu = 0
    BY <1>0, PlainType DEF TypeOK
  <2>2. \A path \in SUBSET Media : Fits(0, path)
    BY NumbersAssumption DEF Fits, NumbersAssumption
  <2>3. Outbound(Plain("DATA", Initiator, singles + 1), {})
    BY <1>3 DEF SendSingle
  <2>4. \A r \in route[Initiator] : Fits(Plain("DATA", Initiator, singles + 1).mtu, {} \cap {r.on})
    BY <2>1, <2>2
  <2>5. 0 <= MTU
    BY NumbersAssumption DEF NumbersAssumption
  <2>6. \A m \in net' : Fits(m.packet.mtu, m.over)
    BY <1>1, <2>1, <2>3, <2>4, <2>5
  <2>7. QED
    BY <1>3, <2>6 DEF SendSingle, MtuInv, OneRoute, MtuFits, tables
<1>4. ASSUME NEW e \in Ends, SendOnLink(e) PROVE MtuInv'
  <2>1. PICK s, packet : net' = net \cup Sent(e, s, packet, {}, 0, {})
    BY <1>4 DEF SendOnLink
  <2>2. Fits(packet.mtu, {})
    BY DEF Fits
  <2>3. \A m \in net' : Fits(m.packet.mtu, m.over)
    BY <2>1, <2>2, NetFits
  <2>4. QED
    BY <1>4, <2>3 DEF SendOnLink, MtuInv, OneRoute, MtuFits, tables
<1>5. QED
  BY <1>2, <1>3, <1>4

\* The sizes survive what the relays forward.
LEMMA ForwardFits ==
  ASSUME TypeOK, MtuInv, NumbersAssumption, NEW m \in net, Forward(m)
  PROVE  MtuInv'
<1>1. m \in Message /\ Fits(m.packet.mtu, m.over)
  BY DEF TypeOK, MtuInv
<1>2. \A size : Fits(size, {})
  BY DEF Fits
<1>3. SUFFICES \A x \in net' : Fits(x.packet.mtu, x.over)
  BY DEF Forward, ForwardRequest, ForwardSingle, Repeat, TransportProof, ReturnProof, MtuInv,
         OneRoute, MtuFits, tables, ends
<1>4. CASE ForwardRequest(m)
  <2>1. PICK r \in route[m.to] :
          LET size == Clamped(m.packet.mtu, HW_MTU[m.on], HW_MTU[r.on], r.on \in Tuned)
          IN  net' = (net \ {m}) \cup
                       Sent(m.to, r.on, [m.packet EXCEPT !.mtu = size], Onward(r), m.hops + 1,
                            m.over \cup {r.on})
    BY <1>4 DEF ForwardRequest
  <2> DEFINE size == Clamped(m.packet.mtu, HW_MTU[m.on], HW_MTU[r.on], r.on \in Tuned)
  <2>2. m.to \in Nodes
    BY <1>1, MessageFacts
  <2>3. r.on \in Media
    BY <2>1, <2>2, OnwardType DEF TypeOK
  <2>4. size \in Nat /\ Fits(size, m.over \cup {r.on})
    BY <1>1, <2>3, MessageFacts, ClampedFits
  <2>5. net' \subseteq net \cup Sent(m.to, r.on, [m.packet EXCEPT !.mtu = size], Onward(r), m.hops + 1,
                                  m.over \cup {r.on})
    BY <2>1
  <2> HIDE DEF size
  <2>6. [m.packet EXCEPT !.mtu = size].mtu = size
    BY <1>1, <2>4, MessageFacts, SizedType
  <2>7. Fits([m.packet EXCEPT !.mtu = size].mtu, m.over \cup {r.on})
    BY <2>4, <2>6
  <2>8. QED
    BY <2>5, <2>7, NetFits
<1>5. CASE ForwardSingle(m)
  <2>1. PICK r : net' = (net \ {m}) \cup Sent(m.to, r.on, m.packet, Onward(r), m.hops + 1, {})
    BY <1>5 DEF ForwardSingle
  <2>2. net' \subseteq net \cup Sent(m.to, r.on, m.packet, Onward(r), m.hops + 1, {})
    BY <2>1
  <2>3. QED
    BY <1>2, <2>2, NetFits
<1>6. CASE Repeat(m)
  <2>1. PICK s : net' = (net \ {m}) \cup Sent(m.to, s, m.packet, {}, m.hops + 1, {})
    BY <1>6 DEF Repeat
  <2>2. net' \subseteq net \cup Sent(m.to, s, m.packet, {}, m.hops + 1, {})
    BY <2>1
  <2>3. QED
    BY <1>2, <2>2, NetFits
<1>7. CASE TransportProof(m)
  <2>1. PICK entry : net' = (net \ {m}) \cup Sent(m.to, entry.rcvd, m.packet, {}, m.hops + 1, m.over)
    BY <1>7 DEF TransportProof
  <2>2. net' \subseteq net \cup Sent(m.to, entry.rcvd, m.packet, {}, m.hops + 1, m.over)
    BY <2>1
  <2>3. QED
    BY <1>1, <2>2, NetFits
<1>8. CASE ReturnProof(m)
  <2>1. PICK entry : net' = (net \ {m}) \cup
          IF m.on = entry.outb THEN Sent(m.to, entry.rcvd, m.packet, {}, m.hops + 1, {}) ELSE {}
    BY <1>8 DEF ReturnProof
  <2>2. net' \subseteq net \cup Sent(m.to, entry.rcvd, m.packet, {}, m.hops + 1, {})
    BY <2>1
  <2>3. QED
    BY <1>2, <2>2, NetFits
<1>9. QED
  BY <1>4, <1>5, <1>6, <1>7, <1>8 DEF Forward

\* The sizes survive what the ends are given.
LEMMA ReceiveFits ==
  ASSUME TypeOK, MtuInv, NumbersAssumption, NEW m \in net
  PROVE  /\ ReceiveAtEnd(m) => MtuInv'
         /\ Filter(m) \/ Ignore(m) => MtuInv'
<1>1. m \in Message /\ Fits(m.packet.mtu, m.over) /\ m.packet.mtu \in Nat /\ m.over \in SUBSET Media
      /\ m.on \in Media /\ m.packet.num \in Nat
  BY MessageFacts DEF TypeOK, MtuInv
<1>2. Destination \in Ends /\ Initiator \in Ends /\ Destination # Initiator
  BY NodesAssumption DEF Ends, NodesAssumption
<1>3. \A size : Fits(size, {})
  BY DEF Fits
<1>4. ASSUME AcceptRequest(m) PROVE MtuInv'
  <2> DEFINE proof == [Plain("LRPROOF", Destination, 1) EXCEPT !.mtu = Accepted(m)]
  <2>1. Accepted(m) \in Nat /\ (Accepted(m) = MTU \/ Accepted(m) <= m.packet.mtu)
    BY <1>1, NumbersAssumption DEF Accepted, Lowest, InterfaceMtu, NumbersAssumption
  <2>2. Fits(Accepted(m), m.over)
    <3>1. MTU <= MTU
      BY NumbersAssumption DEF NumbersAssumption
    <3>2. QED
      BY <1>1, <2>1, <3>1, FitsFacts
  <2>3. proof.mtu = Accepted(m)
    BY <1>2, <2>1, PlainType, SizedType
  <2>4. net' = (net \ {m}) \cup Sent(Destination, m.on, proof, {}, 0, m.over)
    BY <1>4 DEF AcceptRequest
  <2> HIDE DEF proof
  <2>5. \A x \in net' : Fits(x.packet.mtu, x.over)
    BY <2>2, <2>3, <2>4, NetFits
  <2>6. mtu'[Destination] = Accepted(m) /\ over'[Destination] = m.over
        /\ mtu'[Initiator] = mtu[Initiator] /\ over'[Initiator] = over[Initiator]
    BY <1>2, <1>4 DEF AcceptRequest, TypeOK
  <2>7. MtuFits'
    BY <2>2, <2>6 DEF MtuInv, MtuFits, Fits, Ends
  <2>8. QED
    BY <1>4, <2>5, <2>7 DEF AcceptRequest, MtuInv, OneRoute, tables
<1>5. ASSUME ReceiveLinkProof(m) PROVE MtuInv'
  <2> DEFINE rtt == Plain("LINKDATA", Initiator, 0)
  <2>1. net' = (net \ {m}) \cup Sent(Initiator, m.on, rtt, {}, 0, {})
    BY <1>5 DEF ReceiveLinkProof
  <2> HIDE DEF rtt
  <2>2. \A x \in net' : Fits(x.packet.mtu, x.over)
    BY <1>3, <2>1, NetFits
  <2>3. mtu'[Initiator] = m.packet.mtu /\ over'[Initiator] = m.over
        /\ mtu'[Destination] = mtu[Destination] /\ over'[Destination] = over[Destination]
    BY <1>2, <1>5 DEF ReceiveLinkProof, TypeOK
  <2>4. MtuFits'
    BY <1>1, <2>3 DEF MtuInv, MtuFits, Fits, Ends
  <2>5. QED
    BY <1>5, <2>2, <2>4 DEF ReceiveLinkProof, MtuInv, OneRoute, tables
<1>6. ASSUME ReceiveSingle(m) PROVE MtuInv'
  <2> DEFINE proof == Plain("PROOF", Destination, m.packet.num)
  <2>1. net' = (net \ {m}) \cup Sent(Destination, m.on, proof, {}, 0, {})
    BY <1>6 DEF ReceiveSingle
  <2> HIDE DEF proof
  <2>2. \A x \in net' : Fits(x.packet.mtu, x.over)
    BY <1>3, <2>1, NetFits
  <2>3. QED
    BY <1>6, <2>2 DEF ReceiveSingle, MtuInv, MtuFits, OneRoute, tables
<1>7. ASSUME ReceiveOnLink(m) \/ ReceiveProof(m) PROVE MtuInv'
  BY <1>7 DEF ReceiveOnLink, ReceiveProof, MtuInv, MtuFits, OneRoute, tables
<1>8. ASSUME Filter(m) \/ Ignore(m) PROVE MtuInv'
  BY <1>8 DEF Filter, Ignore, MtuInv, MtuFits, OneRoute, tables, ends
<1>9. QED
  BY <1>4, <1>5, <1>6, <1>7, <1>8 DEF ReceiveAtEnd

\* The sizes do not depend on what times out, is full or changes.
LEMMA TablesFits ==
  ASSUME TypeOK, MtuInv
  PROVE  /\ \A n \in Nodes : Reroute(n) \/ Rotate(n) => MtuInv'
         /\ \A n \in Relays : CullLink(n) \/ CullReverse(n) => MtuInv'
<1>1. ASSUME NEW n \in Nodes, Reroute(n) PROVE MtuInv'
  <2>1. PICK r \in {{}} \cup {{x} : x \in Routes[n]} : route' = [route EXCEPT ![n] = r]
    BY <1>1 DEF Reroute
  <2>2. OneRoute'
    BY <2>1 DEF MtuInv, OneRoute, TypeOK
  <2>3. QED
    BY <1>1, <2>2 DEF Reroute, MtuInv, MtuFits, ends
<1>2. ASSUME NEW n \in Nodes, Rotate(n) PROVE MtuInv'
  BY <1>2 DEF Rotate, MtuInv, MtuFits, OneRoute, ends
<1>3. ASSUME NEW n \in Relays, CullLink(n) \/ CullReverse(n) PROVE MtuInv'
  BY <1>3 DEF CullLink, CullReverse, MtuInv, MtuFits, OneRoute, ends
<1>4. QED
  BY <1>1, <1>2, <1>3

\* A link's MTU fits the media the link goes over (the clamping in inbound() and
\* the signalling of Link.py), on any path and whatever becomes of the paths.
THEOREM MtuCorrect == Spec => []MtuFits
<1>1. Init => MtuInv
  <2>1. SUFFICES ASSUME Init PROVE MtuInv
    OBVIOUS
  <2>2. OneRoute
    <3>1. SUFFICES ASSUME NEW n \in Nodes, route[n] # {} PROVE \E r \in Routes[n] : route[n] = {r}
      BY DEF OneRoute
    <3>2. PICK k \in Nodes : route[n] \in {{}} \cup {{r} : r \in Routes[k]}
      BY <2>1, <3>1 DEF Init
    <3>3. PICK r : route[n] = {r}
      BY <3>1, <3>2
    <3>4. r \in Routes[n]
      BY <2>1, <3>1, <3>3 DEF Init
    <3>5. QED
      BY <3>3, <3>4
  <2>3. QED
    BY <2>1, <2>2, NumbersAssumption DEF Init, MtuInv, MtuFits, NumbersAssumption
<1>2. TypeOK /\ MtuInv /\ [Next]_vars => MtuInv'
  <2>1. SUFFICES ASSUME TypeOK, MtuInv, [Next]_vars PROVE MtuInv'
    OBVIOUS
  <2>2. CASE UNCHANGED vars
    BY <2>1, <2>2 DEF vars, tables, ends, MtuInv, MtuFits, OneRoute
  <2>3. CASE Next
    BY <2>1, <2>3, SendFits, ForwardFits, ReceiveFits, TablesFits, NodesAssumption,
       NumbersAssumption DEF Next, Receive
  <2>4. QED
    BY <2>1, <2>2, <2>3
<1>3. MtuInv => MtuFits
  BY DEF MtuInv
<1>4. QED
  BY <1>1, <1>2, <1>3, TypeCorrect, PTL DEF Spec

-----------------------------------------------------------------------------
(***************************************************************************)
(* What the ends are given.  If the filter exempts none of the packets, a  *)
(* node that received or sent a link packet remembers it: what is rotated  *)
(* out of the hash list stays in the one before, and hash lists are not    *)
(* rotated twice here.                                                     *)
(***************************************************************************)

NoneExempt == Contexts \cap Exempt = {}

\* What the filter lets through is not known yet.
LEMMA PassesFresh ==
  ASSUME TypeOK, NoneExempt, NEW m \in net, Passes(m)
  PROVE  m.packet \notin Known(m.to)
<1>1. m.packet.context \in Contexts \cup {"NONE"}
  BY MessageFacts DEF TypeOK
<1>2. m.packet.context \notin Exempt
  BY <1>1 DEF NoneExempt, Exempt
<1>3. QED
  BY <1>2 DEF Passes, Known

\* A step forgets nothing.
LEMMA KnownGrows ==
  ASSUME TypeOK, MemoryInv, NoneExempt, Next
  PROVE  /\ \A n \in Nodes : Known(n) \subseteq Known(n)'
         /\ \A n \in Nodes : <<"ROTATE", n>> \notin past' => hashes_prev'[n] = {}
<1>1. CASE RequestLink \/ SendSingle
  BY <1>1 DEF RequestLink, SendSingle, Outbound, TypeOK, Known, MemoryInv, tables
<1>2. CASE \E e \in Ends : SendOnLink(e)
  BY <1>2 DEF SendOnLink, TypeOK, Known, MemoryInv, tables, Nodes
<1>3. CASE \E m \in net : Receive(m)
  <2>1. PICK m \in net : Receive(m)
    BY <1>3
  <2>2. UNCHANGED tables
    BY <2>1 DEF Receive, Filter, Forward, ForwardRequest, ForwardSingle, Repeat, TransportProof,
                ReturnProof, ReceiveAtEnd, AcceptRequest, ReceiveLinkProof, ReceiveOnLink,
                ReceiveSingle, ReceiveProof, Ignore
  <2>3. ASSUME Remember(m) PROVE \A n \in Nodes : hashes[n] \subseteq hashes'[n]
    BY <2>3 DEF Remember, TypeOK
  <2>4. \A n \in Nodes : hashes[n] \subseteq hashes'[n]
    <3>1. CASE ReceiveOnLink(m)
      <4>1. CASE m.on \in attached[m.to]
        BY <2>3, <3>1, <4>1 DEF ReceiveOnLink
      <4>2. CASE m.on \notin attached[m.to]
        <5>1. m.packet \notin hashes[m.to]
          BY <3>1, PassesFresh DEF ReceiveOnLink, Taken, Known
        <5>2. hashes' = [hashes EXCEPT ![m.to] = @ \ {m.packet}]
          BY <3>1, <4>2 DEF ReceiveOnLink
        <5>3. QED
          BY <5>1, <5>2 DEF TypeOK
      <4>3. QED
        BY <4>1, <4>2
    <3>2. CASE Forward(m)
      BY <2>3, <3>2 DEF Forward, ForwardRequest, ForwardSingle, Repeat, TransportProof,
                        ReturnProof, TypeOK
    <3>3. CASE Filter(m) \/ Ignore(m) \/ ReceiveProof(m)
      BY <2>3, <3>3 DEF Filter, Ignore, ReceiveProof
    <3>4. CASE AcceptRequest(m) \/ ReceiveLinkProof(m) \/ ReceiveSingle(m)
      BY <3>4 DEF AcceptRequest, ReceiveLinkProof, ReceiveSingle, TypeOK
    <3>5. QED
      BY <2>1, <3>1, <3>2, <3>3, <3>4 DEF Receive, ReceiveAtEnd
  <2>5. QED
    BY <2>2, <2>4 DEF tables, Known, MemoryInv
<1>4. CASE \E n \in Nodes : Rotate(n)
  <2>1. PICK n \in Nodes : Rotate(n)
    BY <1>4
  <2>2. hashes_prev[n] = {} /\ past' = past \cup {<<"ROTATE", n>>}
    BY <2>1 DEF Rotate, Mishap, MemoryInv
  <2>3. hashes_prev' = [hashes_prev EXCEPT ![n] = hashes[n]] /\ hashes' = [hashes EXCEPT ![n] = {}]
    BY <2>1 DEF Rotate
  <2>4. \A k \in Nodes : Known(k) \subseteq Known(k)'
    BY <2>2, <2>3 DEF Known, TypeOK
  <2>5. \A k \in Nodes : <<"ROTATE", k>> \notin past' => hashes_prev'[k] = {}
    BY <2>2, <2>3 DEF MemoryInv, TypeOK
  <2>6. QED
    BY <2>4, <2>5
<1>5. CASE \E n \in Nodes : Reroute(n)
  BY <1>5 DEF Reroute, Known, MemoryInv
<1>6. CASE \E n \in Relays : CullLink(n) \/ CullReverse(n)
  BY <1>6 DEF CullLink, CullReverse, Mishap, Known, MemoryInv
<1>7. QED
  BY <1>1, <1>2, <1>3, <1>4, <1>5, <1>6 DEF Next

\* What is new on its way, if anything: a packet that was, one that is neither single
\* nor of the link, a single one of the initiator, or one that its sender remembers.
LEMMA NetSource ==
  ASSUME TypeOK, Next, NEW x \in net'
  PROVE  \/ \E m \in net : x.packet = m.packet
         \/ x.packet.kind \notin {"DATA", "LINKDATA"}
         \/ x.packet.kind = "DATA" /\ x.packet.src = Initiator
         \/ x.packet.kind = "LINKDATA" /\ x.packet \in hashes'[x.packet.src]
<1>0. Initiator \in Ends /\ Destination \in Ends /\ Ends \subseteq Nodes
  BY DEF Ends, Nodes
<1>1. ASSUME NEW packet, NEW path, Outbound(packet, path), x \notin net
      PROVE  x.packet = packet
  <2>1. CASE route[Initiator] # {}
    <3>1. PICK r \in route[Initiator] :
            net' = net \cup Sent(Initiator, r.on, packet, Onward(r), 0, path \cap {r.on})
      BY <1>1, <2>1 DEF Outbound
    <3>2. x \in Sent(Initiator, r.on, packet, Onward(r), 0, path \cap {r.on})
      BY <1>1, <3>1
    <3>3. QED
      BY <3>2, SentFacts
  <2>2. CASE route[Initiator] = {}
    <3>1. PICK s \in Media : x \in Sent(Initiator, s, packet, {}, 0, path \cap {s})
      BY <1>1, <2>2 DEF Outbound
    <3>2. QED
      BY <3>1, SentFacts
  <2>3. QED
    BY <2>1, <2>2
<1>2. CASE RequestLink
  <2>1. [Plain("LINKREQUEST", Initiator, 1) EXCEPT !.mtu = Signalled].kind = "LINKREQUEST"
    BY DEF Plain
  <2>2. x \notin net => x.packet = [Plain("LINKREQUEST", Initiator, 1) EXCEPT !.mtu = Signalled]
    BY <1>1, <1>2 DEF RequestLink
  <2>3. QED
    BY <2>1, <2>2
<1>3. CASE SendSingle
  <2>1. x \notin net => x.packet = Plain("DATA", Initiator, singles + 1)
    BY <1>1, <1>3 DEF SendSingle
  <2>2. QED
    BY <2>1, <1>0, PlainType DEF TypeOK
<1>4. CASE \E e \in Ends : SendOnLink(e)
  <2>1. PICK e \in Ends : SendOnLink(e)
    BY <1>4
  <2>2. PICK s \in attached[e], context \in Contexts :
          LET packet == [Plain("LINKDATA", e, sent[e] + 1) EXCEPT !.context = context]
          IN  /\ net' = net \cup Sent(e, s, packet, {}, 0, {})
              /\ hashes' = [hashes EXCEPT ![e] = @ \cup {packet}]
    BY <2>1 DEF SendOnLink
  <2> DEFINE packet == [Plain("LINKDATA", e, sent[e] + 1) EXCEPT !.context = context]
  <2>3. packet.src = e /\ packet.kind = "LINKDATA"
    BY DEF Plain
  <2>4. net' = net \cup Sent(e, s, packet, {}, 0, {}) /\ hashes' = [hashes EXCEPT ![e] = @ \cup {packet}]
    BY <2>2
  <2> HIDE DEF packet
  <2>5. x \notin net => x.packet = packet
    BY <2>4, SentFacts
  <2>6. packet \in hashes'[e]
    BY <1>0, <2>4 DEF TypeOK
  <2>7. QED
    BY <2>3, <2>5, <2>6
<1>5. CASE \E m \in net : Receive(m)
  <2>1. PICK m \in net : Receive(m)
    BY <1>5
  <2>2. CASE Filter(m) \/ Ignore(m) \/ ReceiveOnLink(m) \/ ReceiveProof(m)
    BY <2>2 DEF Filter, Ignore, ReceiveOnLink, ReceiveProof
  <2>3. CASE ForwardSingle(m) \/ Repeat(m) \/ TransportProof(m) \/ ReturnProof(m)
    BY <2>3, SentFacts DEF ForwardSingle, Repeat, TransportProof, ReturnProof
  <2>4. CASE ForwardRequest(m)
    <3>1. m.packet \in Packet /\ m.packet.kind = "LINKREQUEST"
      BY <2>4, MessageFacts DEF TypeOK, ForwardRequest, InTransport
    <3>2. PICK size, r : net' = (net \ {m}) \cup
            Sent(m.to, r.on, [m.packet EXCEPT !.mtu = size], Onward(r), m.hops + 1, m.over \cup {r.on})
      BY <2>4 DEF ForwardRequest
    <3>3. x \notin net => x.packet = [m.packet EXCEPT !.mtu = size]
      BY <3>2, SentFacts
    <3>4. [m.packet EXCEPT !.mtu = size].kind = "LINKREQUEST"
      BY <3>1 DEF Packet
    <3>5. QED
      BY <3>3, <3>4
  <2>5. CASE AcceptRequest(m)
    <3> DEFINE proof == [Plain("LRPROOF", Destination, 1) EXCEPT !.mtu = Accepted(m)]
    <3>1. proof.kind = "LRPROOF"
      BY DEF Plain
    <3>2. net' = (net \ {m}) \cup Sent(Destination, m.on, proof, {}, 0, m.over)
      BY <2>5 DEF AcceptRequest
    <3> HIDE DEF proof
    <3>3. QED
      BY <3>1, <3>2, SentFacts
  <2>6. CASE ReceiveLinkProof(m)
    <3> DEFINE rtt == Plain("LINKDATA", Initiator, 0)
    <3>1. rtt.kind = "LINKDATA" /\ rtt.src = Initiator
      BY DEF Plain
    <3>2. net' = (net \ {m}) \cup Sent(Initiator, m.on, rtt, {}, 0, {})
      BY <2>6 DEF ReceiveLinkProof
    <3>3. rtt \in hashes'[Initiator]
      BY <2>6, <1>0 DEF ReceiveLinkProof, TypeOK
    <3> HIDE DEF rtt
    <3>4. QED
      BY <3>1, <3>2, <3>3, SentFacts
  <2>7. CASE ReceiveSingle(m)
    <3> DEFINE proof == Plain("PROOF", Destination, m.packet.num)
    <3>1. proof.kind = "PROOF"
      BY DEF Plain
    <3>2. net' = (net \ {m}) \cup Sent(Destination, m.on, proof, {}, 0, {})
      BY <2>7 DEF ReceiveSingle
    <3> HIDE DEF proof
    <3>3. QED
      BY <3>1, <3>2, SentFacts
  <2>8. QED
    BY <2>1, <2>2, <2>3, <2>4, <2>5, <2>6, <2>7 DEF Receive, Forward, ReceiveAtEnd
<1>6. CASE \E n \in Nodes : Reroute(n) \/ Rotate(n)
  BY <1>6 DEF Reroute, Rotate
<1>7. CASE \E n \in Relays : CullLink(n) \/ CullReverse(n)
  BY <1>7 DEF CullLink, CullReverse
<1>8. QED
  BY <1>2, <1>3, <1>4, <1>5, <1>6, <1>7 DEF Next

\* An end is given nothing it knows already, nor anything it sent.
LEMMA GivenOnce ==
  ASSUME TypeOK, MemoryInv, NoneExempt, Next,
         \A n \in Nodes : Known(n) \subseteq Known(n)'
  PROVE  /\ \A e \in Ends : received'[e] \subseteq Known(e)'
         /\ OnceFromPeer'
<1>0. Initiator \in Ends /\ Destination \in Ends /\ Ends \subseteq Nodes /\ Initiator # Destination
  BY NodesAssumption DEF Ends, Nodes, NodesAssumption
<1>1. CASE UNCHANGED <<received, again>>
  BY <1>0, <1>1 DEF MemoryInv, OnceFromPeer
<1>2. ASSUME NEW m \in net, m.to \in Ends, Taken(m), Give(m.to, m.packet),
             m.packet \in Known(m.to)', m.packet.src = Peer(m.to)
      PROVE  /\ \A e \in Ends : received'[e] \subseteq Known(e)'
             /\ OnceFromPeer'
  <2>1. m.packet \notin received[m.to]
    BY <1>2, PassesFresh DEF Taken, MemoryInv
  <2>2. again' = [again EXCEPT ![m.to] = @ \cup {}]
    BY <1>2, <2>1 DEF Give
  <2>3. received' = [received EXCEPT ![m.to] = @ \cup {m.packet}]
    BY <1>2 DEF Give
  <2>4. \A e \in Ends : received'[e] \subseteq Known(e)'
    BY <1>0, <1>2, <2>3 DEF MemoryInv, TypeOK
  <2>5. \A e \in Ends : again'[e] = {} /\ \A p \in received'[e] : p.src = Peer(e)
    BY <1>2, <2>2, <2>3 DEF MemoryInv, OnceFromPeer, TypeOK
  <2>6. QED
    BY <2>4, <2>5 DEF OnceFromPeer
<1>3. ASSUME NEW m \in net, ReceiveOnLink(m), m.on \in attached[m.to]
      PROVE  /\ \A e \in Ends : received'[e] \subseteq Known(e)'
             /\ OnceFromPeer'
  <2>1. m.to \in Ends /\ Taken(m) /\ Give(m.to, m.packet) /\ Remember(m) /\ m.packet.kind = "LINKDATA"
    BY <1>3 DEF ReceiveOnLink
  <2>2. m.packet \in hashes'[m.to]
    <3>1. m.to \notin Relays /\ m.to \in Nodes
      BY <2>1, NodesAssumption DEF NodesAssumption, Nodes
    <3>2. QED
      BY <2>1, <3>1 DEF Remember, Deferred, TypeOK
  <2>3. m.packet.src \in Ends
    BY MessageFacts DEF TypeOK
  <2>4. m.packet.src # m.to
    BY <2>1, PassesFresh DEF Taken, MemoryInv
  <2>5. m.packet.src = Peer(m.to)
    BY <2>1, <2>3, <2>4 DEF Peer, Ends
  <2>6. QED
    BY <1>2, <2>1, <2>2, <2>5 DEF Known
<1>4. ASSUME NEW m \in net, ReceiveSingle(m)
      PROVE  /\ \A e \in Ends : received'[e] \subseteq Known(e)'
             /\ OnceFromPeer'
  <2>1. m.to = Destination /\ Taken(m) /\ Give(m.to, m.packet) /\ m.packet.kind = "DATA"
    BY <1>4 DEF ReceiveSingle
  <2>2. m.packet \in hashes'[m.to]
    BY <1>0, <1>4, <2>1 DEF ReceiveSingle, TypeOK
  <2>3. m.packet.src = Peer(m.to)
    BY <1>0, <2>1 DEF MemoryInv, Peer
  <2>4. QED
    BY <1>0, <1>2, <2>1, <2>2, <2>3 DEF Known
<1>5. CASE \E m \in net : Receive(m)
  <2>1. PICK m \in net : Receive(m)
    BY <1>5
  <2>2. CASE Filter(m) \/ Forward(m) \/ Ignore(m)
    BY <1>1, <2>2 DEF Filter, Forward, ForwardRequest, ForwardSingle, Repeat, TransportProof,
                      ReturnProof, Ignore, ends
  <2>3. CASE AcceptRequest(m) \/ ReceiveLinkProof(m) \/ ReceiveProof(m)
    BY <1>1, <2>3 DEF AcceptRequest, ReceiveLinkProof, ReceiveProof
  <2>4. CASE ReceiveOnLink(m)
    <3>1. CASE m.on \in attached[m.to]
      BY <1>3, <2>4, <3>1
    <3>2. CASE m.on \notin attached[m.to]
      BY <1>1, <2>4, <3>2 DEF ReceiveOnLink
    <3>3. QED
      BY <3>1, <3>2
  <2>5. CASE ReceiveSingle(m)
    BY <1>4, <2>5
  <2>6. QED
    BY <2>1, <2>2, <2>3, <2>4, <2>5 DEF Receive, ReceiveAtEnd
<1>6. CASE RequestLink \/ SendSingle \/ \E e \in Ends : SendOnLink(e)
  BY <1>1, <1>6 DEF RequestLink, SendSingle, SendOnLink
<1>7. CASE \/ \E n \in Nodes : Reroute(n) \/ Rotate(n)
           \/ \E n \in Relays : CullLink(n) \/ CullReverse(n)
  BY <1>1, <1>7 DEF Reroute, Rotate, CullLink, CullReverse, ends
<1>8. QED
  BY <1>5, <1>6, <1>7 DEF Next

\* If no packet is exempt from the hash lists, an end is given what its peer sent,
\* and once, although relays repeat packets on the medium they came on and a hash
\* list may be rotated in between (packet_filter() and add_packet_hash()).
THEOREM OnceFromPeerCorrect == NoneExempt => (Spec => []OnceFromPeer)
<1>1. SUFFICES ASSUME NoneExempt PROVE Spec => []OnceFromPeer
  OBVIOUS
<1>2. Init => MemoryInv
  BY DEF Init, MemoryInv, OnceFromPeer, Known
<1>3. TypeOK /\ MemoryInv /\ [Next]_vars => MemoryInv'
  <2>1. SUFFICES ASSUME TypeOK, MemoryInv, [Next]_vars PROVE MemoryInv'
    OBVIOUS
  <2>2. CASE UNCHANGED vars
    BY <2>1, <2>2 DEF vars, tables, ends, MemoryInv, OnceFromPeer, Known
  <2>3. CASE Next
    <3>1. /\ \A n \in Nodes : Known(n) \subseteq Known(n)'
          /\ \A n \in Nodes : <<"ROTATE", n>> \notin past' => hashes_prev'[n] = {}
      BY <1>1, <2>1, <2>3, KnownGrows
    <3>2. /\ \A e \in Ends : received'[e] \subseteq Known(e)'
          /\ OnceFromPeer'
      BY <1>1, <2>1, <2>3, <3>1, GivenOnce
    <3>3. ASSUME NEW x \in net'
          PROVE  /\ x.packet.kind = "DATA" => x.packet.src = Initiator
                 /\ x.packet.kind = "LINKDATA" => x.packet \in Known(x.packet.src)'
      <4>1. CASE \E m \in net : x.packet = m.packet
        <5>1. PICK m \in net : x.packet = m.packet
          BY <4>1
        <5>2. m.packet.src \in Nodes
          BY MessageFacts, <2>1 DEF TypeOK, Nodes
        <5>3. m.packet.kind = "LINKDATA" => m.packet \in Known(m.packet.src)
          BY <2>1 DEF MemoryInv
        <5>4. QED
          BY <2>1, <3>1, <5>1, <5>2, <5>3 DEF MemoryInv
      <4>2. CASE x.packet.kind \notin {"DATA", "LINKDATA"}
        BY <4>2
      <4>3. CASE x.packet.kind = "DATA" /\ x.packet.src = Initiator
        BY <4>3
      <4>4. CASE x.packet.kind = "LINKDATA" /\ x.packet \in hashes'[x.packet.src]
        BY <4>4 DEF Known
      <4>5. QED
        BY <2>1, <2>3, <4>1, <4>2, <4>3, <4>4, NetSource
    <3>4. QED
      BY <3>1, <3>2, <3>3 DEF MemoryInv
  <2>4. QED
    BY <2>1, <2>2, <2>3
<1>4. MemoryInv => OnceFromPeer
  BY DEF MemoryInv
<1>5. QED
  BY <1>1, <1>2, <1>3, <1>4, TypeCorrect, PTL DEF Spec
=============================================================================
