------------------------------- MODULE Transit -------------------------------
(***************************************************************************)
(* How a link and single packets pass through the transport nodes between  *)
(* two ends (RNS/Transport.py: inbound(), outbound(), packet_filter(), the *)
(* link table, the reverse table and the packet hash list): link requests  *)
(* along the path tables, with the link's MTU clamped on the way, link     *)
(* proofs and link data along the link tables, proofs of single packets    *)
(* along the reverse tables.  A node has one interface on each medium it   *)
(* uses; who hears whom on a medium is a constant, so that a medium may be *)
(* a cable or a radio with hidden nodes.  The path tables are Paths' and   *)
(* change at any time here.  A packet may stay in net for ever, as if it   *)
(* was lost.                                                               *)
(***************************************************************************)
EXTENDS Integers, FiniteSets

CONSTANTS
  Initiator, Destination,
  Relays,         \* the nodes with transport enabled
  Media,
  Hears,          \* Hears[s]: the pairs <<a, b>> such that b hears a on s
  HW_MTU,         \* HW_MTU[s] of all interfaces on s, 0 for None
  Tuned,          \* the media with AUTOCONFIGURE_MTU or FIXED_MTU
  MTU,            \* Reticulum.MTU
  Routes,         \* Routes[n]: what the path table of n may hold for Destination
  PATHFINDER_M,
  Contexts,       \* the contexts of the packets sent over the link
  MaxPackets,     \* packets the ends send, single ones or over the link
  MaxReroutes,    \* changes of path tables
  MaxMishaps,     \* mishaps that occur
  Faults          \* the mishaps <<kind, n>> that may occur:
                  \*   "CULL_LINK"     the entry of n's link table times out
                  \*   "CULL_REVERSE"  the entries of n's reverse table time out
                  \*   "ROTATE"        n's packet hash list is at its limit

Ends  == {Initiator, Destination}
Nodes == Ends \cup Relays
Route == [via: Nodes, hops: 1 .. PATHFINDER_M, on: Media]

\* What the packet filter lets through whatever it remembers, of link packets.
Exempt == {"KEEPALIVE", "RESOURCE_REQ", "RESOURCE_PRF", "RESOURCE", "CACHE_REQUEST", "CHANNEL"}

ASSUME NodesAssumption ==
  /\ Initiator # Destination /\ Ends \cap Relays = {}
  /\ Hears \in [Media -> SUBSET (Nodes \X Nodes)]
  /\ Routes \in [Nodes -> SUBSET Route]
ASSUME NumbersAssumption ==
  /\ {MTU, PATHFINDER_M, MaxPackets, MaxReroutes, MaxMishaps} \subseteq Nat
  /\ HW_MTU \in [Media -> Nat] /\ \A s \in Media : HW_MTU[s] = 0 \/ HW_MTU[s] >= MTU
  /\ Tuned \subseteq {s \in Media : HW_MTU[s] # 0}
ASSUME ContextsAssumption == Contexts \subseteq {"NONE"} \cup Exempt
ASSUME FaultsAssumption   == Faults \subseteq {"CULL_LINK", "CULL_REVERSE", "ROTATE"} \X Nodes

VARIABLES
  route,        \* path_table: the entry for Destination, a set of at most one
  reroutes,
  hashes,       \* packet_hashlist
  hashes_prev,  \* packet_hashlist_prev
  link_table,   \* the entry for the link, a set of at most one
  reverse,      \* reverse_table
  status,       \* of the initiator's end of the link
  expected,     \* expected_hops
  attached,     \* attached_interface of the ends of the link
  mtu,          \* mtu of the ends of the link
  over,         \* the media the link request went over, as an end came to know
  sent,         \* how many packets an end sent over the link
  singles,      \* how many single packets were sent
  received,     \* what an end was given
  again,        \* what an end was given more than once
  proved,       \* the single packets whose proof the initiator has
  net,          \* packets on their way
  past          \* the mishaps there were

tables == <<route, reroutes, hashes_prev, past>>
ends   == <<status, expected, attached, mtu, over, sent, singles, received, again, proved>>
vars   == <<tables, hashes, link_table, reverse, ends, net>>

-----------------------------------------------------------------------------
(***************************************************************************)
(* State.                                                                  *)
(***************************************************************************)

\* A packet, as far as its hash depends on it: not on its hops, not on the next
\* transport node, but on the MTU a link request or proof signals (0 for none).
Packet == [kind: {"LINKREQUEST", "LRPROOF", "LINKDATA", "DATA", "PROOF"}, src: Ends,
           num: Nat, context: Contexts \cup {"NONE"}, mtu: Nat]

\* A packet that to will receive on its interface on; over is for the link's MTU.
Message == [packet: Packet, next: SUBSET Nodes, hops: Nat, to: Nodes, on: Media,
            over: SUBSET Media]

LinkEntry == [nh: Media, rem: Nat \ {0}, rcvd: Media, taken: Nat \ {0}, validated: BOOLEAN]
ReverseEntry == [num: Nat, rcvd: Media, outb: Media]

Plain(kind, e, num) == [kind |-> kind, src |-> e, num |-> num, context |-> "NONE", mtu |-> 0]
OnLink(p) == p.kind \in {"LINKDATA", "LRPROOF"}

Peer(e) == IF e = Initiator THEN Destination ELSE Initiator
Lowest(a, b) == IF a < b THEN a ELSE b

\* transmit() of node n on its interface s.
Sent(n, s, packet, next, hops, path) ==
  {[packet |-> packet, next |-> next, hops |-> hops, to |-> hearer[2], on |-> s, over |-> path] :
     hearer \in {pair \in Hears[s] : pair[1] = n}}

Onward(r) == IF r.hops > 1 THEN {r.via} ELSE {}

Mishap(kind, n) ==
  /\ <<kind, n>> \in Faults \ past
  /\ Cardinality(past) < MaxMishaps
  /\ past' = past \cup {<<kind, n>>}

Init ==
  /\ route \in [Nodes -> UNION {{{}} \cup {{r} : r \in Routes[n]} : n \in Nodes}]
  /\ \A n \in Nodes : route[n] \subseteq Routes[n]
  /\ reroutes = 0
  /\ hashes = [n \in Nodes |-> {}] /\ hashes_prev = [n \in Nodes |-> {}]
  /\ link_table = [n \in Relays |-> {}] /\ reverse = [n \in Relays |-> {}]
  /\ status = "NONE" /\ expected = 0
  /\ attached = [e \in Ends |-> {}] /\ mtu = [e \in Ends |-> MTU] /\ over = [e \in Ends |-> {}]
  /\ sent = [e \in Ends |-> 0] /\ singles = 0
  /\ received = [e \in Ends |-> {}] /\ again = [e \in Ends |-> {}] /\ proved = {}
  /\ net = {} /\ past = {}

\* A new announce, or a path that is lost.
Reroute(n) ==
  /\ reroutes < MaxReroutes /\ reroutes' = reroutes + 1
  /\ \E r \in {{}} \cup {{x} : x \in Routes[n]} : r # route[n] /\ route' = [route EXCEPT ![n] = r]
  /\ UNCHANGED <<hashes, hashes_prev, link_table, reverse, ends, net, past>>

-----------------------------------------------------------------------------
(***************************************************************************)
(* outbound().                                                             *)
(***************************************************************************)

\* A packet for the destination goes along the path; without one it is broadcast,
\* and only then is its hash remembered.  path: the media to be noted in over.
Outbound(packet, path) ==
  IF route[Initiator] # {}
    THEN /\ \E r \in route[Initiator] :
              net' = net \cup Sent(Initiator, r.on, packet, Onward(r), 0, path \cap {r.on})
         /\ UNCHANGED hashes
    ELSE /\ net' = net \cup UNION {Sent(Initiator, s, packet, {}, 0, path \cap {s}) : s \in Media}
         /\ hashes' = [hashes EXCEPT ![Initiator] = @ \cup {packet}]

\* The MTU a link request signals: that of the next hop's interface.
Signalled == IF \E r \in route[Initiator] : r.on \in Tuned
               THEN HW_MTU[(CHOOSE r \in route[Initiator] : TRUE).on] ELSE MTU

RequestLink ==
  /\ status = "NONE" /\ status' = "PENDING"
  /\ expected' = IF route[Initiator] = {} THEN PATHFINDER_M
                 ELSE (CHOOSE r \in route[Initiator] : TRUE).hops
  /\ Outbound([Plain("LINKREQUEST", Initiator, 1) EXCEPT !.mtu = Signalled], Media)
  /\ UNCHANGED <<tables, link_table, reverse, attached, mtu, over, sent, singles, received,
                 again, proved>>

MayStillSend == singles + sent[Initiator] + sent[Destination] < MaxPackets

SendSingle ==
  /\ MayStillSend /\ singles' = singles + 1
  /\ Outbound(Plain("DATA", Initiator, singles + 1), {})
  /\ UNCHANGED <<tables, link_table, reverse, status, expected, attached, mtu, over, sent,
                 received, again, proved>>

\* What is sent over a link leaves on the link's interface, and is remembered.
SendOnLink(e) ==
  /\ MayStillSend
  /\ IF e = Initiator THEN status = "ACTIVE"
     ELSE Plain("LINKDATA", Initiator, 0) \in received[Destination]
  /\ \E s \in attached[e], context \in Contexts :
       LET packet == [Plain("LINKDATA", e, sent[e] + 1) EXCEPT !.context = context]
       IN  /\ net' = net \cup Sent(e, s, packet, {}, 0, {})
           /\ hashes' = [hashes EXCEPT ![e] = @ \cup {packet}]
  /\ sent' = [sent EXCEPT ![e] = @ + 1]
  /\ UNCHANGED <<tables, link_table, reverse, status, expected, attached, mtu, over, singles,
                 received, again, proved>>

-----------------------------------------------------------------------------
(***************************************************************************)
(* inbound(): the filter.                                                  *)
(***************************************************************************)

\* mutant: the list before the last rotation is left out
PassesCurrent(m) ==
  /\ m.next # {} => m.to \in m.next
  /\ m.packet.context \in Exempt \/ m.packet \notin hashes[m.to]

\* packet_filter(): not for another transport node, and not seen before.
Passes(m) ==
  /\ m.next # {} => m.to \in m.next
  /\ \/ m.packet.context \in Exempt
     \/ m.packet \notin hashes[m.to] \cup hashes_prev[m.to]

\* What passes is remembered, but for link packets that may have to pass again.
Deferred(m) ==
  \/ m.packet.kind = "LRPROOF"
  \/ m.packet.kind = "LINKDATA" /\ m.to \in Relays /\ link_table[m.to] # {}

Remember(m) ==
  hashes' = IF Deferred(m) THEN hashes ELSE [hashes EXCEPT ![m.to] = @ \cup {m.packet}]

Taken(m) == m \in net /\ Passes(m)

Filter(m) ==
  /\ m \in net /\ ~Passes(m)
  /\ net' = net \ {m}
  /\ UNCHANGED <<tables, hashes, link_table, reverse, ends>>

-----------------------------------------------------------------------------
(***************************************************************************)
(* inbound(): the transport nodes.                                         *)
(***************************************************************************)

\* The MTU a request goes on with, of the interfaces it came and leaves on: none if
\* the latter has no MTU of its own.  (One that came on an interface without HW_MTU
\* and does not fit the next raises an error; it would have to signal more than MTU.)
Clamped(p, ph, nh, tuned) ==
  IF p = 0 \/ nh = 0 \/ ~tuned THEN 0
  ELSE IF nh < p \/ (ph # 0 /\ ph < p) THEN Lowest(nh, ph)
  ELSE p

Entry(m, r) ==
  [nh |-> r.on, rem |-> r.hops, rcvd |-> m.on, taken |-> m.hops + 1, validated |-> FALSE]

\* This node is the next hop of the packet.
InTransport(m, kind) == Taken(m) /\ m.packet.kind = kind /\ m.to \in Relays /\ m.to \in m.next

ForwardRequest(m) ==
  LET n == m.to IN
  /\ InTransport(m, "LINKREQUEST")
  /\ \E r \in route[n] :
       LET size == Clamped(m.packet.mtu, HW_MTU[m.on], HW_MTU[r.on], r.on \in Tuned)
       IN  /\ link_table' = [link_table EXCEPT ![n] = {Entry(m, r)}]
           /\ net' = (net \ {m}) \cup
                       Sent(n, r.on, [m.packet EXCEPT !.mtu = size], Onward(r), m.hops + 1,
                            m.over \cup {r.on})
  /\ Remember(m)
  /\ UNCHANGED <<tables, reverse, ends>>

ForwardSingle(m) ==
  LET n == m.to IN
  /\ InTransport(m, "DATA")
  /\ \E r \in route[n] :
       /\ reverse' = [reverse EXCEPT ![n] = {x \in @ : x.num # m.packet.num} \cup
                        {[num |-> m.packet.num, rcvd |-> m.on, outb |-> r.on]}]
       /\ net' = (net \ {m}) \cup Sent(n, r.on, m.packet, Onward(r), m.hops + 1, {})
  /\ Remember(m)
  /\ UNCHANGED <<tables, link_table, ends>>

\* mutant: a link that stays on one medium has one direction
OutwardOnly(m, entry) ==
  IF entry.nh = entry.rcvd
    THEN IF m.hops + 1 = entry.taken THEN {entry.nh} ELSE {}
  ELSE IF m.on = entry.nh /\ m.hops + 1 = entry.rem THEN {entry.rcvd}
  ELSE IF m.on = entry.rcvd /\ m.hops + 1 = entry.taken THEN {entry.nh}
  ELSE {}

\* The interface a packet of the link is repeated on, if it came as many hops as it
\* has to: the other one, or the only one, wherever it was heard.
Outward(m, entry) ==
  IF entry.nh = entry.rcvd
    THEN IF m.hops + 1 \in {entry.rem, entry.taken} THEN {entry.nh} ELSE {}
  ELSE IF m.on = entry.nh /\ m.hops + 1 = entry.rem THEN {entry.rcvd}
  ELSE IF m.on = entry.rcvd /\ m.hops + 1 = entry.taken THEN {entry.nh}
  ELSE {}

Repeat(m) ==
  LET n == m.to IN
  /\ Taken(m) /\ m.packet.kind = "LINKDATA" /\ n \in Relays
  /\ \E entry \in link_table[n] : \E s \in Outward(m, entry) :
       net' = (net \ {m}) \cup Sent(n, s, m.packet, {}, m.hops + 1, {})
  /\ hashes' = [hashes EXCEPT ![n] = @ \cup {m.packet}]
  /\ UNCHANGED <<tables, link_table, reverse, ends>>

\* The proof comes from where the request went, after as many hops as were left.
Expected(m, entry) == m.hops + 1 = entry.rem /\ m.on = entry.nh

TransportProof(m) ==
  LET n == m.to IN
  /\ Taken(m) /\ m.packet.kind = "LRPROOF" /\ n \in Relays
  /\ \E entry \in link_table[n] :
       /\ Expected(m, entry)
       /\ link_table' = [link_table EXCEPT ![n] = {[entry EXCEPT !.validated = TRUE]}]
       /\ net' = (net \ {m}) \cup Sent(n, entry.rcvd, m.packet, {}, m.hops + 1, m.over)
  /\ UNCHANGED <<tables, hashes, reverse, ends>>

\* The entry is gone whether or not the proof came from where the packet went.
ReturnProof(m) ==
  LET n == m.to IN
  /\ Taken(m) /\ m.packet.kind = "PROOF" /\ n \in Relays
  /\ \E entry \in reverse[n] :
       /\ entry.num = m.packet.num
       /\ reverse' = [reverse EXCEPT ![n] = @ \ {entry}]
       /\ net' = (net \ {m}) \cup
                   IF m.on = entry.outb THEN Sent(n, entry.rcvd, m.packet, {}, m.hops + 1, {}) ELSE {}
  /\ Remember(m)
  /\ UNCHANGED <<tables, link_table, ends>>

-----------------------------------------------------------------------------
(***************************************************************************)
(* inbound(): the ends.                                                    *)
(***************************************************************************)

\* An end is given a packet.
Give(e, packet) ==
  /\ received' = [received EXCEPT ![e] = @ \cup {packet}]
  /\ again' = [again EXCEPT ![e] = @ \cup ({packet} \cap received[e])]

InterfaceMtu(s) == IF s \in Tuned THEN HW_MTU[s] ELSE MTU

\* mutant: what the request signals is not looked at
AcceptedHere(m) ==
  IF m.packet.mtu = 0 \/ HW_MTU[m.on] = 0 THEN MTU ELSE InterfaceMtu(m.on)

\* The MTU the destination accepts.
Accepted(m) ==
  IF m.packet.mtu = 0 \/ HW_MTU[m.on] = 0 THEN MTU ELSE Lowest(m.packet.mtu, InterfaceMtu(m.on))

\* Link.validate_request(): the proof leaves on the interface the request came on.
\* A request that comes once more, clamped otherwise, makes one more Link of that
\* id; only their interfaces are told apart here.
AcceptRequest(m) ==
  LET proof == [Plain("LRPROOF", Destination, 1) EXCEPT !.mtu = Accepted(m)]
  IN  /\ Taken(m) /\ m.packet.kind = "LINKREQUEST" /\ m.to = Destination
      /\ attached' = [attached EXCEPT ![Destination] = @ \cup {m.on}]
      /\ mtu' = [mtu EXCEPT ![Destination] = Accepted(m)]
      /\ over' = [over EXCEPT ![Destination] = m.over]
      /\ net' = (net \ {m}) \cup Sent(Destination, m.on, proof, {}, 0, m.over)
      /\ hashes' = [hashes EXCEPT ![Destination] = @ \cup {m.packet, proof}]
      /\ UNCHANGED <<tables, link_table, reverse, status, expected, sent, singles, received, again,
                     proved>>

\* Link.validate_proof(), and the round-trip time that is sent at once.
ReceiveLinkProof(m) ==
  LET rtt == Plain("LINKDATA", Initiator, 0) IN
  /\ Taken(m) /\ m.packet.kind = "LRPROOF" /\ m.to = Initiator
  /\ status = "PENDING" /\ expected \in {m.hops + 1, PATHFINDER_M}
  /\ status' = "ACTIVE"
  /\ attached' = [attached EXCEPT ![Initiator] = {m.on}]
  /\ mtu' = [mtu EXCEPT ![Initiator] = m.packet.mtu]
  /\ over' = [over EXCEPT ![Initiator] = m.over]
  /\ net' = (net \ {m}) \cup Sent(Initiator, m.on, rtt, {}, 0, {})
  /\ hashes' = [hashes EXCEPT ![Initiator] = @ \cup {m.packet, rtt}]
  /\ UNCHANGED <<tables, link_table, reverse, expected, sent, singles, received, again, proved>>

\* A packet of the link on another interface is forgotten again.
ReceiveOnLink(m) ==
  LET e == m.to IN
  /\ Taken(m) /\ m.packet.kind = "LINKDATA" /\ e \in Ends /\ attached[e] # {}
  /\ IF m.on \in attached[e]
       THEN Give(e, m.packet) /\ Remember(m)
       ELSE /\ hashes' = [hashes EXCEPT ![e] = @ \ {m.packet}]
            /\ UNCHANGED <<received, again>>
  /\ net' = net \ {m}
  /\ UNCHANGED <<tables, link_table, reverse, status, expected, attached, mtu, over, sent,
                 singles, proved>>

\* The destination proves what it receives, on the interface it came on.
ReceiveSingle(m) ==
  LET proof == Plain("PROOF", Destination, m.packet.num) IN
  /\ Taken(m) /\ m.packet.kind = "DATA" /\ m.to = Destination
  /\ Give(Destination, m.packet)
  /\ net' = (net \ {m}) \cup Sent(Destination, m.on, proof, {}, 0, {})
  /\ hashes' = [hashes EXCEPT ![Destination] = @ \cup {m.packet, proof}]
  /\ UNCHANGED <<tables, link_table, reverse, status, expected, attached, mtu, over, sent,
                 singles, proved>>

ReceiveProof(m) ==
  /\ Taken(m) /\ m.packet.kind = "PROOF" /\ m.to = Initiator
  /\ proved' = proved \cup {m.packet.num}
  /\ net' = net \ {m}
  /\ Remember(m)
  /\ UNCHANGED <<tables, link_table, reverse, status, expected, attached, mtu, over, sent,
                 singles, received, again>>

\* Anything else is remembered at most.
Meant(m) ==
  LET p == m.packet  n == m.to IN
  CASE n \in Relays /\ p.kind \in {"LINKREQUEST", "DATA"} -> n \in m.next /\ route[n] # {}
    [] n \in Relays /\ p.kind = "LINKDATA" -> \E entry \in link_table[n] : Outward(m, entry) # {}
    [] n \in Relays /\ p.kind = "LRPROOF" -> \E entry \in link_table[n] : Expected(m, entry)
    [] n \in Relays /\ p.kind = "PROOF" -> \E entry \in reverse[n] : entry.num = p.num
    [] n = Destination -> p.kind \in {"LINKREQUEST", "DATA"} \/ (p.kind = "LINKDATA" /\ attached[n] # {})
    [] n = Initiator -> \/ p.kind = "PROOF"
                        \/ p.kind = "LINKDATA" /\ attached[n] # {}
                        \/ p.kind = "LRPROOF" /\ status = "PENDING" /\ expected \in {m.hops + 1, PATHFINDER_M}

Ignore(m) ==
  /\ Taken(m) /\ ~Meant(m)
  /\ net' = net \ {m}
  /\ Remember(m)
  /\ UNCHANGED <<tables, link_table, reverse, ends>>

-----------------------------------------------------------------------------
(***************************************************************************)
(* jobs(): tables that are culled.                                         *)
(***************************************************************************)

CullLink(n) ==
  /\ link_table[n] # {} /\ Mishap("CULL_LINK", n)
  /\ link_table' = [link_table EXCEPT ![n] = {}]
  /\ UNCHANGED <<route, reroutes, hashes, hashes_prev, reverse, ends, net>>

CullReverse(n) ==
  /\ reverse[n] # {} /\ Mishap("CULL_REVERSE", n)
  /\ reverse' = [reverse EXCEPT ![n] = {}]
  /\ UNCHANGED <<route, reroutes, hashes, hashes_prev, link_table, ends, net>>

\* The hash list is full: what was remembered stays so for another generation.
Rotate(n) ==
  /\ hashes[n] # {} /\ Mishap("ROTATE", n)
  /\ hashes_prev' = [hashes_prev EXCEPT ![n] = hashes[n]]
  /\ hashes' = [hashes EXCEPT ![n] = {}]
  /\ UNCHANGED <<route, reroutes, link_table, reverse, ends, net>>

-----------------------------------------------------------------------------
Forward(m) ==
  ForwardRequest(m) \/ ForwardSingle(m) \/ Repeat(m) \/ TransportProof(m) \/ ReturnProof(m)
ReceiveAtEnd(m) ==
  \/ AcceptRequest(m) \/ ReceiveLinkProof(m) \/ ReceiveOnLink(m)
  \/ ReceiveSingle(m) \/ ReceiveProof(m)
Receive(m) == Filter(m) \/ Forward(m) \/ ReceiveAtEnd(m) \/ Ignore(m)

Next ==
  \/ RequestLink \/ SendSingle
  \/ \E e \in Ends : SendOnLink(e)
  \/ \E m \in net : Receive(m)
  \/ \E n \in Nodes : Reroute(n) \/ Rotate(n)
  \/ \E n \in Relays : CullLink(n) \/ CullReverse(n)

Spec == Init /\ [][Next]_vars

\* The interfaces hand in what they receive.
FairSpec == Spec /\ WF_vars(\E m \in net : Receive(m))

-----------------------------------------------------------------------------
(***************************************************************************)
(* Properties.                                                             *)
(***************************************************************************)

TypeOK ==
  /\ route \in [Nodes -> SUBSET Route] /\ reroutes \in Nat
  /\ hashes \in [Nodes -> SUBSET Packet] /\ hashes_prev \in [Nodes -> SUBSET Packet]
  /\ link_table \in [Relays -> SUBSET LinkEntry] /\ reverse \in [Relays -> SUBSET ReverseEntry]
  /\ status \in {"NONE", "PENDING", "ACTIVE"} /\ expected \in Nat
  /\ attached \in [Ends -> SUBSET Media] /\ mtu \in [Ends -> Nat] /\ over \in [Ends -> SUBSET Media]
  /\ sent \in [Ends -> Nat] /\ singles \in Nat /\ proved \subseteq Nat
  /\ received \in [Ends -> SUBSET Packet] /\ again \in [Ends -> SUBSET Packet]
  /\ net \subseteq Message

\* An end is given what its peer sent, and each packet once, although relays repeat
\* packets on the medium they came on and hash lists are rotated in between.
OnceFromPeer == \A e \in Ends : again[e] = {} /\ \A p \in received[e] : p.src = Peer(e)

\* A link's MTU fits every medium the link goes over, unless it is the MTU that
\* any medium has to carry.
MtuFits == \A e \in Ends : mtu[e] <= MTU \/ \A s \in over[e] : mtu[e] <= HW_MTU[s]

\* What an end sends over the link reaches the other one, whatever becomes of the
\* path tables meanwhile, and the proof of a single packet that arrived comes back.
Carries ==
  <>(past # {}) \/ <>[](/\ \A e \in Ends : \A i \in 1 .. sent[e] :
                             \E p \in received[Peer(e)] : p.kind = "LINKDATA" /\ p.num = i
                        /\ \A p \in received[Destination] : p.kind = "DATA" => p.num \in proved)
=============================================================================
