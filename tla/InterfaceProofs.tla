--------------------------- MODULE InterfaceProofs ----------------------------
(***************************************************************************)
(* Proofs about what runs on the two kinds of interface that come back by  *)
(* themselves.  Tunnels: the types, that the announce behind each path is  *)
(* in the cache, and that the identity of a destination with a path is     *)
(* known, over crashes between the saving of the files.  Driver: that its  *)
(* threads do not get in each other's way, and that there always is one.   *)
(***************************************************************************)
EXTENDS Tunnels, RadioThreads, TLAPS, SequenceTheorems, FiniteSetTheorems

\* Without an overlap no cleaning works with a list of active announces made before.
CacheInv == "OVERLAP" \notin past => cleaning = {} /\ Active \subseteq cache

\* Nothing is being saved while the program does not run.
DownInv == ~up => saver = "NONE" /\ path = {} /\ tunnel = {}

\* A program that does not know the identity knows no path, and had none to save.
IgnoranceInv ==
  up /\ ~known =>
    /\ path = {} /\ SavedTunnels = {} /\ UNION open = {}
    /\ \A f \in Files : disk[f] = {}

NoPathSaved == disk["PATHS"] = {} /\ disk["TUNNELS"] = {}

\* When no save is under way, and whenever the file of the identities is about to be
\* written empty, no path is on disk whose destination's identity is not.
SavedInv ==
  /\ saver = "NONE" /\ disk["KNOWN"] = {} => NoPathSaved
  /\ saver = "KNOWN" /\ {} \in open => NoPathSaved

KnownInv == DownInv /\ ("TORN" \notin past => IgnoranceInv /\ SavedInv)

-----------------------------------------------------------------------------
(***************************************************************************)
(* Types.                                                                  *)
(***************************************************************************)

\* Everything starts empty.
LEMMA InitType == NumbersAssumption /\ Init => TypeOK
<1> SUFFICES ASSUME NumbersAssumption, Init PROVE TypeOK
  OBVIOUS
<1>1. ClientType /\ StatusType
  <2>1. 0 \in 0 .. MaxEmitted /\ 0 \in 0 .. MaxMishaps
    BY DEF NumbersAssumption
  <2>2. ClientType
    <3>1. conn = 0 /\ tunnelling = 0 /\ 0 \in 0 .. 0
      BY DEF Init
    <3>2. tunnelling \in 0 .. conn
      BY <3>1
    <3>3. QED
      BY <2>1, <3>1, <3>2 DEF Init, ClientType
  <2>3. StatusType
    BY <2>1 DEF Init, StatusType
  <2>4. QED
    BY <2>2, <2>3
<1>2. WireType
  <2>1. << >> \in Seq({SYNTHESIZE} \cup Announces)
    BY EmptySeq
  <2>2. QED
    BY <2>1 DEF Init, WireType
<1>3. TableType
  BY DEF Init, TableType, AtMostOne
<1>4. FileType
  BY DEF Init, FileType, AtMostOne, Stored, Files
<1>5. QED
  BY <1>1, <1>2, <1>3, <1>4 DEF TypeOK

\* The variables of the client and of what it passes on.
LEMMA ClientStep == NumbersAssumption /\ ClientType /\ [Next]_vars => ClientType'
<1> SUFFICES ASSUME NumbersAssumption, ClientType, [Next]_vars PROVE ClientType'
  OBVIOUS
<1>1. ASSUME UNCHANGED <<client, emitted, overheard>> PROVE ClientType'
  BY <1>1 DEF ClientType, client
<1>2. CASE Connect
  BY <1>2 DEF Connect, ClientType, Connections, NumbersAssumption, rest
<1>3. CASE Announce
  <2>1. emitted' \in 0 .. MaxEmitted
    BY <1>3 DEF Announce, ClientType, NumbersAssumption
  <2>2. online' \in BOOLEAN /\ OUT' \in BOOLEAN
    BY <1>3 DEF Announce, Transmit, TearDown, ClientType
  <2>3. QED
    BY <1>3, <2>1, <2>2 DEF Announce, ClientType
<1>4. CASE Synthesize
  <2>1. tunnelling' \in 0 .. conn'
    BY <1>4 DEF Synthesize, ClientType, Connections, NumbersAssumption
  <2>2. QED
    BY <1>4, <2>1 DEF Synthesize, Transmit, TearDown, ClientType, rest
<1>5. CASE Lost
  BY <1>5 DEF Lost, ClientType, rest
<1>6. CASE Overhear
  BY <1>6 DEF Overhear, ClientType, client, NumbersAssumption
<1>7. CASE UNCHANGED vars
  BY <1>1, <1>7 DEF vars, rest
<1>8. CASE Break \/ (\E c \in Connections : Receive(c) \/ Teardown(c)) \/ Cull \/ ExpireTunnel
           \/ CleanCache \/ CleanOverlapping \/ CleanOverlapped
  BY <1>1, <1>8 DEF Break, Receive, Teardown, Cull, ExpireTunnel, CleanCache, CleanOverlapping,
                    CleanOverlapped, rest
<1>9. CASE PersistData \/ Open \/ Close \/ Stop \/ Crash \/ Start
  BY <1>1, <1>9 DEF PersistData, Open, Close, Stop, Crash, Start, rest
<1>10. QED
  BY <1>2, <1>3, <1>4, <1>5, <1>6, <1>7, <1>8, <1>9 DEF Next

\* What is on its way, and the interfaces of the connections.
LEMMA WireStep == NumbersAssumption /\ TypeOK /\ [Next]_vars => WireType'
<1> SUFFICES ASSUME NumbersAssumption, TypeOK, [Next]_vars PROVE WireType'
  OBVIOUS
<1> USE DEF TypeOK
<1> DEFINE Packets == {SYNTHESIZE} \cup Announces
<1>1. ASSUME UNCHANGED <<queue, cut, tunnel_id, spawned, conn>> PROVE WireType'
  BY <1>1 DEF WireType
<1>2. << >> \in Seq(Packets) /\ \A c \in Connections : queue[c] \in Seq(Packets)
  BY EmptySeq DEF WireType
<1>3. conn \in Nat
  BY DEF ClientType, Connections, NumbersAssumption
<1>4. ASSUME NEW packet \in Packets, Transmit(packet), UNCHANGED <<cut, tunnel_id, spawned, conn>>
      PROVE  WireType'
  <2>1. CASE queue' = queue
    BY <1>1, <1>4, <2>1
  <2>2. CASE queue' = [queue EXCEPT ![conn] = Append(@, packet)]
    <3>1. conn \in Connections => Append(queue[conn], packet) \in Seq(Packets)
      BY <1>2, <1>4, AppendProperties
    <3>2. queue' \in [Connections -> Seq(Packets)]
      BY <2>2, <3>1 DEF WireType
    <3>3. QED
      BY <1>4, <3>2 DEF WireType
  <2>3. QED
    BY <1>4, <2>1, <2>2 DEF Transmit
<1>5. CASE Connect
  <2>1. /\ conn' = conn + 1 /\ conn' \in Connections /\ spawned' = [spawned EXCEPT ![conn + 1] = "LISTED"]
        /\ UNCHANGED <<queue, cut, tunnel_id>>
    BY <1>5 DEF Connect, Spawn, tables
  <2>2. \A c \in Connections : c \in Nat
    BY DEF Connections, NumbersAssumption
  <2>3. 1 .. conn \subseteq 1 .. conn'
    BY <1>3, <2>1
  <2>4. \A c \in Connections : spawned'[c] # "NONE" => c <= conn'
    BY <1>3, <2>1, <2>2 DEF WireType
  <2>5. QED
    BY <2>1, <2>3, <2>4 DEF WireType
<1>6. CASE Announce
  <2>1. emitted' \in Packets
    BY <1>6 DEF Announce, Announces, ClientType, NumbersAssumption
  <2>2. QED
    BY <1>4, <1>6, <2>1 DEF Announce, tables
<1>7. CASE Synthesize
  BY <1>4, <1>7 DEF Synthesize, tables
<1>8. CASE Lost
  BY <1>1, <1>8 DEF Lost, tables
<1>9. CASE Break
  <2>1. PICK q \in {queue[conn], << >>} : queue' = [queue EXCEPT ![conn] = q]
    BY <1>9 DEF Break
  <2>2. conn \in 1 .. conn /\ conn \in Connections
    BY <1>3, <1>9 DEF Break, ClientType
  <2>3. queue' \in [Connections -> Seq(Packets)]
    BY <1>2, <2>1, <2>2 DEF WireType
  <2>4. cut' \subseteq 1 .. conn /\ UNCHANGED <<conn, tunnel_id, spawned>>
    BY <1>9, <2>2 DEF Break, WireType, client, tables
  <2>5. QED
    BY <2>3, <2>4 DEF WireType
<1>10. ASSUME NEW c \in Connections, Receive(c) PROVE WireType'
  <2>1. conn' = conn /\ spawned[c] = "LISTED" /\ queue[c] # << >>
    BY <1>10 DEF Receive, client
  <2>2. c \in 1 .. conn
    BY <1>3, <2>1 DEF WireType, Connections, NumbersAssumption
  <2>3. queue' \in [Connections -> Seq(Packets)]
    <3>1. Tail(queue[c]) \in Seq(Packets)
      BY <1>2, <2>1, HeadTailProperties
    <3>2. PICK q \in {<< >>, Tail(queue[c])} : queue' = [queue EXCEPT ![c] = q]
      BY <1>10 DEF Receive
    <3>3. QED
      BY <1>2, <3>1, <3>2 DEF WireType
  <2>4. cut' \subseteq cut \cup {c} /\ tunnel_id' \subseteq tunnel_id \cup {c}
    BY <1>10 DEF Receive, HandleTunnel, ReceiveAnnounce
  <2>5. spawned' \in {spawned, [spawned EXCEPT ![c] = "GONE"]}
    BY <1>10 DEF Receive, HandleTunnel, ReceiveAnnounce
  <2>6. QED
    BY <1>3, <2>1, <2>2, <2>3, <2>4, <2>5 DEF WireType
<1>11. ASSUME NEW c \in Connections, Teardown(c) PROVE WireType'
  BY <1>11 DEF Teardown, WireType, client, tables
<1>12. CASE Overhear \/ Cull \/ ExpireTunnel \/ CleanCache \/ CleanOverlapping \/ CleanOverlapped
            \/ PersistData \/ Open
  BY <1>1, <1>12 DEF Overhear, Cull, ExpireTunnel, CleanCache, CleanOverlapping, CleanOverlapped,
                     PersistData, Open, client, tables
<1>13. ASSUME Ended, conn' = conn PROVE WireType'
  <2>1. queue' \in [Connections -> Seq(Packets)]
    BY <1>2, <1>13 DEF Ended
  <2>2. /\ spawned' \in [Connections -> {"NONE", "LISTED", "GONE"}]
        /\ \A c \in Connections : spawned'[c] # "NONE" => c <= conn
    BY <1>13 DEF Ended, WireType
  <2>3. cut' \subseteq 1 .. conn /\ tunnel_id' = {}
    BY <1>13 DEF Ended, WireType
  <2>4. QED
    BY <1>13, <2>1, <2>2, <2>3 DEF WireType
<1>14. CASE Close
  BY <1>1, <1>13, <1>14 DEF Close, client
<1>15. CASE Stop
  <2>1. PICK detached \in SUBSET (1 .. conn) :
          /\ cut' = cut \cup detached
          /\ queue' = [c \in Connections |-> IF c \in detached THEN << >> ELSE queue[c]]
    BY <1>15 DEF Stop, Detach
  <2>2. queue' \in [Connections -> Seq(Packets)]
    BY <1>2, <2>1
  <2>3. QED
    BY <1>15, <2>1, <2>2 DEF Stop, WireType, client, tables
<1>16. CASE Crash
  BY <1>13, <1>16 DEF Crash, client
<1>17. CASE Start
  BY <1>1, <1>17 DEF Start, client
<1>18. CASE UNCHANGED vars
  BY <1>1, <1>18 DEF vars, client, tables
<1>19. QED
  BY <1>5, <1>6, <1>7, <1>8, <1>9, <1>10, <1>11, <1>12, <1>14, <1>15, <1>16, <1>17, <1>18 DEF Next

\* One path, made of an announce over an interface.
LEMMA PathType ==
  ASSUME NEW via \in {Lan} \cup Connections, NEW h \in Nat, NEW e \in Announces
  PROVE  [interface |-> via, hops |-> h, emission |-> e] \in Paths
BY DEF Paths

\* A tunnel whose path or interface is another.
LEMMA TunnelType ==
  ASSUME TableType, NEW t \in tunnel, NEW over \in SUBSET Connections, NEW e \in SUBSET Announces
  PROVE  /\ [t EXCEPT !.path = e] \in [interface : SUBSET Connections, path : SUBSET Announces]
         /\ [t EXCEPT !.path = e].path = e /\ [t EXCEPT !.path = e].interface = t.interface
         /\ [t EXCEPT !.interface = over] \in [interface : SUBSET Connections, path : SUBSET Announces]
         /\ [t EXCEPT !.interface = over].path = t.path
BY DEF TableType

\* What arrives over a connection, if it is no tunnel packet, is an announce.
LEMMA HeadType ==
  ASSUME WireType, NEW c \in Connections, queue[c] # << >>, Head(queue[c]) # SYNTHESIZE
  PROVE  Head(queue[c]) \in Announces
<1>1. queue[c] \in Seq({SYNTHESIZE} \cup Announces)
  BY DEF WireType
<1>2. QED
  BY <1>1, HeadTailProperties

\* The paths, the tunnel and the cache.
LEMMA TableStep == NumbersAssumption /\ TypeOK /\ [Next]_vars => TableType'
<1> SUFFICES ASSUME NumbersAssumption, TypeOK, [Next]_vars PROVE TableType'
  OBVIOUS
<1>1. TableType /\ WireType /\ ClientType /\ FileType
  BY DEF TypeOK
<1>2. ASSUME UNCHANGED <<path, tunnel>>, cache' \subseteq cache PROVE TableType'
  BY <1>1, <1>2 DEF TableType, AtMostOne
<1>3. ASSUME NEW c \in Connections, Receive(c) PROVE TableType'
  <2>1. CASE HandleTunnel(c)
    <3>1. CASE tunnel = {}
      BY <1>1, <2>1, <3>1 DEF HandleTunnel, TableType, AtMostOne
    <3>2. CASE tunnel # {}
      <4>1. PICK t \in tunnel :
              LET restored == {e \in t.path : \A p \in path : TunnelHops <= p.hops}
              IN /\ tunnel' = {[interface |-> {c}, path |-> restored]}
                 /\ path' = IF restored = {} THEN path
                            ELSE {[interface |-> c, hops |-> TunnelHops, emission |-> e] : e \in restored}
        BY <2>1, <3>2 DEF HandleTunnel
      <4> DEFINE restored == {e \in t.path : \A p \in path : TunnelHops <= p.hops}
                 made == {[interface |-> c, hops |-> TunnelHops, emission |-> e] : e \in restored}
      <4>2. restored \in SUBSET Announces /\ AtMostOne(restored)
        BY <1>1 DEF TableType, AtMostOne
      <4>3. made \subseteq Paths /\ AtMostOne(made)
        BY <4>2, PathType DEF NumbersAssumption, AtMostOne
      <4>4. path' \subseteq Paths /\ AtMostOne(path')
        BY <1>1, <4>1, <4>3 DEF TableType
      <4>5. /\ tunnel' \subseteq [interface : SUBSET Connections, path : SUBSET Announces]
            /\ AtMostOne(tunnel') /\ \A u \in tunnel' : AtMostOne(u.path)
        BY <4>1, <4>2 DEF AtMostOne
      <4>6. cache' = cache
        BY <2>1 DEF HandleTunnel
      <4>7. QED
        BY <1>1, <4>4, <4>5, <4>6 DEF TableType
    <3>3. QED
      BY <3>1, <3>2
  <2>2. CASE ReceiveAnnounce(c) /\ Head(queue[c]) # SYNTHESIZE
    <3> DEFINE e == Head(queue[c])
    <3>1. e \in Announces
      BY <1>1, <1>3, <2>2, HeadType DEF Receive
    <3>2. CASE Accepts(e)
      <4>1. path' = {[interface |-> c, hops |-> TunnelHops, emission |-> e]} /\ cache' = cache \cup {e}
            /\ tunnel' \in {Tunneled(c, e), tunnel}
        BY <2>2, <3>2 DEF ReceiveAnnounce
      <4>2. path' \subseteq Paths /\ AtMostOne(path')
        BY <3>1, <4>1, PathType DEF NumbersAssumption, AtMostOne
      <4>3. Tunneled(c, e) = {[t EXCEPT !.path = {e}] : t \in tunnel}
        BY DEF Tunneled
      <4>4. /\ Tunneled(c, e) \subseteq [interface : SUBSET Connections, path : SUBSET Announces]
            /\ AtMostOne(Tunneled(c, e)) /\ \A u \in Tunneled(c, e) : AtMostOne(u.path)
        <5> HIDE DEF e
        <5>1. \A t \in tunnel :
                /\ [t EXCEPT !.path = {e}] \in [interface : SUBSET Connections, path : SUBSET Announces]
                /\ [t EXCEPT !.path = {e}].path = {e}
          BY <1>1, <3>1, TunnelType
        <5>2. \A x, y \in tunnel : x = y
          BY <1>1 DEF TableType, AtMostOne
        <5>3. QED
          BY <4>3, <5>1, <5>2 DEF AtMostOne
      <4>5. QED
        BY <1>1, <3>1, <4>1, <4>2, <4>4 DEF TableType
    <3>3. CASE ~Accepts(e)
      BY <1>2, <2>2, <3>3 DEF ReceiveAnnounce
    <3>4. QED
      BY <3>2, <3>3
  <2>3. QED
    BY <1>3, <2>1, <2>2 DEF Receive
<1>4. CASE Overhear
  <2>1. PICK e \in (1 .. emitted) \ overheard, h \in LanHops :
          \/ /\ cache' = cache \cup {e}
             /\ path' = {[interface |-> Lan, hops |-> h, emission |-> e]}
          \/ UNCHANGED <<cache, path>>
    BY <1>4 DEF Overhear
  <2>2. e \in Announces /\ h \in Nat
    BY <1>1 DEF ClientType, Announces, NumbersAssumption
  <2>3. [interface |-> Lan, hops |-> h, emission |-> e] \in Paths
    BY <2>2, PathType
  <2>4. tunnel' = tunnel
    BY <1>4 DEF Overhear
  <2>5. QED
    BY <1>1, <2>1, <2>2, <2>3, <2>4 DEF TableType, AtMostOne
<1>5. CASE Cull
  <2> DEFINE kept(t) == [t EXCEPT !.interface = {c \in t.interface : Listed(c)}]
  <2>1. path' \subseteq path /\ cache' = cache /\ tunnel' = {kept(t) : t \in tunnel}
    BY <1>5 DEF Cull
  <2>2. ASSUME NEW t \in tunnel
        PROVE  /\ kept(t) \in [interface : SUBSET Connections, path : SUBSET Announces]
               /\ kept(t).path = t.path
    <3> DEFINE over == {c \in t.interface : Listed(c)}
    <3>1. over \in SUBSET Connections
      BY <1>1 DEF TableType
    <3> HIDE DEF over
    <3>2. /\ [t EXCEPT !.interface = over] \in [interface : SUBSET Connections, path : SUBSET Announces]
          /\ [t EXCEPT !.interface = over].path = t.path
      BY <1>1, <3>1, TunnelType
    <3>3. QED
      BY <3>2 DEF over
  <2> HIDE DEF kept
  <2>3. QED
    BY <1>1, <2>1, <2>2 DEF TableType, AtMostOne
<1>6. CASE ExpireTunnel
  BY <1>1, <1>6 DEF ExpireTunnel, TableType, AtMostOne
<1>7. CASE Connect \/ Announce \/ Synthesize \/ Lost \/ Break \/ (\E c \in Connections : Teardown(c))
           \/ CleanCache \/ CleanOverlapping \/ CleanOverlapped
           \/ PersistData \/ Open \/ Stop \/ UNCHANGED vars
  BY <1>2, <1>7 DEF Connect, Announce, Synthesize, Lost, Break, Teardown, CleanCache,
     CleanOverlapping, CleanOverlapped, PersistData, Open, Stop, vars, tables
<1>8. CASE Close \/ Crash
  <2>1. cache' = cache /\ (UNCHANGED <<path, tunnel>> \/ (path' = {} /\ tunnel' = {}))
    BY <1>8 DEF Close, Crash, Ended
  <2>2. QED
    BY <1>1, <2>1 DEF TableType, AtMostOne
<1>9. CASE Start
  <2>1. path' = LoadedPaths /\ tunnel' = LoadedTunnels /\ cache' = cache
    BY <1>9 DEF Start
  <2>2. /\ disk["PATHS"] \subseteq Paths /\ AtMostOne(disk["PATHS"])
        /\ disk["TUNNELS"] \subseteq Announces /\ AtMostOne(disk["TUNNELS"])
    BY <1>1 DEF FileType, Files, Stored
  <2>3. path' \subseteq Paths /\ AtMostOne(path')
    BY <2>1, <2>2 DEF LoadedPaths, AtMostOne
  <2>4. /\ tunnel' \subseteq [interface : SUBSET Connections, path : SUBSET Announces]
        /\ AtMostOne(tunnel') /\ \A t \in tunnel' : AtMostOne(t.path)
    BY <2>1, <2>2 DEF LoadedTunnels, AtMostOne
  <2>5. QED
    BY <1>1, <2>1, <2>3, <2>4 DEF TableType
<1>10. QED
  BY <1>3, <1>4, <1>5, <1>6, <1>7, <1>8, <1>9 DEF Next

\* What is saved in a file is of the file's kind.
LEMMA ContentsType ==
  ASSUME TableType, FileType, NEW f \in Files
  PROVE  Contents(f) \in Stored(f) /\ AtMostOne(Contents(f))
<1>1. CASE f = "PATHS"
  BY <1>1 DEF Contents, Stored, SavedPaths, TableType, AtMostOne
<1>2. CASE f = "TUNNELS"
  <2>1. SavedTunnels \subseteq Announces
    BY DEF SavedTunnels, TableType
  <2>2. AtMostOne(SavedTunnels)
    BY DEF SavedTunnels, TableType, AtMostOne
  <2>3. QED
    BY <1>2, <2>1, <2>2 DEF Contents, Stored
<1>3. CASE f = "KNOWN"
  <2>1. disk["KNOWN"] \in SUBSET {TRUE}
    BY DEF FileType, Files, Stored
  <2>2. SavedIdentities \in SUBSET {TRUE} /\ AtMostOne(SavedIdentities)
    BY <2>1 DEF SavedIdentities, AtMostOne
  <2>3. QED
    BY <1>3, <2>2 DEF Contents, Stored
<1>4. QED
  BY <1>1, <1>2, <1>3 DEF Files

\* The saving of the files.
LEMMA FileStep == TypeOK /\ [Next]_vars => FileType'
<1> SUFFICES ASSUME TypeOK, [Next]_vars PROVE FileType'
  OBVIOUS
<1>1. TableType /\ FileType
  BY DEF TypeOK
<1>2. ASSUME UNCHANGED <<saver, open, disk>> PROVE FileType'
  BY <1>1, <1>2 DEF FileType
<1>3. \A f \in Files : {} \in Stored(f) /\ AtMostOne({})
  BY DEF Files, Stored, AtMostOne
<1>4. \A f \in Files : f # "NONE" /\ Following(f) \in Files \cup {"NONE"}
  BY DEF Files, Following
<1>5. CASE PersistData \/ Stop
  <2>1. saver = "NONE" /\ saver' = "PATHS" /\ UNCHANGED <<open, disk>>
    BY <1>5 DEF PersistData, Stop, Following
  <2>2. open = {} /\ "PATHS" \in Files
    BY <1>1, <2>1 DEF FileType, Files
  <2>3. QED
    BY <1>1, <2>1, <2>2 DEF FileType
<1>6. CASE Open
  <2>1. saver \in Files /\ saver # "NONE" /\ saver' = saver
    BY <1>1, <1>6 DEF Open, FileType
  <2>2. open' = {Contents(saver)} /\ disk' = [disk EXCEPT ![saver] = {}]
    BY <1>6 DEF Open
  <2>3. Contents(saver) \in Stored(saver) /\ AtMostOne(Contents(saver))
    BY <1>1, <2>1, ContentsType
  <2>4. \A f \in Files : disk'[f] \in Stored(f) /\ AtMostOne(disk'[f])
    BY <1>1, <1>3, <2>2 DEF FileType
  <2>5. QED
    BY <1>1, <2>1, <2>2, <2>3, <2>4 DEF FileType
<1>7. ASSUME DOMAIN disk' = Files, \A f \in Files : disk'[f] \in Stored(f) /\ AtMostOne(disk'[f]), Ended
      PROVE  FileType'
  BY <1>7 DEF FileType, Ended
<1>8. CASE Close
  <2>1. PICK contents \in open : disk' = [disk EXCEPT ![saver] = contents]
    BY <1>8 DEF Close
  <2>2. saver \in Files /\ contents \in Stored(saver) /\ AtMostOne(contents)
    BY <1>1, <2>1 DEF FileType
  <2>3. DOMAIN disk' = Files /\ \A f \in Files : disk'[f] \in Stored(f) /\ AtMostOne(disk'[f])
    BY <1>1, <2>1, <2>2 DEF FileType
  <2>4. CASE Ended
    BY <1>7, <2>3, <2>4
  <2>5. CASE open' = {} /\ saver' = Following(saver)
    BY <1>4, <2>2, <2>3, <2>5 DEF FileType
  <2>6. QED
    BY <1>8, <2>4, <2>5 DEF Close
<1>9. CASE Crash
  <2>1. disk' = disk /\ Ended
    BY <1>9 DEF Crash
  <2>2. QED
    BY <1>1, <1>7, <2>1 DEF FileType
<1>10. CASE Connect \/ Announce \/ Synthesize \/ Lost \/ Break
            \/ (\E c \in Connections : Receive(c) \/ Teardown(c))
  BY <1>2, <1>10 DEF Connect, Announce, Synthesize, Lost, Break, Receive, Teardown, files
<1>11. CASE Overhear \/ Cull \/ ExpireTunnel \/ CleanCache \/ CleanOverlapping \/ CleanOverlapped
            \/ Start \/ UNCHANGED vars
  BY <1>2, <1>11 DEF Overhear, Cull, ExpireTunnel, CleanCache, CleanOverlapping, CleanOverlapped,
                     Start, files, vars
<1>12. QED
  BY <1>5, <1>6, <1>8, <1>9, <1>10, <1>11 DEF Next

\* What happened is not forgotten, and is a fault or what followed from one.
LEMMA PastGrows ==
  ASSUME [Next]_vars
  PROVE  past \subseteq past' /\ past' \subseteq past \cup Faults \cup Excuses \cup {"TORN"}
<1>1. CASE UNCHANGED past
  BY <1>1
<1>2. ASSUME NEW packet, Transmit(packet) PROVE past' \in {past, past \cup {"TEARDOWN"}}
  BY <1>2 DEF Transmit, TearDown
<1>3. CASE Announce \/ Synthesize
  <2>1. past' \in {past, past \cup {"TEARDOWN"}}
    BY <1>2, <1>3 DEF Announce, Synthesize
  <2>2. QED
    BY <2>1 DEF Excuses
<1>4. CASE Break \/ ExpireTunnel \/ CleanOverlapping \/ Stop
  BY <1>4 DEF Break, ExpireTunnel, CleanOverlapping, Stop, Mishap
<1>5. ASSUME NEW c \in Connections, Receive(c)
      PROVE  past \subseteq past' /\ past' \subseteq past \cup {"EARLY", "LATE"}
  BY <1>5 DEF Receive, HandleTunnel, ReceiveAnnounce, Trouble
<1>6. CASE Crash
  BY <1>6 DEF Crash
<1>7. CASE Start
  BY <1>7 DEF Start, Excuses
<1>8. CASE Connect \/ Lost \/ (\E c \in Connections : Teardown(c)) \/ Overhear \/ Cull \/ CleanCache
           \/ CleanOverlapped \/ PersistData \/ Open \/ Close \/ UNCHANGED vars
  BY <1>1, <1>8 DEF Connect, Lost, Teardown, Overhear, Cull, CleanCache, CleanOverlapped, PersistData,
                    Open, Close, vars
<1>9. QED
  BY <1>3, <1>4, <1>5, <1>6, <1>7, <1>8 DEF Next, Excuses

\* The flags, and the count of mishaps.
LEMMA StatusStep == NumbersAssumption /\ TypeOK /\ [Next]_vars => StatusType'
<1> SUFFICES ASSUME NumbersAssumption, TypeOK, [Next]_vars PROVE StatusType'
  OBVIOUS
<1>1. StatusType
  BY DEF TypeOK
<1>2. past' \subseteq Faults \cup Excuses \cup {"TORN"}
  BY <1>1, PastGrows DEF StatusType
<1>3. ASSUME UNCHANGED mishaps \/ (mishaps < MaxMishaps /\ mishaps' = mishaps + 1)
      PROVE  mishaps' \in 0 .. MaxMishaps
  BY <1>1, <1>3 DEF StatusType, NumbersAssumption
<1>4. ASSUME UNCHANGED <<up, exiting, known, jobs_locked, heard>>,
             UNCHANGED mishaps \/ (mishaps < MaxMishaps /\ mishaps' = mishaps + 1)
      PROVE  StatusType'
  BY <1>1, <1>2, <1>3, <1>4 DEF StatusType
<1>5. ASSUME NEW c \in Connections, Receive(c) PROVE StatusType'
  <2>1. UNCHANGED <<up, exiting, mishaps>>
    BY <1>5 DEF Receive, rest, files
  <2>2. known' \in BOOLEAN /\ heard' \in BOOLEAN
    BY <1>1, <1>5 DEF Receive, HandleTunnel, ReceiveAnnounce, StatusType
  <2>3. jobs_locked' \in BOOLEAN
    BY <1>5 DEF Receive, HandleTunnel, ReceiveAnnounce
  <2>4. QED
    BY <1>1, <1>2, <2>1, <2>2, <2>3 DEF StatusType
<1>6. CASE Overhear
  BY <1>1, <1>2, <1>6 DEF Overhear, StatusType, files
<1>7. CASE Start
  BY <1>1, <1>2, <1>7 DEF Start, LoadedIdentities, StatusType, files
<1>8. CASE Stop
  BY <1>1, <1>2, <1>3, <1>8 DEF Stop, Mishap, StatusType, rest, tables
<1>9. CASE Close \/ Crash
  <2>1. heard' = heard /\ (UNCHANGED mishaps \/ (mishaps < MaxMishaps /\ mishaps' = mishaps + 1))
    BY <1>9 DEF Close, Crash
  <2>2. UNCHANGED <<up, exiting, known, jobs_locked>> \/ Ended
    BY <1>9 DEF Close, Crash
  <2>3. QED
    BY <1>1, <1>2, <1>3, <2>1, <2>2 DEF StatusType, Ended
<1>10. CASE Break \/ ExpireTunnel \/ CleanOverlapping
  BY <1>4, <1>10 DEF Break, ExpireTunnel, CleanOverlapping, Mishap, tables, rest, files
<1>11. CASE Connect \/ Announce \/ Synthesize \/ Lost \/ (\E c \in Connections : Teardown(c))
  BY <1>4, <1>11 DEF Connect, Announce, Synthesize, Lost, Teardown, tables, rest, files
<1>12. CASE Cull \/ CleanCache \/ CleanOverlapped \/ PersistData \/ Open \/ UNCHANGED vars
  BY <1>4, <1>12 DEF Cull, CleanCache, CleanOverlapped, PersistData, Open, vars, tables, rest, files
<1>13. QED
  BY <1>5, <1>6, <1>7, <1>8, <1>9, <1>10, <1>11, <1>12 DEF Next

\* Every variable keeps to its type, whatever breaks, crashes or expires.
THEOREM TypeCorrect == Spec => []TypeOK
<1>1. Init => TypeOK
  BY InitType, NumbersAssumption
<1>2. TypeOK /\ [Next]_vars => TypeOK'
  <2> SUFFICES ASSUME TypeOK, [Next]_vars PROVE TypeOK'
    OBVIOUS
  <2>1. ClientType
    BY DEF TypeOK
  <2>2. ClientType' /\ WireType' /\ TableType' /\ FileType' /\ StatusType'
    BY <2>1, NumbersAssumption, ClientStep, WireStep, TableStep, FileStep, StatusStep
  <2>3. QED
    BY <2>2 DEF TypeOK
<1>3. QED
  BY <1>1, <1>2, PTL DEF Spec

-----------------------------------------------------------------------------
(***************************************************************************)
(* The announce behind each path is in the cache.                          *)
(***************************************************************************)

\* The announces of paths, and of the paths that tunnels keep.
LEMMA ActiveIn ==
  ASSUME NEW S
  PROVE  Active \subseteq S <=> (\A p \in path : p.emission \in S) /\ (\A t \in tunnel : t.path \subseteq S)
BY DEF Active

\* Announces enter the cache before they become paths, and a cleaning that inbound()
\* does not disturb spares them.
LEMMA CacheStep == TypeOK /\ CacheInv /\ [Next]_vars => CacheInv'
<1> SUFFICES ASSUME TypeOK, CacheInv, [Next]_vars, "OVERLAP" \notin past'
             PROVE  cleaning' = {} /\ Active' \subseteq cache'
  BY DEF CacheInv
<1>1. "OVERLAP" \notin past
  BY PastGrows
<1>2. /\ cleaning = {} /\ Active \subseteq cache
      /\ \A p \in path : p.emission \in cache
      /\ \A t \in tunnel : t.path \subseteq cache
  BY <1>1, ActiveIn DEF CacheInv
<1>3. ASSUME \A p \in path' : p.emission \in cache', \A t \in tunnel' : t.path \subseteq cache'
      PROVE  Active' \subseteq cache'
  BY <1>3 DEF Active
<1>4. CASE UNCHANGED <<path, tunnel, cache, cleaning>>
  BY <1>2, <1>3, <1>4
<1>5. ASSUME NEW c \in Connections, Receive(c) PROVE cleaning' = {} /\ Active' \subseteq cache'
  <2>1. cleaning' = {}
    BY <1>2, <1>5 DEF Receive
  <2>2. CASE HandleTunnel(c)
    <3>1. cache' = cache
      BY <2>2 DEF HandleTunnel
    <3>2. CASE tunnel = {}
      BY <1>2, <1>3, <2>1, <2>2, <3>1, <3>2 DEF HandleTunnel
    <3>3. CASE tunnel # {}
      <4>1. PICK t \in tunnel :
              LET restored == {e \in t.path : \A p \in path : TunnelHops <= p.hops}
              IN /\ tunnel' = {[interface |-> {c}, path |-> restored]}
                 /\ path' = IF restored = {} THEN path
                            ELSE {[interface |-> c, hops |-> TunnelHops, emission |-> e] : e \in restored}
        BY <2>2, <3>3 DEF HandleTunnel
      <4> DEFINE restored == {e \in t.path : \A p \in path : TunnelHops <= p.hops}
      <4>2. restored \subseteq cache
        BY <1>2
      <4>3. tunnel' = {[interface |-> {c}, path |-> restored]}
            /\ path' \in {path, {[interface |-> c, hops |-> TunnelHops, emission |-> e] : e \in restored}}
        BY <4>1
      <4> HIDE DEF restored
      <4>4. \A p \in path' : p.emission \in cache'
        BY <1>2, <3>1, <4>2, <4>3
      <4>5. \A u \in tunnel' : u.path \subseteq cache'
        BY <3>1, <4>2, <4>3
      <4>6. QED
        BY <1>3, <2>1, <4>4, <4>5
    <3>4. QED
      BY <3>2, <3>3
  <2>3. CASE ReceiveAnnounce(c)
    <3> DEFINE e == Head(queue[c])
    <3>1. CASE Accepts(e)
      <4>1. path' = {[interface |-> c, hops |-> TunnelHops, emission |-> e]} /\ cache' = cache \cup {e}
            /\ tunnel' \in {Tunneled(c, e), tunnel}
        BY <2>3, <3>1 DEF ReceiveAnnounce
      <4>2. \A t \in Tunneled(c, e) : t.path \subseteq {e}
        <5> HIDE DEF e
        <5>1. \A t \in tunnel : [t EXCEPT !.path = {e}].path = {e}
          BY TunnelType DEF TypeOK, TableType
        <5>2. QED
          BY <5>1 DEF Tunneled
      <4> HIDE DEF e
      <4>3. \A p \in path' : p.emission \in cache'
        BY <4>1
      <4>4. \A t \in tunnel' : t.path \subseteq cache'
        BY <1>2, <4>1, <4>2
      <4>5. QED
        BY <1>3, <2>1, <4>3, <4>4
    <3>2. CASE ~Accepts(e)
      BY <1>4, <1>2, <2>1, <2>3, <3>2 DEF ReceiveAnnounce
    <3>3. QED
      BY <3>1, <3>2
  <2>4. QED
    BY <1>5, <2>2, <2>3 DEF Receive
<1>6. CASE Overhear
  <2>1. PICK e \in (1 .. emitted) \ overheard, h \in LanHops :
          \/ /\ cache' = cache \cup {e}
             /\ path' = {[interface |-> Lan, hops |-> h, emission |-> e]}
          \/ UNCHANGED <<cache, path>>
    BY <1>6 DEF Overhear
  <2>2. UNCHANGED <<tunnel, cleaning>>
    BY <1>6 DEF Overhear
  <2>3. QED
    BY <1>2, <1>3, <2>1, <2>2
<1>7. CASE Cull
  <2> DEFINE kept(t) == [t EXCEPT !.interface = {c \in t.interface : Listed(c)}]
  <2>1. path' \subseteq path /\ UNCHANGED <<cache, cleaning>> /\ tunnel' = {kept(t) : t \in tunnel}
    BY <1>7 DEF Cull
  <2>2. \A t \in tunnel : kept(t).path = t.path
    BY DEF TypeOK, TableType
  <2> HIDE DEF kept
  <2>3. QED
    BY <1>2, <1>3, <2>1, <2>2
<1>8. CASE ExpireTunnel
  BY <1>2, <1>3, <1>8 DEF ExpireTunnel
<1>9. CASE CleanCache
  BY <1>2, <1>9, ActiveIn DEF CleanCache, Active, tables
<1>10. CASE CleanOverlapping
  BY <1>10 DEF CleanOverlapping, Mishap
<1>11. CASE CleanOverlapped
  BY <1>2, <1>11 DEF CleanOverlapped
<1>12. CASE Close \/ Crash
  <2>1. cache' = cache /\ (UNCHANGED <<path, tunnel, cleaning>> \/ Ended)
    BY <1>12 DEF Close, Crash
  <2>2. QED
    BY <1>2, <1>3, <2>1 DEF Ended
<1>13. CASE Start
  <2>1. path' = LoadedPaths /\ tunnel' = LoadedTunnels /\ UNCHANGED <<cache, cleaning>>
    BY <1>13 DEF Start
  <2>2. QED
    BY <1>2, <1>3, <2>1 DEF LoadedPaths, LoadedTunnels
<1>14. CASE Connect \/ Announce \/ Synthesize \/ Lost \/ Break \/ (\E c \in Connections : Teardown(c))
            \/ PersistData \/ Open \/ Stop \/ UNCHANGED vars
  BY <1>4, <1>14 DEF Connect, Announce, Synthesize, Lost, Break, Teardown, PersistData, Open, Stop,
                     tables, vars
<1>15. QED
  BY <1>5, <1>6, <1>7, <1>8, <1>9, <1>10, <1>11, <1>12, <1>13, <1>14 DEF Next

\* The announce behind each path is in the cache, unless jobs() and inbound() overlapped.
THEOREM PathIsCachedCorrect == Spec => []PathIsCached
<1>1. Init => CacheInv
  BY DEF Init, CacheInv, Active
<1>2. CacheInv => PathIsCached
  BY DEF CacheInv, PathIsCached
<1>3. QED
  BY <1>1, <1>2, TypeCorrect, CacheStep, PTL DEF Spec

-----------------------------------------------------------------------------
(***************************************************************************)
(* The identity of a destination with a path is known.                     *)
(***************************************************************************)

\* A tunnel without a path is one that saves none.
LEMMA NothingSaved == SavedTunnels = {} <=> \A t \in tunnel : t.path = {}
BY DEF SavedTunnels

\* What does not end the program changes no path into being.
LEMMA DownStep == TypeOK /\ DownInv /\ [Next]_vars => DownInv'
<1> SUFFICES ASSUME TypeOK, DownInv, [Next]_vars, ~up'
             PROVE  saver' = "NONE" /\ path' = {} /\ tunnel' = {}
  BY DEF DownInv
<1>1. ASSUME Ended PROVE saver' = "NONE" /\ path' = {} /\ tunnel' = {}
  BY <1>1 DEF Ended
<1>2. ASSUME UNCHANGED <<up, saver, path, tunnel>> PROVE saver' = "NONE" /\ path' = {} /\ tunnel' = {}
  BY <1>2 DEF DownInv
<1>3. CASE Announce \/ Synthesize \/ Lost \/ Break \/ (\E c \in Connections : Teardown(c))
           \/ UNCHANGED vars
  BY <1>2, <1>3 DEF Announce, Synthesize, Lost, Break, Teardown, tables, files, rest, vars
<1>4. CASE Close \/ Crash
  BY <1>1, <1>4 DEF Close, Crash
<1>5. CASE Connect \/ (\E c \in Connections : Receive(c)) \/ Overhear \/ Cull \/ ExpireTunnel
           \/ CleanCache \/ CleanOverlapping \/ CleanOverlapped \/ PersistData \/ Open \/ Stop \/ Start
  BY <1>5 DEF Connect, Receive, Overhear, Cull, ExpireTunnel, CleanCache, CleanOverlapping,
              CleanOverlapped, PersistData, Open, Stop, Start, rest
<1>6. QED
  BY <1>3, <1>4, <1>5 DEF Next

\* Without the identity there is nothing to lose.
LEMMA IgnoranceStep ==
  TypeOK /\ DownInv /\ IgnoranceInv /\ SavedInv /\ [Next]_vars => IgnoranceInv'
<1> SUFFICES ASSUME TypeOK, DownInv, IgnoranceInv, SavedInv, [Next]_vars, up', ~known'
             PROVE  /\ path' = {} /\ SavedTunnels' = {} /\ UNION open' = {}
                    /\ \A f \in Files : disk'[f] = {}
  BY DEF IgnoranceInv
<1> DEFINE Goal == /\ path' = {} /\ SavedTunnels' = {} /\ UNION open' = {}
                   /\ \A f \in Files : disk'[f] = {}
<1>1. ASSUME up /\ ~known
      PROVE  /\ path = {} /\ \A t \in tunnel : t.path = {}
             /\ UNION open = {} /\ \A f \in Files : disk[f] = {}
  BY <1>1, NothingSaved DEF IgnoranceInv
<1>2. ASSUME path' = {}, \A t \in tunnel' : t.path = {} PROVE SavedTunnels' = {}
  BY <1>2 DEF SavedTunnels
<1>3. ASSUME up /\ ~known, UNCHANGED <<open, disk>>, path' = {}, \A t \in tunnel' : t.path = {}
      PROVE  Goal
  BY <1>1, <1>2, <1>3
<1>4. ASSUME UNCHANGED <<up, known, open, disk, path, tunnel>> PROVE Goal
  BY <1>1, <1>3, <1>4
<1>5. ASSUME NEW c \in Connections, Receive(c) PROVE Goal
  <2>1. HandleTunnel(c)
    BY <1>5 DEF Receive, ReceiveAnnounce
  <2>2. up /\ ~known /\ UNCHANGED <<open, disk>>
    BY <1>5, <2>1 DEF Receive, HandleTunnel, files
  <2>3. CASE tunnel = {}
    BY <1>1, <1>3, <2>1, <2>2, <2>3 DEF HandleTunnel
  <2>4. CASE tunnel # {}
    <3>1. PICK t \in tunnel :
            LET restored == {e \in t.path : \A p \in path : TunnelHops <= p.hops}
            IN /\ tunnel' = {[interface |-> {c}, path |-> restored]}
               /\ path' = IF restored = {} THEN path
                          ELSE {[interface |-> c, hops |-> TunnelHops, emission |-> e] : e \in restored}
      BY <2>1, <2>4 DEF HandleTunnel
    <3>2. {e \in t.path : \A p \in path : TunnelHops <= p.hops} = {}
      BY <1>1, <2>2
    <3>3. tunnel' = {[interface |-> {c}, path |-> {}]} /\ path' = path
      BY <3>1, <3>2
    <3>4. QED
      BY <1>1, <1>3, <2>2, <3>3
  <2>5. QED
    BY <2>3, <2>4
<1>6. CASE Overhear
  BY <1>6 DEF Overhear
<1>7. CASE Cull
  <2> DEFINE kept(t) == [t EXCEPT !.interface = {c \in t.interface : Listed(c)}]
  <2>1. up /\ ~known /\ UNCHANGED <<open, disk>> /\ path' \subseteq path /\ tunnel' = {kept(t) : t \in tunnel}
    BY <1>7 DEF Cull, files
  <2>2. \A t \in tunnel : kept(t).path = t.path
    BY DEF TypeOK, TableType
  <2> HIDE DEF kept
  <2>3. QED
    BY <1>1, <1>3, <2>1, <2>2
<1>8. CASE ExpireTunnel
  BY <1>1, <1>3, <1>8 DEF ExpireTunnel, files
<1>9. CASE Open
  <2>1. up /\ ~known /\ UNCHANGED <<path, tunnel>> /\ open' = {Contents(saver)}
        /\ disk' = [disk EXCEPT ![saver] = {}]
    BY <1>9 DEF Open, tables, rest
  <2>2. saver \in Files
    BY <1>9 DEF Open, TypeOK, FileType
  <2>3. Contents(saver) = {}
    <3>1. SavedPaths = {} /\ SavedTunnels = {}
      BY <1>1, <2>1, NothingSaved DEF SavedPaths
    <3>2. SavedIdentities = {}
      BY <1>1, <2>1 DEF SavedIdentities, Files
    <3>3. QED
      BY <2>2, <3>1, <3>2 DEF Contents, Files
  <2>4. UNION open' = {} /\ \A f \in Files : disk'[f] = {}
    BY <1>1, <2>1, <2>3 DEF TypeOK, FileType
  <2>5. QED
    BY <1>1, <1>2, <2>1, <2>4
<1>10. CASE Close
  <2>1. ~Ended
    BY DEF Ended
  <2>2. up /\ ~known /\ UNCHANGED <<path, tunnel>> /\ open' = {}
    BY <1>10, <2>1 DEF Close
  <2>3. PICK contents \in open : disk' = [disk EXCEPT ![saver] = contents]
    BY <1>10 DEF Close
  <2>4. contents = {}
    BY <1>1, <2>2, <2>3
  <2>5. \A f \in Files : disk'[f] = {}
    BY <1>1, <2>2, <2>3, <2>4 DEF TypeOK, FileType
  <2>6. QED
    BY <1>1, <1>2, <2>2, <2>5
<1>11. CASE Start
  <2>1. ~up /\ path' = LoadedPaths /\ tunnel' = LoadedTunnels /\ known' = LoadedIdentities
        /\ UNCHANGED <<saver, open, disk>>
    BY <1>11 DEF Start, files
  <2>2. disk["KNOWN"] = {} /\ saver = "NONE"
    BY <2>1 DEF LoadedIdentities, DownInv
  <2>3. NoPathSaved /\ open = {}
    BY <2>2 DEF SavedInv, TypeOK, FileType
  <2>4. path' = {} /\ tunnel' = {}
    BY <2>1, <2>3 DEF LoadedPaths, LoadedTunnels, NoPathSaved
  <2>5. QED
    BY <1>2, <2>1, <2>2, <2>3, <2>4 DEF NoPathSaved, Files
<1>12. CASE Crash
  BY <1>12 DEF Crash, Ended
<1>13. CASE PersistData \/ Stop
  BY <1>4, <1>13 DEF PersistData, Stop, tables, rest
<1>14. CASE Connect \/ Announce \/ Synthesize \/ Lost \/ Break \/ (\E c \in Connections : Teardown(c))
            \/ CleanCache \/ CleanOverlapping \/ CleanOverlapped \/ UNCHANGED vars
  BY <1>4, <1>14 DEF Connect, Announce, Synthesize, Lost, Break, Teardown, CleanCache,
                     CleanOverlapping, CleanOverlapped, tables, files, rest, vars
<1>15. QED
  BY <1>5, <1>6, <1>7, <1>8, <1>9, <1>10, <1>11, <1>12, <1>13, <1>14 DEF Next

\* The paths are saved before the identities, so that a save that ends has written both.
LEMMA SavedStep ==
  TypeOK /\ DownInv /\ IgnoranceInv /\ SavedInv /\ [Next]_vars /\ "TORN" \notin past' => SavedInv'
<1> SUFFICES ASSUME TypeOK, DownInv, IgnoranceInv, SavedInv, [Next]_vars, "TORN" \notin past'
             PROVE  SavedInv'
  OBVIOUS
<1>1. ASSUME UNCHANGED <<saver, open, disk>> PROVE SavedInv'
  BY <1>1 DEF SavedInv, NoPathSaved
<1>2. DOMAIN disk = Files /\ saver \in Files \cup {"NONE"}
  BY DEF TypeOK, FileType
<1>3. CASE PersistData \/ Stop
  BY <1>3 DEF PersistData, Stop, Following, SavedInv
<1>4. CASE Open
  <2>1. up /\ saver' = saver /\ saver # "NONE" /\ open' = {Contents(saver)}
        /\ disk' = [disk EXCEPT ![saver] = {}]
    BY <1>4 DEF Open
  <2>2. ASSUME saver = "KNOWN", Contents(saver) = {} PROVE NoPathSaved'
    <3>1. ~known
      BY <2>2 DEF Contents, SavedIdentities
    <3>2. disk["PATHS"] = {} /\ disk["TUNNELS"] = {}
      BY <2>1, <3>1 DEF IgnoranceInv, Files
    <3>3. QED
      BY <1>2, <2>1, <2>2, <3>2 DEF NoPathSaved, Files
  <2>3. QED
    BY <2>1, <2>2 DEF SavedInv
<1>5. CASE Close
  <2>1. PICK contents \in open : disk' = [disk EXCEPT ![saver] = contents]
    BY <1>5 DEF Close
  <2>2. open' = {} /\ saver' \in {Following(saver), "NONE"}
        /\ (saver' = "NONE" => Following(saver) = "NONE")
    BY <1>5 DEF Close, Ended
  <2>3. saver # "NONE"
    BY <2>1 DEF TypeOK, FileType
  <2>4. ASSUME saver' = "NONE", disk'["KNOWN"] = {} PROVE NoPathSaved'
    <3>1. saver = "KNOWN"
      BY <1>2, <2>2, <2>3, <2>4 DEF Following, Files
    <3>2. contents = {}
      BY <1>2, <2>1, <2>4, <3>1 DEF Files
    <3>3. NoPathSaved
      BY <2>1, <3>1, <3>2 DEF SavedInv
    <3>4. QED
      BY <1>2, <2>1, <3>1, <3>3 DEF NoPathSaved, Files
  <2>5. QED
    BY <2>2, <2>4 DEF SavedInv
<1>6. CASE Crash
  <2>1. saver = "NONE"
    BY <1>6 DEF Crash
  <2>2. saver' = "NONE" /\ disk' = disk
    BY <1>6 DEF Crash, Ended
  <2>3. QED
    BY <2>1, <2>2 DEF SavedInv, NoPathSaved
<1>7. CASE Connect \/ Announce \/ Synthesize \/ Lost \/ Break
           \/ (\E c \in Connections : Receive(c) \/ Teardown(c))
  BY <1>1, <1>7 DEF Connect, Announce, Synthesize, Lost, Break, Receive, Teardown, files
<1>8. CASE Overhear \/ Cull \/ ExpireTunnel \/ CleanCache \/ CleanOverlapping \/ CleanOverlapped
           \/ Start \/ UNCHANGED vars
  BY <1>1, <1>8 DEF Overhear, Cull, ExpireTunnel, CleanCache, CleanOverlapping, CleanOverlapped,
                    Start, files, vars
<1>9. QED
  BY <1>3, <1>4, <1>5, <1>6, <1>7, <1>8 DEF Next

\* The identity of a destination with a path is known, unless a crash interrupted the
\* saving of files.
THEOREM PathIsKnownCorrect == Spec => []PathIsKnown
<1>1. Init => KnownInv
  BY DEF Init, KnownInv, DownInv, IgnoranceInv, SavedInv, NoPathSaved, SavedTunnels, Files
<1>2. TypeOK /\ KnownInv /\ [Next]_vars => KnownInv'
  <2> SUFFICES ASSUME TypeOK, KnownInv, [Next]_vars PROVE KnownInv'
    OBVIOUS
  <2>1. DownInv /\ DownInv'
    BY DownStep DEF KnownInv
  <2>2. ASSUME "TORN" \notin past' PROVE IgnoranceInv' /\ SavedInv'
    <3>1. IgnoranceInv /\ SavedInv
      BY <2>2, PastGrows DEF KnownInv
    <3>2. QED
      BY <2>1, <2>2, <3>1, IgnoranceStep, SavedStep
  <2>3. QED
    BY <2>1, <2>2 DEF KnownInv
<1>3. TypeOK /\ KnownInv => PathIsKnown
  BY DEF KnownInv, DownInv, IgnoranceInv, PathIsKnown
<1>4. QED
  BY <1>1, <1>2, <1>3, TypeCorrect, PTL DEF Spec

-----------------------------------------------------------------------------
(***************************************************************************)
(* The threads of a radio interface, which are those of Driver.            *)
(***************************************************************************)
CONSTANTS MaxPackets, MaxFailures, RadioMishaps, RadioFaults
VARIABLES device, failures, port, asked, detected, matched, radioOnline, reconnecting,
          detached, ready, radioQueue, tested, packets

Radio == INSTANCE Driver WITH MaxMishaps <- RadioMishaps, Faults <- RadioFaults,
                              online <- radioOnline, queue <- radioQueue

\* The constructor starts with everything off.
LEMMA RadioInitType == Radio!Init => Radio!TypeOK
<1> SUFFICES ASSUME Radio!Init PROVE Radio!TypeOK
  OBVIOUS
<1>1. pc \in [Threads \cup {Main} -> Radio!Places]
  BY DEF Radio!Init, Radio!Places, Radio!Configuring
<1>2. {detected, matched, radioOnline, reconnecting, detached, ready} \subseteq BOOLEAN
  BY Zenon DEF Radio!Init
<1>3. QED
  BY <1>1, <1>2 DEF Radio!Init, Radio!TypeOK

\* A step of one thread leaves the others where they are.
LEMMA RadioGo ==
  ASSUME Radio!TypeOK, NEW t \in Threads \cup {Main}, NEW place \in Radio!Places,
         Radio!Go(t, place)
  PROVE  /\ pc' \in [Threads \cup {Main} -> Radio!Places]
         /\ pc'[t] = place /\ \A u \in (Threads \cup {Main}) \ {t} : pc'[u] = pc[u]
  BY DEF Radio!TypeOK, Radio!Go

\* After an error a loop looks again; the constructor ends, and starts a loop unless
\* there is one or the interface was detached.
LEMMA RadioRaised ==
  ASSUME Radio!TypeOK, Main \notin Threads, NEW t \in Threads \cup {Main}, Radio!Raised(t)
  PROVE  /\ pc' \in [Threads \cup {Main} -> Radio!Places]
         /\ t # Main => /\ pc'[t] = "RETRY"
                        /\ \A u \in (Threads \cup {Main}) \ {t} : pc'[u] = pc[u]
                        /\ UNCHANGED <<reconnecting, incidents>>
         /\ t = Main => 
            \/ /\ detached \/ reconnecting 
               /\ pc'[Main] = "NONE" /\ \A u \in Threads : pc'[u] = pc[u]
               /\ UNCHANGED <<reconnecting, incidents>>
            \/ \E r \in Threads : 
                /\ ~reconnecting /\ ~detached
                /\ pc'[Main] = "NONE" /\ pc[r] = "NONE" /\ \A u \in Threads \ {r} : pc'[u] = pc[u]
                /\ \/ pc'[r] = "RETRY" /\ reconnecting' /\ UNCHANGED incidents
                   \/ pc'[r] = "ENTER" /\ Radio!Mishap("TOGETHER") /\ UNCHANGED reconnecting
  BY DEF Radio!TypeOK, Radio!Raised, Radio!NewThreads, Radio!Places, Radio!Configuring, Radio!Go

\* What TypeOK says of the variables other than pc.
RadioBooleans == {detected, matched, radioOnline, reconnecting, detached, ready} \subseteq BOOLEAN
RadioNumbers ==
  /\ device \in {"IN", "OUT"} /\ failures \in Nat /\ port \in {"OPEN", "DEAD", "CLOSED"}
  /\ asked \subseteq Radio!Reports /\ {radioQueue, frames, packets} \subseteq Nat
  /\ tested \subseteq BOOLEAN /\ incidents \subseteq RadioFaults \cup {"STRANDED", "BACKLOG"}

\* TypeOK in parts.
LEMMA RadioTypeParts ==
  /\ Radio!TypeOK => pc \in [Threads \cup {Main} -> Radio!Places] /\ RadioBooleans /\ RadioNumbers
  /\ (pc \in [Threads \cup {Main} -> Radio!Places])' /\ RadioBooleans' /\ RadioNumbers' =>
       Radio!TypeOK'
<1> DEFINE B == {detected, matched, radioOnline, reconnecting, detached, ready} \subseteq BOOLEAN
<1>1. (RadioBooleans <=> B) /\ (RadioBooleans' <=> B')
  BY DEF RadioBooleans
<1>2. Radio!TypeOK => pc \in [Threads \cup {Main} -> Radio!Places] /\ B /\ RadioNumbers
  <2> HIDE DEF B
  <2> QED
    BY DEF Radio!TypeOK, RadioNumbers, B
<1>3. (pc \in [Threads \cup {Main} -> Radio!Places])' /\ B' /\ RadioNumbers' => Radio!TypeOK'
  <2> HIDE DEF B
  <2> QED
    BY DEF Radio!TypeOK, RadioNumbers, B
<1>4. QED
  BY <1>1, <1>2, <1>3

\* What no thread of the interface does: the device, process_outgoing(), detach().
RadioOther ==
  \/ Radio!Unplug \/ Radio!Plug \/ Radio!Detach \/ Radio!LoseReady \/ Radio!Send \/ Radio!SendLate
  \/ UNCHANGED Radio!vars

\* A device that fails has no frames, or keeps them, which is a mishap.
LEMMA RadioKeeps ==
  ASSUME Radio!TypeOK, NEW kept \in SUBSET {"KEPT"}, Radio!Keeps(kept)
  PROVE  frames' \in Nat /\ kept \subseteq RadioFaults /\ (kept = {} => frames' = 0)
  BY DEF Radio!TypeOK, Radio!Keeps, Radio!MayOccur

\* open_port() and configure_device().
LEMMA RadioConfigureType ==
  ASSUME Radio!TypeOK, Main \notin Threads, NEW t \in Threads \cup {Main}, Radio!Configure(t)
  PROVE  Radio!TypeOK'
<1>1. pc \in [Threads \cup {Main} -> Radio!Places] /\ RadioBooleans /\ RadioNumbers
  BY RadioTypeParts
<1>2. pc' \in [Threads \cup {Main} -> Radio!Places]
  <2>1. CASE Radio!OpenPort(t)
    BY <2>1, RadioGo, RadioRaised DEF Radio!OpenPort, Radio!Places, Radio!Configuring
  <2>2. CASE Radio!StartReader(t)
    BY <1>1, <2>2 DEF Radio!StartReader, Radio!NewThreads, Radio!Places, Radio!Configuring
  <2>3. CASE Radio!Detect(t) \/ Radio!InitRadio(t)
    BY <2>3, RadioGo, RadioRaised DEF Radio!Detect, Radio!InitRadio, Radio!Ask, Radio!Places,
       Radio!Configuring
  <2>4. CASE Radio!AwaitDetect(t) \/ Radio!ValidateRadioState(t) \/ Radio!GoOnline(t)
    BY <2>4, RadioGo DEF Radio!AwaitDetect, Radio!ValidateRadioState, Radio!GoOnline,
       Radio!GiveUp, Radio!Returned, Radio!Places, Radio!Configuring
  <2>5. QED
    BY <2>1, <2>2, <2>3, <2>4 DEF Radio!Configure
<1>3. RadioBooleans'
  <2>1. reconnecting' \in BOOLEAN
    BY <1>1, Zenon DEF RadioBooleans, Radio!Configure, Radio!OpenPort, Radio!StartReader,
       Radio!Detect, Radio!InitRadio, Radio!Ask, Radio!AwaitDetect, Radio!ValidateRadioState,
       Radio!GoOnline, Radio!Raised, Radio!flags
  <2>2. /\ detected' = detected \/ detected' = FALSE
        /\ matched' = matched \/ matched' = FALSE
        /\ radioOnline' = radioOnline \/ radioOnline' = TRUE
        /\ ready' = ready \/ ready' = TRUE
        /\ detached' = detached
    BY Zenon DEF Radio!Configure, Radio!OpenPort, Radio!StartReader, Radio!Detect,
       Radio!InitRadio, Radio!Ask, Radio!AwaitDetect, Radio!ValidateRadioState, Radio!GoOnline,
       Radio!flags, Radio!radio, Radio!traffic
  <2>3. QED
    BY <1>1, <2>1, <2>2, Zenon DEF RadioBooleans
<1>4. RadioNumbers'
  <2>1. incidents' \subseteq RadioFaults \cup {"STRANDED", "BACKLOG"}
    BY <1>1 DEF RadioNumbers, Radio!Configure, Radio!OpenPort, Radio!StartReader, Radio!Detect,
       Radio!InitRadio, Radio!Ask, Radio!AwaitDetect, Radio!ValidateRadioState, Radio!GoOnline,
       Radio!Raised, Radio!Awaited, Radio!Mishap, Radio!MayOccur
  <2>2. QED
    BY <1>1, <2>1 DEF RadioNumbers, Radio!Configure, Radio!OpenPort, Radio!StartReader,
       Radio!Detect, Radio!InitRadio, Radio!Ask, Radio!AwaitDetect, Radio!ValidateRadioState,
       Radio!GoOnline, Radio!GiveUp, Radio!world, Radio!radio, Radio!traffic, Radio!Reports
<1>5. QED
  BY <1>2, <1>3, <1>4, RadioTypeParts

\* readLoop() and reconnect_port().
LEMMA RadioThreadType ==
  ASSUME Radio!TypeOK, Main \notin Threads, NEW t \in Threads, Radio!Read(t) \/ Radio!Loop(t)
  PROVE  Radio!TypeOK'
<1>1. pc \in [Threads \cup {Main} -> Radio!Places] /\ RadioBooleans /\ RadioNumbers
  BY RadioTypeParts
<1>2. pc' \in [Threads \cup {Main} -> Radio!Places]
  BY <1>1 DEF Radio!Read, Radio!Loop, Radio!ReadAnswer, Radio!ReadReady, Radio!EndReading,
     Radio!Reconnect, Radio!EnterLoop, Radio!Retry, Radio!LeaveLoop, Radio!Go, Radio!Places,
     Radio!Configuring
<1>3. RadioBooleans'
  <2>1. /\ detected' \in BOOLEAN
        /\ matched' \in BOOLEAN
        /\ radioOnline' = radioOnline \/ radioOnline' = FALSE
        /\ reconnecting' = reconnecting \/ reconnecting' = FALSE \/ reconnecting' = TRUE
        /\ detached' = detached
    <3>1. CASE Radio!ReadAnswer(t)
      BY <3>1, Zenon DEF Radio!ReadAnswer, Radio!flags
    <3>2. CASE ~Radio!ReadAnswer(t)
      BY <1>1, <3>2, Zenon DEF Radio!Read, Radio!Loop, Radio!ReadReady, Radio!EndReading,
         Radio!Reconnect, Radio!EnterLoop, Radio!Retry, Radio!LeaveLoop, Radio!flags,
         Radio!radio, RadioBooleans
    <3>3. QED
      BY <3>1, <3>2
  <2>2. ready' \in BOOLEAN
    <3>1. CASE Radio!ReadReady(t)
      <4>1. ready' = ready \/ ready' = TRUE \/ ready' = (~radioOnline \/ ~FlowControl)
        BY <3>1, Zenon DEF Radio!ReadReady, Radio!SendNext
      <4>2. (~radioOnline \/ ~FlowControl) \in BOOLEAN
        BY Zenon
      <4>3. QED
        BY <1>1, <4>1, <4>2, Zenon DEF RadioBooleans
    <3>2. CASE ~Radio!ReadReady(t)
      <4>1. ready' = ready
        BY <3>2, Zenon DEF Radio!Read, Radio!Loop, Radio!ReadAnswer, Radio!EndReading,
           Radio!Reconnect, Radio!EnterLoop, Radio!Retry, Radio!LeaveLoop, Radio!traffic
      <4>2. QED
        BY <1>1, <4>1, Zenon DEF RadioBooleans
    <3>3. QED
      BY <3>1, <3>2
  <2>3. QED
    BY <1>1, <2>1, <2>2, Zenon DEF RadioBooleans
<1>4. RadioNumbers'
  <2>1. CASE Radio!ReadAnswer(t) \/ Radio!ReadReady(t)
    BY <1>1, <2>1 DEF RadioNumbers, Radio!ReadAnswer, Radio!ReadReady, Radio!SendNext,
       Radio!world, Radio!radio, Radio!traffic
  <2>2. CASE Radio!EndReading(t)
    <3>1. frames' \in Nat /\ incidents' \subseteq RadioFaults \cup {"STRANDED", "BACKLOG"}
      BY <1>1, <2>2, RadioKeeps DEF RadioNumbers, Radio!EndReading
    <3>2. QED
      BY <1>1, <2>2, <3>1 DEF RadioNumbers, Radio!EndReading, Radio!radio
  <2>3. CASE Radio!Loop(t)
    BY <1>1, <2>3 DEF RadioNumbers, Radio!Loop, Radio!Reconnect, Radio!EnterLoop, Radio!Retry,
       Radio!LeaveLoop, Radio!Mishap, Radio!MayOccur, Radio!world, Radio!radio, Radio!traffic
  <2>4. QED
    BY <2>1, <2>2, <2>3 DEF Radio!Read
<1>5. QED
  BY <1>2, <1>3, <1>4, RadioTypeParts

\* The device, process_outgoing() and detach().
LEMMA RadioOtherType ==
  ASSUME Radio!TypeOK,
         RadioOther
  PROVE  Radio!TypeOK'
<1>1. pc \in [Threads \cup {Main} -> Radio!Places] /\ RadioBooleans /\ RadioNumbers
  BY RadioTypeParts
<1>2. pc' = pc
  BY Zenon DEF RadioOther, Radio!Unplug, Radio!Plug, Radio!Detach, Radio!LoseReady, Radio!Send,
     Radio!SendLate, Radio!vars
<1>3. RadioBooleans'
  <2>1. /\ detected' = detected /\ matched' = matched /\ radioOnline' = radioOnline
        /\ reconnecting' = reconnecting /\ (detached' = detached \/ detached' = TRUE)
    BY Zenon DEF RadioOther, Radio!Unplug, Radio!Plug, Radio!Detach, Radio!LoseReady,
       Radio!Send, Radio!SendLate, Radio!vars, Radio!flags, Radio!radio
  <2>2. ready' = ready \/ ready' = (ready /\ ~FlowControl)
    BY Zenon DEF RadioOther, Radio!Unplug, Radio!Plug, Radio!Detach, Radio!LoseReady,
       Radio!Send, Radio!SendLate, Radio!WriteOrQueue, Radio!vars, Radio!traffic
  <2>3. (ready /\ ~FlowControl) \in BOOLEAN
    BY Zenon
  <2>4. QED
    BY <1>1, <2>1, <2>2, <2>3, Zenon DEF RadioBooleans
<1>4. RadioNumbers'
  <2>1. tested' \subseteq BOOLEAN
    <3>1. tested' = tested \/ tested' = {} \/ tested' = {ready}
      BY Zenon DEF RadioOther, Radio!Unplug, Radio!Plug, Radio!Detach, Radio!LoseReady,
         Radio!Send, Radio!SendLate, Radio!vars, Radio!traffic
    <3>2. QED
      BY <1>1, <3>1, Zenon DEF RadioBooleans, RadioNumbers
  <2> DEFINE T == tested \subseteq BOOLEAN
  <2>2. T'
    BY <2>1
  <2> HIDE DEF T
  <2>3. CASE Radio!Unplug
    <3>1. frames' \in Nat /\ incidents' \subseteq RadioFaults \cup {"STRANDED", "BACKLOG"}
      BY <1>1, <2>3, RadioKeeps DEF RadioNumbers, Radio!Unplug
    <3>2. QED
      BY <1>1, <2>2, <2>3, <3>1 DEF RadioNumbers, T, Radio!Unplug
  <2>4. CASE ~Radio!Unplug
    BY <1>1, <2>2, <2>4 DEF RadioNumbers, T, RadioOther, Radio!Plug, Radio!Detach,
       Radio!LoseReady, Radio!Send, Radio!SendLate, Radio!WriteOrQueue, Radio!Mishap,
       Radio!MayOccur, Radio!vars, Radio!world, Radio!radio, Radio!traffic
  <2>5. QED
    BY <2>3, <2>4
<1>5. QED
  BY <1>1, <1>2, <1>3, <1>4, RadioTypeParts

\* Every variable of the radio driver has its type.
THEOREM RadioTypeCorrect == Radio!Spec => []Radio!TypeOK
<1>1. Radio!TypeOK /\ [Radio!Next]_(Radio!vars) => Radio!TypeOK'
  BY ThreadsAssumption, RadioConfigureType, RadioThreadType, RadioOtherType
     DEF RadioOther, Radio!Next
<1>2. QED
  BY <1>1, RadioInitType, PTL DEF Radio!Spec

-----------------------------------------------------------------------------
\* No thread lingered and none met another between a check and what depends on it.
Apart == incidents \cap {"LINGER", "TOGETHER"} = {}

\* The constructor does not reconnect, and starts the first of the other threads.
MainInv ==
  /\ pc[Main] \in {"NONE", "OPEN"} \cup Radio!Configuring
  /\ pc[Main] \in {"OPEN", "START_READER"} => \A t \in Threads : pc[t] = "NONE"

\* A port that is open is in use or about to be.
PortInv ==
  port = "OPEN" => radioOnline \/ \E t \in Threads \cup {Main} : pc[t] \in Radio!Configuring

\* One loop at most reconnects, and reconnecting tells of it.
LoopInv ==
  /\ \A t \in Threads : pc[t] \notin {"ENTER", "LEAVE"}
  /\ tested = {}
  /\ \A t, u \in Radio!Looping : t = u
  /\ Radio!Looping # {} => reconnecting

\* While the constructor works, another thread is the reader it started or, the port
\* being gone, what became of it.
AloneInv ==
  pc[Main] # "NONE" =>
    /\ \A t, u \in Threads : pc[t] # "NONE" /\ pc[u] # "NONE" => t = u
    /\ \A t \in Threads : /\ pc[t] \notin Radio!Configuring
                          /\ pc[t] \notin {"NONE", "READ"} => port # "OPEN"

\* A port is opened only when the last one is gone, and its reader with it.
ReaderInv ==
  /\ \A t, u \in Radio!Reading : t = u
  /\ \A t \in Threads \cup {Main} : /\ pc[t] = "OPEN" => port # "OPEN"
                                    /\ pc[t] = "START_READER" => Radio!Reading = {}

\* An interface is not configured while it is online, and the device has a frame only
\* of an interface that is online, which is not ready until it was sent.
FrameInv ==
  /\ \A t \in Threads \cup {Main} : pc[t] \in {"OPEN"} \cup Radio!Configuring => ~radioOnline
  /\ ~radioOnline \/ port # "OPEN" => frames = 0
  /\ FlowControl => frames <= 1 /\ (ready => frames = 0)

ThreadsInv == MainInv /\ PortInv /\ (Apart => LoopInv /\ AloneInv /\ ReaderInv)
RadioInv   == ThreadsInv /\ (Apart /\ incidents \cap {"MUTE", "KEPT", "STRANDED"} = {} => FrameInv)

\* There is no thread but the constructor at first, and no port.
LEMMA RadioInitInv == ASSUME Main \notin Threads PROVE Radio!Init => RadioInv
  BY DEF Radio!Init, RadioInv, ThreadsInv, Apart, MainInv, PortInv, LoopInv, AloneInv,
     ReaderInv, FrameInv, Radio!Looping, Radio!Reading, Radio!Configuring

\* No step but those of the constructor moves it, and it starts its reader last of all
\* but the questions to the device (RNodeInterface.__init__(), open_port()).
LEMMA MainStep ==
  ASSUME Radio!TypeOK, Main \notin Threads, MainInv, [Radio!Next]_(Radio!vars)
  PROVE  MainInv'
<1>1. ASSUME NEW t \in Threads \cup {Main}, Radio!Configure(t) PROVE MainInv'
  <2>1. CASE Radio!OpenPort(t)
    BY <2>1, RadioGo, RadioRaised DEF MainInv, Radio!OpenPort, Radio!Places, Radio!Configuring
  <2>2. CASE Radio!StartReader(t)
    BY <2>2 DEF Radio!TypeOK, MainInv, Radio!StartReader, Radio!NewThreads, Radio!Places,
       Radio!Configuring
  <2>3. CASE Radio!Detect(t) \/ Radio!InitRadio(t)
    BY <2>3, RadioGo, RadioRaised DEF MainInv, Radio!Detect, Radio!InitRadio, Radio!Ask,
       Radio!Places, Radio!Configuring
  <2>4. CASE Radio!AwaitDetect(t) \/ Radio!ValidateRadioState(t) \/ Radio!GoOnline(t)
    BY <2>4, RadioGo DEF MainInv, Radio!AwaitDetect, Radio!ValidateRadioState, Radio!GoOnline,
       Radio!GiveUp, Radio!Returned, Radio!Places, Radio!Configuring
  <2>5. QED
    BY <1>1, <2>1, <2>2, <2>3, <2>4 DEF Radio!Configure
<1>2. ASSUME NEW t \in Threads, Radio!Read(t) \/ Radio!Loop(t) PROVE MainInv'
  BY <1>2 DEF Radio!TypeOK, MainInv, Radio!Read, Radio!Loop, Radio!ReadAnswer, Radio!ReadReady,
     Radio!EndReading, Radio!Reconnect, Radio!EnterLoop, Radio!Retry, Radio!LeaveLoop, Radio!Go,
     Radio!Places, Radio!Configuring
<1>3. ASSUME RadioOther PROVE MainInv'
  BY <1>3 DEF MainInv, RadioOther, Radio!Unplug, Radio!Plug, Radio!Detach, Radio!LoseReady,
     Radio!Send, Radio!SendLate, Radio!vars
<1>4. QED
  BY <1>1, <1>2, <1>3 DEF RadioOther, Radio!Next

\* Whoever leaves configure_device() without being online closes the port, and so does
\* a reader that sets online to FALSE.
LEMMA PortStep ==
  ASSUME Radio!TypeOK, Main \notin Threads, PortInv, [Radio!Next]_(Radio!vars)
  PROVE  PortInv'
<1>1. ASSUME NEW t \in Threads \cup {Main}, Radio!Configure(t) PROVE PortInv'
  <2>1. CASE Radio!OpenPort(t)
    BY <2>1, RadioGo, RadioRaised DEF PortInv, Radio!OpenPort, Radio!Places, Radio!Configuring,
       Radio!TypeOK
  <2>2. CASE Radio!StartReader(t)
    BY <2>2 DEF Radio!TypeOK, PortInv, Radio!StartReader, Radio!NewThreads, Radio!Places,
       Radio!Configuring
  <2>3. CASE Radio!Detect(t) \/ Radio!InitRadio(t)
    BY <2>3, RadioGo, RadioRaised DEF PortInv, Radio!Detect, Radio!InitRadio, Radio!Ask,
       Radio!Places, Radio!Configuring
  <2>4. CASE Radio!AwaitDetect(t) \/ Radio!ValidateRadioState(t) \/ Radio!GoOnline(t)
    BY <2>4, RadioGo DEF PortInv, Radio!AwaitDetect, Radio!ValidateRadioState, Radio!GoOnline,
       Radio!GiveUp, Radio!Returned, Radio!Places, Radio!Configuring
  <2>5. QED
    BY <1>1, <2>1, <2>2, <2>3, <2>4 DEF Radio!Configure
<1>2. ASSUME NEW t \in Threads, Radio!Read(t) \/ Radio!Loop(t) PROVE PortInv'
  BY <1>2 DEF Radio!TypeOK, PortInv, Radio!Read, Radio!Loop, Radio!ReadAnswer, Radio!ReadReady,
     Radio!EndReading, Radio!Reconnect, Radio!EnterLoop, Radio!Retry, Radio!LeaveLoop, Radio!Go,
     Radio!Places, Radio!Configuring, Radio!flags
<1>3. ASSUME RadioOther PROVE PortInv'
  BY <1>3 DEF PortInv, RadioOther, Radio!Unplug, Radio!Plug, Radio!Detach, Radio!LoseReady,
     Radio!Send, Radio!SendLate, Radio!vars, Radio!flags
<1>4. QED
  BY <1>1, <1>2, <1>3 DEF RadioOther, Radio!Next

\* Mishaps are not forgotten.
LEMMA RadioPastGrows == [Radio!Next]_(Radio!vars) => incidents \subseteq incidents'
<1>1. ASSUME NEW t, Radio!Configure(t) PROVE incidents \subseteq incidents'
  BY <1>1 DEF Radio!Configure, Radio!OpenPort, Radio!StartReader, Radio!Detect, Radio!InitRadio,
     Radio!Ask, Radio!AwaitDetect, Radio!ValidateRadioState, Radio!GoOnline, Radio!Raised,
     Radio!Awaited, Radio!Mishap
<1>2. ASSUME NEW t, Radio!Read(t) \/ Radio!Loop(t) PROVE incidents \subseteq incidents'
  BY <1>2 DEF Radio!Read, Radio!Loop, Radio!ReadAnswer, Radio!ReadReady, Radio!EndReading,
     Radio!Reconnect, Radio!EnterLoop, Radio!Retry, Radio!LeaveLoop, Radio!Mishap
<1>3. ASSUME RadioOther PROVE incidents \subseteq incidents'
  BY <1>3 DEF RadioOther, Radio!Unplug, Radio!Plug, Radio!Detach, Radio!LoseReady, Radio!Send,
     Radio!SendLate, Radio!vars, Radio!Mishap
<1>4. QED
  BY <1>1, <1>2, <1>3 DEF RadioOther, Radio!Next

\* A reader or the constructor turns to reconnecting only if no thread does.
LEMMA LoopStep ==
  ASSUME Radio!TypeOK, Main \notin Threads, LoopInv, [Radio!Next]_(Radio!vars), Apart, Apart'
  PROVE  LoopInv'
<1>1. ASSUME NEW t \in Threads \cup {Main}, Radio!Configure(t) PROVE LoopInv'
  <2> tested' = tested
    BY <1>1 DEF Radio!Configure, Radio!OpenPort, Radio!StartReader, Radio!Detect,
       Radio!InitRadio, Radio!Ask, Radio!AwaitDetect, Radio!ValidateRadioState, Radio!GoOnline,
       Radio!traffic
  <2>1. CASE Radio!OpenPort(t)
    BY <2>1, RadioGo, RadioRaised DEF LoopInv, Radio!Looping, Radio!OpenPort, Radio!Places,
       Radio!Configuring, Radio!Mishap, Apart
  <2>2. CASE Radio!StartReader(t)
    BY <2>2 DEF Radio!TypeOK, LoopInv, Radio!Looping, Radio!StartReader, Radio!NewThreads,
       Radio!Places, Radio!Configuring, Radio!flags
  <2>3. CASE Radio!Detect(t) \/ Radio!InitRadio(t)
    BY <2>3, RadioGo, RadioRaised DEF LoopInv, Radio!Looping, Radio!Detect, Radio!InitRadio,
       Radio!Ask, Radio!Places, Radio!Configuring, Radio!Mishap, Apart
  <2>4. CASE Radio!AwaitDetect(t) \/ Radio!ValidateRadioState(t) \/ Radio!GoOnline(t)
    BY <2>4, RadioGo DEF LoopInv, Radio!Looping, Radio!AwaitDetect, Radio!ValidateRadioState,
       Radio!GoOnline, Radio!GiveUp, Radio!Returned, Radio!Places, Radio!Configuring,
       Radio!flags
  <2>5. QED
    BY <1>1, <2>1, <2>2, <2>3, <2>4 DEF Radio!Configure
<1>2. ASSUME NEW t \in Threads, Radio!Read(t) \/ Radio!Loop(t) PROVE LoopInv'
  BY <1>2 DEF Radio!TypeOK, LoopInv, Radio!Looping, Radio!Read, Radio!Loop, Radio!ReadAnswer,
     Radio!ReadReady, Radio!EndReading, Radio!Reconnect, Radio!EnterLoop, Radio!Retry,
     Radio!LeaveLoop, Radio!Go, Radio!Places, Radio!Configuring, Radio!flags, Radio!traffic,
     Radio!Mishap, Apart, Radio!TakesOver
<1>3. ASSUME RadioOther PROVE LoopInv'
  BY <1>3 DEF LoopInv, Radio!Looping, RadioOther, Radio!Unplug, Radio!Plug, Radio!Detach,
     Radio!LoseReady, Radio!Send, Radio!SendLate, Radio!vars, Radio!flags, Radio!traffic, Apart,
     Radio!Mishap
<1>4. QED
  BY <1>1, <1>2, <1>3 DEF RadioOther, Radio!Next

\* The constructor meets the reader it started, and what became of that reader once its
\* port is gone, but no thread that configures the device.
LEMMA AloneStep ==
  ASSUME Radio!TypeOK, Main \notin Threads, MainInv, LoopInv, AloneInv,
         [Radio!Next]_(Radio!vars), Apart, Apart'
  PROVE  AloneInv'
<1>1. ASSUME NEW t \in Threads \cup {Main}, Radio!Configure(t) PROVE AloneInv'
  <2>1. CASE Radio!OpenPort(t)
    BY <2>1, RadioGo, RadioRaised DEF MainInv, AloneInv, Radio!OpenPort, Radio!Settled,
       Radio!Places, Radio!Configuring, Radio!Mishap, Apart
  <2>2. CASE Radio!StartReader(t)
    BY <2>2 DEF Radio!TypeOK, MainInv, AloneInv, Radio!StartReader, Radio!NewThreads,
       Radio!Places, Radio!Configuring
  <2>3. CASE Radio!Detect(t) \/ Radio!InitRadio(t)
    BY <2>3, RadioGo, RadioRaised DEF AloneInv, Radio!Detect, Radio!InitRadio, Radio!Ask,
       Radio!Places, Radio!Configuring
  <2>4. CASE Radio!AwaitDetect(t) \/ Radio!ValidateRadioState(t) \/ Radio!GoOnline(t)
    BY <2>4, RadioGo DEF AloneInv, Radio!AwaitDetect, Radio!ValidateRadioState, Radio!GoOnline,
       Radio!GiveUp, Radio!Returned, Radio!Places, Radio!Configuring
  <2>5. QED
    BY <1>1, <2>1, <2>2, <2>3, <2>4 DEF Radio!Configure
<1>2. ASSUME NEW t \in Threads, Radio!Read(t) \/ Radio!Loop(t) PROVE AloneInv'
  BY <1>2 DEF Radio!TypeOK, AloneInv, LoopInv, Radio!Read, Radio!Loop, Radio!ReadAnswer,
     Radio!ReadReady, Radio!EndReading, Radio!Reconnect, Radio!EnterLoop, Radio!Retry,
     Radio!LeaveLoop, Radio!Go, Radio!Places, Radio!Configuring
<1>3. ASSUME RadioOther PROVE AloneInv'
  BY <1>3 DEF AloneInv, RadioOther, Radio!Unplug, Radio!Plug, Radio!Detach, Radio!LoseReady,
     Radio!Send, Radio!SendLate, Radio!vars
<1>4. QED
  BY <1>1, <1>2, <1>3 DEF RadioOther, Radio!Next

\* Whoever opens a port finds the last one closed and its reader ended, and is the only
\* one to start a reader.
LEMMA ReaderStep ==
  ASSUME Radio!TypeOK, Main \notin Threads, ThreadsInv, [Radio!Next]_(Radio!vars), Apart, Apart'
  PROVE  ReaderInv'
<1>0. MainInv /\ PortInv /\ LoopInv /\ AloneInv /\ ReaderInv
  BY DEF ThreadsInv
<1>1. ASSUME NEW t \in Threads \cup {Main}, Radio!Configure(t) PROVE ReaderInv'
  <2>1. CASE Radio!OpenPort(t)
    BY <1>0, <2>1, RadioGo, RadioRaised DEF MainInv, LoopInv, ReaderInv, Radio!Reading,
       Radio!Looping, Radio!OpenPort, Radio!Settled, Radio!Places, Radio!Configuring,
       Radio!Mishap, Apart
  <2>2. CASE Radio!StartReader(t)
    BY <1>0, <2>2 DEF Radio!TypeOK, MainInv, LoopInv, AloneInv, ReaderInv, Radio!Reading,
       Radio!Looping, Radio!StartReader, Radio!NewThreads, Radio!Places, Radio!Configuring
  <2>3. CASE Radio!Detect(t) \/ Radio!InitRadio(t)
    BY <1>0, <2>3, RadioGo, RadioRaised DEF ReaderInv, Radio!Reading, Radio!Detect,
       Radio!InitRadio, Radio!Ask, Radio!Places, Radio!Configuring
  <2>4. CASE Radio!AwaitDetect(t) \/ Radio!ValidateRadioState(t) \/ Radio!GoOnline(t)
    BY <1>0, <2>4, RadioGo DEF ReaderInv, Radio!Reading, Radio!AwaitDetect,
       Radio!ValidateRadioState, Radio!GoOnline, Radio!GiveUp, Radio!Returned, Radio!Places,
       Radio!Configuring
  <2>5. QED
    BY <1>1, <2>1, <2>2, <2>3, <2>4 DEF Radio!Configure
<1>2. ASSUME NEW t \in Threads, Radio!Read(t) \/ Radio!Loop(t) PROVE ReaderInv'
  <2>1. CASE Radio!Read(t)
    BY <1>0, <2>1 DEF Radio!TypeOK, ReaderInv, Radio!Reading, Radio!Read, Radio!ReadAnswer,
       Radio!ReadReady, Radio!EndReading, Radio!Go, Radio!Places, Radio!Configuring
  <2>2. CASE Radio!Retry(t)
    <3>1. pc[t] = "RETRY" /\ ~radioOnline => port # "OPEN"
      BY <1>0, <2>2 DEF PortInv, LoopInv, AloneInv, Radio!Looping, Radio!Configuring
    <3>2. QED
      BY <1>0, <2>2, <3>1 DEF Radio!TypeOK, ReaderInv, Radio!Reading, Radio!Retry, Radio!Go,
         Radio!Places, Radio!Configuring
  <2>3. CASE Radio!Reconnect(t) \/ Radio!EnterLoop(t) \/ Radio!LeaveLoop(t)
    BY <1>0, <2>3 DEF Radio!TypeOK, ReaderInv, Radio!Reading, Radio!Reconnect, Radio!EnterLoop,
       Radio!LeaveLoop, Radio!Go, Radio!Places, Radio!Configuring
  <2>4. QED
    BY <1>2, <2>1, <2>2, <2>3 DEF Radio!Loop
<1>3. ASSUME RadioOther PROVE ReaderInv'
  BY <1>0, <1>3 DEF ReaderInv, Radio!Reading, RadioOther, Radio!Unplug, Radio!Plug,
     Radio!Detach, Radio!LoseReady, Radio!Send, Radio!SendLate, Radio!vars
<1>4. QED
  BY <1>1, <1>2, <1>3 DEF RadioOther, Radio!Next

\* Nothing happened that flow control does not cope with.
Served == Apart /\ incidents \cap {"MUTE", "KEPT", "STRANDED"} = {}

\* With flow control a frame goes to the device only when it holds none.
LEMMA FrameStep ==
  ASSUME Radio!TypeOK, Main \notin Threads, ThreadsInv, FrameInv,
         [Radio!Next]_(Radio!vars), Served, Served'
  PROVE  FrameInv'
<1>0. MainInv /\ PortInv /\ LoopInv /\ AloneInv /\ ReaderInv
  BY DEF ThreadsInv, Served
<1>1. ASSUME NEW t \in Threads \cup {Main}, Radio!Configure(t) PROVE FrameInv'
  <2> frames' = frames
    BY <1>1 DEF Radio!Configure, Radio!OpenPort, Radio!StartReader, Radio!Detect,
       Radio!InitRadio, Radio!Ask, Radio!AwaitDetect, Radio!ValidateRadioState, Radio!GoOnline,
       Radio!traffic
  <2>1. CASE Radio!OpenPort(t)
    BY <2>1, RadioGo, RadioRaised DEF FrameInv, Radio!OpenPort, Radio!Places, Radio!Configuring,
       Radio!traffic
  <2>2. CASE Radio!StartReader(t)
    BY <2>2 DEF Radio!TypeOK, FrameInv, Radio!StartReader, Radio!NewThreads, Radio!Places,
       Radio!Configuring, Radio!flags, Radio!traffic
  <2>3. CASE Radio!Detect(t) \/ Radio!InitRadio(t)
    BY <2>3, RadioGo, RadioRaised DEF FrameInv, Radio!Detect, Radio!InitRadio, Radio!Ask,
       Radio!Places, Radio!Configuring, Radio!traffic
  <2>4. CASE Radio!AwaitDetect(t) \/ Radio!ValidateRadioState(t)
    BY <2>4, RadioGo DEF FrameInv, Radio!AwaitDetect, Radio!ValidateRadioState, Radio!GiveUp,
       Radio!Returned, Radio!Places, Radio!Configuring, Radio!flags, Radio!traffic
  <2>5. CASE Radio!GoOnline(t)
    <3>1. Radio!Reading # {}
      BY <2>5 DEF Radio!GoOnline, Served
    <3>2. PICK r \in Threads : pc[r] = "READ"
      BY <3>1 DEF Radio!Reading
    <3>3. \A u \in (Threads \cup {Main}) \ {t} : pc[u] \notin {"OPEN"} \cup Radio!Configuring
      BY <1>0, <2>5, <3>2 DEF LoopInv, AloneInv, MainInv, Radio!Looping, Radio!GoOnline,
         Radio!Configuring
    <3>4. pc'[t] \in {"NONE", "RETRY"} /\ \A u \in (Threads \cup {Main}) \ {t} : pc'[u] = pc[u]
      BY <2>5, RadioGo DEF Radio!GoOnline, Radio!Returned, Radio!Places
    <3>5. QED
      BY <2>5, <3>3, <3>4 DEF FrameInv, Radio!GoOnline, Radio!Configuring, Radio!traffic
  <2>6. QED
    BY <1>1, <2>1, <2>2, <2>3, <2>4, <2>5 DEF Radio!Configure
<1>2. ASSUME NEW t \in Threads, Radio!Read(t) \/ Radio!Loop(t) PROVE FrameInv'
  <2>1. CASE Radio!ReadAnswer(t)
    BY <2>1 DEF Radio!TypeOK, FrameInv, Radio!ReadAnswer, Radio!Places, Radio!Configuring,
       Radio!flags, Radio!traffic
  <2>2. CASE Radio!ReadReady(t)
    BY <2>2 DEF Radio!TypeOK, FrameInv, Radio!ReadReady, Radio!SendNext, Radio!flags
  <2>3. CASE Radio!EndReading(t)
    <3>1. frames' = 0
      BY <2>3, RadioKeeps DEF FrameInv, Served, Radio!EndReading
    <3>2. QED
      BY <2>3, <3>1 DEF Radio!TypeOK, FrameInv, Radio!EndReading, Radio!Go, Radio!Places,
         Radio!Configuring
  <2>4. CASE Radio!Loop(t)
    BY <2>4 DEF Radio!TypeOK, FrameInv, Radio!Loop, Radio!Reconnect, Radio!EnterLoop,
       Radio!Retry, Radio!LeaveLoop, Radio!Go, Radio!Places, Radio!Configuring, Radio!traffic
  <2>5. QED
    BY <1>2, <2>1, <2>2, <2>3, <2>4 DEF Radio!Read
<1>3. CASE Radio!Send \/ Radio!SendLate
  <2>1. tested = {} /\ radioOnline /\ Radio!Send
    BY <1>0, <1>3 DEF LoopInv, Radio!Send, Radio!SendLate
  <2>2. pc' = pc /\ port' = port /\ radioOnline' = radioOnline
    BY <2>1 DEF Radio!Send, Radio!flags
  <2>3. CASE UNCHANGED <<ready, frames>>
    BY <2>2, <2>3 DEF FrameInv
  <2>4. CASE Radio!WriteOrQueue(ready) /\ ready
    <3>1. FlowControl => ~ready'
      BY <2>4, Zenon DEF Radio!WriteOrQueue
    <3>2. frames' = IF port = "OPEN" THEN frames + 1 ELSE frames
      BY <2>4 DEF Radio!WriteOrQueue
    <3>3. FlowControl => frames = 0
      BY <2>4 DEF FrameInv
    <3>4. QED
      BY <2>1, <2>2, <3>1, <3>2, <3>3 DEF FrameInv
  <2>5. QED
    BY <2>1, <2>3, <2>4, Zenon DEF Radio!Send, Radio!WriteOrQueue, Served, Radio!Mishap
<1>4. ASSUME Radio!Unplug \/ Radio!Plug \/ Radio!Detach \/ Radio!LoseReady \/ UNCHANGED Radio!vars
      PROVE  FrameInv'
  <2>1. CASE Radio!Unplug
    <3>1. frames' = 0
      BY <2>1, RadioKeeps DEF Served, Radio!Unplug
    <3>2. QED
      BY <2>1, <3>1 DEF FrameInv, Radio!Unplug, Radio!flags
  <2>2. CASE ~Radio!Unplug
    BY <1>4, <2>2 DEF FrameInv, Served, Radio!Plug, Radio!Detach, Radio!LoseReady, Radio!vars,
       Radio!flags, Radio!traffic, Radio!Mishap
  <2>3. QED
    BY <2>1, <2>2
<1>5. QED
  BY <1>1, <1>2, <1>3, <1>4 DEF RadioOther, Radio!Next

\* Every step of the radio driver preserves the invariant.
LEMMA RadioStep ==
  ASSUME Radio!TypeOK, Main \notin Threads, RadioInv, [Radio!Next]_(Radio!vars)
  PROVE  RadioInv'
<1>1. incidents \subseteq incidents'
  BY RadioPastGrows
<1>2. (Apart' => Apart) /\ (Served' => Served)
  BY <1>1 DEF Apart, Served
<1>3. ThreadsInv'
  BY <1>2, MainStep, PortStep, LoopStep, AloneStep, ReaderStep DEF RadioInv, ThreadsInv
<1>4. Served' => FrameInv'
  BY <1>2, FrameStep DEF RadioInv, Served
<1>5. QED
  BY <1>3, <1>4 DEF RadioInv, Served

\* The cardinality of a set whose elements are all the same.
LEMMA AtMostOneOf ==
  ASSUME NEW S, \A x, y \in S : x = y PROVE Cardinality(S) <= 1
<1>1. CASE S = {}
  BY <1>1, FS_EmptySet
<1>2. CASE S # {}
  <2>1. PICK x \in S : S = {x}
    BY <1>2
  <2>2. QED
    BY <2>1, FS_Singleton
<1>3. QED
  BY <1>1, <1>2

\* One thread at most reads the port of a radio interface and one at most reconnects,
\* and with flow control the device has one frame at most, unless a thread lingers or
\* two meet, the device is mute or the interface went online without a reader
\* (RNodeInterface.readLoop(), reconnect_port(), process_queue()).
THEOREM RadioOneAtATime == Radio!Spec => []OneAtATime
<1>1. RadioInv => OneAtATime
  BY AtMostOneOf DEF RadioInv, ThreadsInv, LoopInv, ReaderInv, FrameInv, Apart, OneAtATime,
     Reading, Looping, Configuring, Radio!Reading, Radio!Looping, Radio!Configuring
<1>2. Radio!TypeOK /\ RadioInv /\ [Radio!Next]_(Radio!vars) => RadioInv'
  BY ThreadsAssumption, RadioStep
<1>3. Radio!Init => RadioInv
  BY ThreadsAssumption, RadioInitInv
<1>4. QED
  BY <1>1, <1>2, <1>3, RadioTypeCorrect, PTL DEF Radio!Spec

-----------------------------------------------------------------------------
\* What is needed of the threads: a reader while the interface is online, a loop while
\* reconnecting is set, and a thread at least unless the interface was detached or its
\* constructor has not started one.
WorkInv ==
  /\ "STRANDED" \notin incidents /\ radioOnline => Radio!Reading # {}
  /\ "TOGETHER" \notin incidents =>
       /\ \A t \in Threads : pc[t] \notin {"ENTER", "LEAVE"}
       /\ reconnecting => Radio!Looping # {}
       /\ ~radioOnline /\ ~detached /\ pc[Main] \notin {"OPEN", "START_READER"} =>
            \E t \in Threads : pc[t] # "NONE"

\* An interface that was not detached is online with a reader that will notice its end,
\* or some thread brings it online: the constructor, a loop, or a reader that has ended
\* or is to end because its port is gone, and that will find no one reconnecting.
NeverAbandoned ==
  incidents \cap {"STRANDED", "TOGETHER"} = {} /\ ~detached =>
    IF radioOnline THEN Radio!Reading # {}
    ELSE \/ pc[Main] # "NONE" \/ Radio!Looping # {}
         \/ /\ ~reconnecting
            /\ \E t \in Threads : pc[t] = "AFTER_READ" \/ (pc[t] = "READ" /\ port # "OPEN")

\* An interface goes online with its reader, unless it is stranded; who reconnects
\* stops when the interface is online, and a reader that ends does so unless another
\* does.
LEMMA WorkStep ==
  ASSUME Radio!TypeOK, Main \notin Threads, MainInv, WorkInv, [Radio!Next]_(Radio!vars)
  PROVE  WorkInv'
<1>0. incidents \subseteq incidents'
  BY RadioPastGrows
<1>1. ASSUME NEW t \in Threads \cup {Main}, Radio!Configure(t) PROVE WorkInv'
  <2>1. CASE Radio!OpenPort(t)
    BY <1>0, <2>1, RadioGo, RadioRaised DEF MainInv, WorkInv, Radio!Reading, Radio!Looping,
       Radio!OpenPort, Radio!Places, Radio!Configuring, Radio!Mishap
  <2>2. CASE Radio!StartReader(t)
    BY <1>0, <2>2 DEF Radio!TypeOK, MainInv, WorkInv, Radio!Reading, Radio!Looping,
       Radio!StartReader, Radio!NewThreads, Radio!Places, Radio!Configuring, Radio!flags
  <2>3. CASE Radio!Detect(t) \/ Radio!InitRadio(t)
    BY <1>0, <2>3, RadioGo, RadioRaised DEF MainInv, WorkInv, Radio!Reading, Radio!Looping,
       Radio!Detect, Radio!InitRadio, Radio!Ask, Radio!Places, Radio!Configuring, Radio!Mishap
  <2>4. CASE Radio!AwaitDetect(t) \/ Radio!ValidateRadioState(t) \/ Radio!GoOnline(t)
    BY <1>0, <2>4, RadioGo DEF MainInv, WorkInv, Radio!Reading, Radio!Looping,
       Radio!AwaitDetect, Radio!ValidateRadioState, Radio!GoOnline, Radio!GiveUp,
       Radio!Returned, Radio!Places, Radio!Configuring, Radio!flags
  <2>5. QED
    BY <1>1, <2>1, <2>2, <2>3, <2>4 DEF Radio!Configure
<1>2. ASSUME NEW t \in Threads, Radio!Read(t) PROVE WorkInv'
  BY <1>0, <1>2 DEF Radio!TypeOK, MainInv, WorkInv, Radio!Reading, Radio!Looping, Radio!Read,
     Radio!ReadAnswer, Radio!ReadReady, Radio!EndReading, Radio!Go, Radio!Places,
     Radio!Configuring, Radio!flags
<1>3. ASSUME NEW t \in Threads, Radio!Loop(t) PROVE WorkInv'
  BY <1>0, <1>3 DEF Radio!TypeOK, MainInv, WorkInv, Radio!Reading, Radio!Looping, Radio!Loop,
     Radio!Reconnect, Radio!EnterLoop, Radio!Retry, Radio!LeaveLoop, Radio!TakesOver, Radio!Go,
     Radio!Places, Radio!Configuring, Radio!Mishap
<1>4. ASSUME RadioOther PROVE WorkInv'
  BY <1>0, <1>4 DEF WorkInv, Radio!Reading, Radio!Looping, RadioOther, Radio!Unplug, Radio!Plug,
     Radio!Detach, Radio!LoseReady, Radio!Send, Radio!SendLate, Radio!vars, Radio!flags
<1>5. QED
  BY <1>1, <1>2, <1>3, <1>4 DEF RadioOther, Radio!Next

\* Unless it goes online without a reader, or threads meet between a check and what
\* depends on it, a radio interface that is not detached is never abandoned.
THEOREM RadioNeverAbandoned == Radio!Spec => []NeverAbandoned
<1>1. Radio!Init => WorkInv /\ RadioInv
  BY ThreadsAssumption, RadioInitInv DEF Radio!Init, WorkInv
<1>2. Radio!TypeOK /\ RadioInv /\ WorkInv /\ [Radio!Next]_(Radio!vars) => WorkInv' /\ RadioInv'
  BY ThreadsAssumption, WorkStep, RadioStep DEF RadioInv, ThreadsInv
<1>3. Radio!TypeOK /\ RadioInv /\ WorkInv => NeverAbandoned
  <2> SUFFICES ASSUME Radio!TypeOK, MainInv, PortInv, WorkInv, ~detached, ~radioOnline,
                      incidents \cap {"STRANDED", "TOGETHER"} = {},
                      pc[Main] = "NONE", Radio!Looping = {}
               PROVE  /\ ~reconnecting
                      /\ \E t \in Threads :
                           pc[t] = "AFTER_READ" \/ (pc[t] = "READ" /\ port # "OPEN")
    BY DEF NeverAbandoned, WorkInv, RadioInv, ThreadsInv
  <2>1. PICK t \in Threads : pc[t] # "NONE"
    BY DEF WorkInv
  <2>2. pc[t] \in {"READ", "AFTER_READ"}
    BY <2>1 DEF WorkInv, Radio!TypeOK, Radio!Looping, Radio!Places
  <2>3. port # "OPEN"
    BY DEF PortInv, Radio!Looping, Radio!Configuring
  <2>4. QED
    BY <2>2, <2>3 DEF WorkInv
<1>4. QED
  BY <1>1, <1>2, <1>3, RadioTypeCorrect, PTL DEF Radio!Spec
=============================================================================
