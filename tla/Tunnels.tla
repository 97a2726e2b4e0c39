------------------------------- MODULE Tunnels -------------------------------
(***************************************************************************)
(* A transport node behind a TCP client (RNS/Interfaces/TCPInterface.py),  *)
(* the tunnel that keeps its paths over reconnections, and what the other  *)
(* node saves and loads (RNS/Transport.py, RNS/Identity.py).  The client   *)
(* passes on the announces of one destination, which the other node may    *)
(* also hear on an interface that is always there.  Connections break and  *)
(* either end finds out in its own time; the node crashes, or ends and     *)
(* saves its tables.  A connection is the number of its order, Lan the     *)
(* interface that is always there, an announce the number of its emission. *)
(***************************************************************************)
EXTENDS Integers, Sequences, FiniteSets

CONSTANTS
  MaxEmitted,     \* announces of the destination
  TunnelHops,     \* how far away the destination is through the client
  LanHops,        \* and how far it may be on the other interface
  MaxMishaps,     \* mishaps that occur
  Faults          \* the mishaps that may occur:
                  \*   "BREAK"    a connection is lost
                  \*   "CRASH"    the node's program ends at once
                  \*   "STOP"     it ends by exit_handler()
                  \*   "EXPIRY"   a tunnel was silent for DESTINATION_TIMEOUT
                  \*   "OVERLAP"  jobs() and inbound() both find the other idle

ASSUME NumbersAssumption == MaxEmitted \in Nat /\ TunnelHops \in Nat /\ LanHops \subseteq Nat /\ MaxMishaps \in Nat
ASSUME FaultsAssumption == Faults \subseteq {"BREAK", "CRASH", "STOP", "EXPIRY", "OVERLAP"}

Lan == 0

\* Each mishap ends a connection at most.
Connections == 1 .. MaxMishaps + 1

Announces == 1 .. MaxEmitted

\* The packet of synthesize_tunnel(), beside the announces.
SYNTHESIZE == 0

VARIABLES
  emitted,      \* announces emitted
  conn,         \* the client's socket: the connection, or the last there was; 0 at first
  online,       \* online of the client
  OUT,          \* OUT of the client
  reader,       \* the client's thread: in read_loop() or in reconnect()
  tunnelling,   \* threads of the client that are to synthesize a tunnel
  queue,        \* what is on its way to the node, by connection
  cut,          \* connections that are closed or broken
  spawned,      \* the node's interface of each connection
  tunnel_id,    \* connections whose interface has a tunnel_id
  up,           \* whether the node's program runs
  exiting,      \* whether exit_handler() runs
  path,         \* the node's path_table: the path to the destination, if any
  tunnel,       \* the entry of tunnels, if any: its interface and its path, if any
  cache,        \* announces in the cache on disk
  known,        \* whether the destination's identity is in known_destinations
  jobs_locked,
  cleaning,     \* announces a cleaning of the cache spares, while it is under way
  saver,        \* the file that is to be saved next, "NONE" when none is
  open,         \* what is to be written to the file that is open, if one is
  disk,         \* the files
  overheard,    \* announces heard on Lan
  heard,        \* whether an announce was accepted over the tunnel
  mishaps,      \* how many mishaps occurred
  past          \* and which, with what followed from them

client == <<conn, online, OUT, reader, tunnelling>>
tables == <<path, tunnel, known, tunnel_id, heard>>
files  == <<saver, open, disk, exiting>>
rest   == <<emitted, overheard, up>>
vars   == <<client, tables, files, rest, queue, cut, spawned, cache, jobs_locked, cleaning, mishaps, past>>

-----------------------------------------------------------------------------
(***************************************************************************)
(* State.                                                                  *)
(***************************************************************************)

Mishap(kind) ==
  /\ kind \in Faults /\ mishaps < MaxMishaps
  /\ mishaps' = mishaps + 1
  /\ past' = past \cup {kind}

\* Whether the interface is in Transport.interfaces.
Listed(via) == via = Lan \/ spawned[via] = "LISTED"

\* The files: paths on Lan, the path of the tunnel, and whether the identity is known.
Files == {"PATHS", "TUNNELS", "KNOWN"}

Init ==
  /\ emitted = 0 /\ overheard = {} /\ heard = FALSE
  /\ conn = 0 /\ online = FALSE /\ OUT = TRUE /\ reader = "RECONNECT" /\ tunnelling = 0
  /\ queue = [c \in Connections |-> << >>] /\ cut = {} /\ spawned = [c \in Connections |-> "NONE"]
  /\ tunnel_id = {} /\ path = {} /\ tunnel = {} /\ known = FALSE
  /\ up = TRUE /\ exiting = FALSE
  /\ cache = {} /\ disk = [f \in Files |-> {}]
  /\ jobs_locked = FALSE /\ cleaning = {} /\ saver = "NONE" /\ open = {}
  /\ mishaps = 0 /\ past = {}

-----------------------------------------------------------------------------
(***************************************************************************)
(* The client.                                                             *)
(***************************************************************************)

\* incoming_connection() at the node.
Spawn(c) == spawned' = [spawned EXCEPT ![c] = "LISTED"]

\* connect(), in initial_connect() or in reconnect(), which starts a reader and goes
\* on to synthesize a tunnel.
Connect ==
  /\ reader = "RECONNECT" /\ up /\ ~exiting
  /\ conn + 1 \in Connections
  /\ conn' = conn + 1 /\ online' = TRUE /\ reader' = "READ"
  /\ tunnelling' = tunnelling + 1
  /\ Spawn(conn + 1)
  /\ UNCHANGED <<OUT, tables, files, rest, queue, cut, cache, jobs_locked, cleaning, mishaps, past>>

\* teardown() of the client, whose OUT is never set again.
TearDown == online' = FALSE /\ OUT' = FALSE /\ past' = past \cup {"TEARDOWN"}

\* process_outgoing() on a connection that may be cut: the socket takes the packet, or
\* an error tears the interface down.
Transmit(packet) ==
  \/ /\ online /\ OUT
     /\ queue' = IF conn \in cut THEN queue ELSE [queue EXCEPT ![conn] = Append(@, packet)]
     /\ UNCHANGED <<online, OUT, past>>
  \/ /\ online /\ OUT /\ conn \in cut
     /\ TearDown
     /\ UNCHANGED queue
  \/ /\ ~(online /\ OUT)
     /\ UNCHANGED <<queue, online, OUT, past>>

\* The client passes on an announce.
Announce ==
  /\ emitted < MaxEmitted /\ emitted' = emitted + 1
  /\ Transmit(emitted')
  /\ UNCHANGED <<conn, reader, tunnelling, tables, files, overheard, up, cut, spawned, cache, jobs_locked,
                 cleaning, mishaps>>

\* mutant: only the first connection makes a tunnel
SynthesizeOnce ==
  /\ tunnelling > 0 /\ tunnelling' = tunnelling - 1
  /\ IF conn = 1 THEN Transmit(SYNTHESIZE) ELSE UNCHANGED <<queue, online, OUT, past>>
  /\ UNCHANGED <<conn, reader, tables, files, rest, cut, spawned, cache, jobs_locked, cleaning, mishaps>>

\* synthesize_tunnel(), on the connection there is by now.
Synthesize ==
  /\ tunnelling > 0 /\ tunnelling' = tunnelling - 1
  /\ Transmit(SYNTHESIZE)
  /\ UNCHANGED <<conn, reader, tables, files, rest, cut, spawned, cache, jobs_locked, cleaning, mishaps>>

\* The reader finds the connection closed, and turns to reconnect().
Lost ==
  /\ reader = "READ" /\ conn \in cut
  /\ online' = FALSE /\ reader' = "RECONNECT"
  /\ UNCHANGED <<conn, OUT, tunnelling, tables, files, rest, queue, cut, spawned, cache, jobs_locked,
                 cleaning, mishaps, past>>

\* What is under way may still arrive.
Break ==
  /\ conn # 0 /\ conn \notin cut /\ Mishap("BREAK")
  /\ cut' = cut \cup {conn}
  /\ \E q \in {queue[conn], << >>} : queue' = [queue EXCEPT ![conn] = q]
  /\ UNCHANGED <<client, tables, files, rest, spawned, cache, jobs_locked, cleaning>>

-----------------------------------------------------------------------------
(***************************************************************************)
(* The node: inbound(), of announces and of tunnels.                       *)
(***************************************************************************)

\* Whether an announce is newer than the path.  Those that are taken because the path
\* has expired or is unresponsive are in Paths.
Accepts(e) == \A p \in path : e > p.emission

Tunneled(c, e) == {[t EXCEPT !.path = {e}] : t \in tunnel}

\* What the arrival of an announce in this order will lead to.
Trouble(c, e) ==
  IF c \in tunnel_id THEN IF \E t \in tunnel : t.interface # {c} THEN {"LATE"} ELSE {}
  ELSE IF \A t \in tunnel : t.path = {} THEN {"EARLY"} ELSE {}

\* It is remembered, cached and taken for the path; the tunnel keeps it too.  A tunnel
\* that is gone raises an error that ends the reader of the interface.
ReceiveAnnounce(c) ==
  /\ known' = TRUE
  /\ LET e == Head(queue[c]) IN
       IF Accepts(e)
         THEN /\ cache' = cache \cup {e}
              /\ path' = {[interface |-> c, hops |-> TunnelHops, emission |-> e]}
              /\ tunnel' = IF c \in tunnel_id THEN Tunneled(c, e) ELSE tunnel
              /\ heard' = TRUE
              /\ past' = past \cup Trouble(c, e)
              /\ jobs_locked' = (c \in tunnel_id /\ tunnel = {})
              /\ spawned' = IF jobs_locked' THEN [spawned EXCEPT ![c] = "GONE"] ELSE spawned
              /\ cut' = IF jobs_locked' THEN cut \cup {c} ELSE cut
         ELSE jobs_locked' = FALSE /\ UNCHANGED <<cache, path, tunnel, heard, past, spawned, cut>>
  /\ UNCHANGED tunnel_id

\* mutant: a tunnel that reappears starts anew
HandleTunnelAnew(c) ==
  /\ tunnel_id' = tunnel_id \cup {c} /\ jobs_locked' = FALSE
  /\ tunnel' = {[interface |-> {c}, path |-> {}]}
  /\ UNCHANGED <<path, past, known, heard, cache, spawned, cut>>

\* handle_tunnel(): the path of a tunnel that reappears is restored unless the node
\* knows one with fewer hops.
HandleTunnel(c) ==
  /\ tunnel_id' = tunnel_id \cup {c} /\ jobs_locked' = FALSE
  /\ IF tunnel = {}
       THEN tunnel' = {[interface |-> {c}, path |-> {}]} /\ UNCHANGED <<path, past>>
       ELSE \E t \in tunnel :
              LET restored == {e \in t.path : \A p \in path : TunnelHops <= p.hops}
              IN /\ tunnel' = {[interface |-> {c}, path |-> restored]}
                 /\ path' = IF restored = {} THEN path
                            ELSE {[interface |-> c, hops |-> TunnelHops, emission |-> e] : e \in restored}
                 /\ past' = IF \E d \in t.interface : d > c THEN past \cup {"LATE"} ELSE past
  /\ UNCHANGED <<known, heard, cache, spawned, cut>>

Receive(c) ==
  /\ up /\ spawned[c] = "LISTED" /\ queue[c] # << >>
  /\ IF Head(queue[c]) = SYNTHESIZE THEN HandleTunnel(c) ELSE ReceiveAnnounce(c)
  /\ queue' = [queue EXCEPT ![c] = IF spawned'[c] = "GONE" THEN << >> ELSE Tail(@)]
  /\ UNCHANGED <<client, files, rest, cleaning, mishaps>>

\* The same announce, or one the client did not pass on, comes over Lan.
Overhear ==
  /\ up
  /\ \E e \in (1 .. emitted) \ overheard, h \in LanHops :
       /\ overheard' = overheard \cup {e}
       /\ IF Accepts(e)
            THEN cache' = cache \cup {e} /\ path' = {[interface |-> Lan, hops |-> h, emission |-> e]}
            ELSE UNCHANGED <<cache, path>>
  /\ known' = TRUE /\ jobs_locked' = FALSE
  /\ UNCHANGED <<client, tunnel, tunnel_id, heard, files, emitted, up, queue, cut, spawned, cleaning, mishaps, past>>

\* The reader of an interface finds its connection closed: teardown().
Teardown(c) ==
  /\ spawned[c] = "LISTED" /\ c \in cut /\ queue[c] = << >>
  /\ spawned' = [spawned EXCEPT ![c] = "GONE"]
  /\ UNCHANGED <<client, tables, files, rest, queue, cut, cache, jobs_locked, cleaning, mishaps, past>>

-----------------------------------------------------------------------------
(***************************************************************************)
(* The node: jobs().                                                       *)
(***************************************************************************)

\* Paths and tunnels over interfaces that are no more.
Cull ==
  /\ up /\ ~jobs_locked
  /\ path' = {p \in path : Listed(p.interface)}
  /\ tunnel' = {[t EXCEPT !.interface = {c \in @ : Listed(c)}] : t \in tunnel}
  /\ <<path', tunnel'>> # <<path, tunnel>>
  /\ UNCHANGED <<client, known, tunnel_id, heard, files, rest, queue, cut, spawned, cache, jobs_locked,
                 cleaning, mishaps, past>>

\* Nothing was heard over the tunnel for as long as it and its paths last.
ExpireTunnel ==
  /\ up /\ ~jobs_locked /\ tunnel # {} /\ Mishap("EXPIRY")
  /\ tunnel' = {} /\ path' = {p \in path : p.interface = Lan}
  /\ UNCHANGED <<client, known, tunnel_id, heard, files, rest, queue, cut, spawned, cache, jobs_locked, cleaning>>

\* mutant: the announces of tunnels are not spared
PathsOnly == {p.emission : p \in path}

\* Announces that are the source of a path.
Active == {p.emission : p \in path} \cup UNION {t.path : t \in tunnel}

\* clean_announce_cache()
CleanCache ==
  /\ up /\ ~jobs_locked /\ cleaning = {}
  /\ cache \ Active # {} /\ cache' = cache \cap Active
  /\ UNCHANGED <<client, tables, files, rest, queue, cut, spawned, jobs_locked, cleaning, mishaps, past>>

\* inbound() has found jobs_running FALSE before jobs() found jobs_locked FALSE.
CleanOverlapping ==
  /\ up /\ ~jobs_locked /\ cleaning = {} /\ Mishap("OVERLAP")
  /\ cleaning' = {Active}
  /\ UNCHANGED <<client, tables, files, rest, queue, cut, spawned, cache, jobs_locked>>

CleanOverlapped ==
  /\ up
  /\ \E spared \in cleaning : cache' = cache \cap spared
  /\ cleaning' = {}
  /\ UNCHANGED <<client, tables, files, rest, queue, cut, spawned, jobs_locked, mishaps, past>>

-----------------------------------------------------------------------------
(***************************************************************************)
(* The node: persist_data(), the end of the program and the next start.    *)
(***************************************************************************)

\* Paths over interfaces that a restart will find again, the paths of the tunnel, and
\* the identities, together with those that were in the file.  (The tunnel is saved with
\* the expiry of its last path, which says no more here: a tunnel may expire at any time.)
SavedPaths == {p \in path : p.interface = Lan}
SavedTunnels == UNION {t.path : t \in tunnel}
SavedIdentities == IF known THEN {TRUE} ELSE disk["KNOWN"]

Contents(f) == CASE f = "PATHS" -> SavedPaths [] f = "TUNNELS" -> SavedTunnels [] f = "KNOWN" -> SavedIdentities

\* mutant: the identities are saved first
KnownFirst(f) ==
  CASE f = "NONE" -> "KNOWN" [] f = "KNOWN" -> "PATHS" [] f = "PATHS" -> "TUNNELS" [] f = "TUNNELS" -> "NONE"

\* The order in which the files are saved.
Following(f) ==
  CASE f = "NONE" -> "PATHS" [] f = "PATHS" -> "TUNNELS" [] f = "TUNNELS" -> "KNOWN" [] f = "KNOWN" -> "NONE"

PersistData ==
  /\ up /\ saver = "NONE" /\ ~exiting
  /\ saver' = Following("NONE")
  /\ UNCHANGED <<client, tables, rest, open, disk, exiting, queue, cut, spawned, cache, jobs_locked,
                 cleaning, mishaps, past>>

\* The table is copied, and the file, which is overwritten in its place, emptied.
Open ==
  /\ up /\ saver # "NONE" /\ open = {}
  /\ open' = {Contents(saver)}
  /\ disk' = [disk EXCEPT ![saver] = {}]
  /\ UNCHANGED <<client, tables, rest, saver, exiting, queue, cut, spawned, cache, jobs_locked,
                 cleaning, mishaps, past>>

\* What the program has is gone.
Ended ==
  /\ up' = FALSE /\ exiting' = FALSE
  /\ path' = {} /\ tunnel' = {} /\ known' = FALSE /\ tunnel_id' = {}
  /\ spawned' = [c \in Connections |-> IF spawned[c] = "LISTED" THEN "GONE" ELSE spawned[c]]
  /\ cut' = cut \cup 1 .. conn /\ queue' = [c \in Connections |-> << >>]
  /\ saver' = "NONE" /\ open' = {} /\ cleaning' = {} /\ jobs_locked' = FALSE

Close ==
  /\ up
  /\ \E contents \in open : disk' = [disk EXCEPT ![saver] = contents]
  /\ IF exiting /\ Following(saver) = "NONE"
       THEN Ended
       ELSE /\ open' = {} /\ saver' = Following(saver)
            /\ UNCHANGED <<path, tunnel, known, tunnel_id, up, exiting, queue, cut, spawned, jobs_locked, cleaning>>
  /\ UNCHANGED <<client, heard, emitted, overheard, cache, mishaps, past>>

\* detach_interfaces(): each by a thread of its own, which may take another interface
\* for its own.
Detach ==
  \E detached \in SUBSET (1 .. conn) :
    /\ cut' = cut \cup detached
    /\ queue' = [c \in Connections |-> IF c \in detached THEN << >> ELSE queue[c]]

\* exit_handler(): interfaces are detached, then the files are saved.
Stop ==
  /\ up /\ saver = "NONE" /\ ~exiting /\ Mishap("STOP")
  /\ exiting' = TRUE /\ saver' = Following("NONE")
  /\ Detach
  /\ UNCHANGED <<client, tables, rest, open, disk, spawned, cache, jobs_locked, cleaning>>

Crash ==
  /\ up /\ "CRASH" \in Faults /\ mishaps < MaxMishaps /\ mishaps' = mishaps + 1
  /\ past' = past \cup {"CRASH"} \cup (IF saver = "NONE" THEN {} ELSE {"TORN"})
  /\ Ended
  /\ UNCHANGED <<client, heard, emitted, overheard, cache, disk>>

\* A path is loaded if its interface and its announce are found, a tunnel if it has a
\* path left.
LoadedPaths == {p \in disk["PATHS"] : p.emission \in cache}
LoadedTunnels == {[interface |-> {}, path |-> {e}] : e \in disk["TUNNELS"] \cap cache}
LoadedIdentities == disk["KNOWN"] # {}

\* Transport.start() and load_known_destinations().
Start ==
  /\ ~up /\ up' = TRUE
  /\ path' = LoadedPaths /\ tunnel' = LoadedTunnels /\ known' = LoadedIdentities
  /\ past' = IF heard /\ path' = {} /\ tunnel' = {} THEN past \cup {"UNSAVED"} ELSE past
  /\ UNCHANGED <<client, tunnel_id, heard, files, emitted, overheard, queue, cut, spawned, cache, jobs_locked,
                 cleaning, mishaps>>

-----------------------------------------------------------------------------
Next ==
  \/ Connect \/ Announce \/ Synthesize \/ Lost \/ Break
  \/ \E c \in Connections : Receive(c) \/ Teardown(c)
  \/ Overhear \/ Cull \/ ExpireTunnel \/ CleanCache \/ CleanOverlapping \/ CleanOverlapped
  \/ PersistData \/ Open \/ Close \/ Stop \/ Crash \/ Start

\* The threads go on, and the node is started again.
Fairness ==
  /\ WF_vars(Connect) /\ WF_vars(Synthesize) /\ WF_vars(Lost)
  /\ \A c \in Connections : WF_vars(Receive(c)) /\ WF_vars(Teardown(c))
  /\ WF_vars(Cull) /\ WF_vars(CleanOverlapped)
  /\ WF_vars(Open) /\ WF_vars(Close) /\ WF_vars(Start)

Spec == Init /\ [][Next]_vars

FairSpec == Spec /\ Fairness

-----------------------------------------------------------------------------
(***************************************************************************)
(* Properties.                                                             *)
(***************************************************************************)

\* What keeps a path from coming back: it was never in a file when the node crashed,
\* or its announce was no longer in the cache; an error of the client's socket met a
\* writer before the reader; the tunnel expired; an announce came before the tunnel's
\* packet, or after that of the next connection.
Excuses == {"UNSAVED", "TEARDOWN", "EXPIRY", "EARLY", "LATE"}

Paths == [interface : {Lan} \cup Connections, hops : Nat, emission : Announces]

AtMostOne(entries) == \A x, y \in entries : x = y

\* What a file may hold.
Stored(f) ==
  CASE f = "PATHS" -> SUBSET Paths [] f = "TUNNELS" -> SUBSET Announces [] f = "KNOWN" -> SUBSET {TRUE}

ClientType ==
  /\ conn \in Connections \cup {0} /\ online \in BOOLEAN /\ OUT \in BOOLEAN
  /\ reader \in {"READ", "RECONNECT"} /\ tunnelling \in 0 .. conn
  /\ emitted \in 0 .. MaxEmitted /\ overheard \subseteq 0 .. MaxEmitted

WireType ==
  /\ queue \in [Connections -> Seq({SYNTHESIZE} \cup Announces)]
  /\ cut \subseteq 1 .. conn /\ tunnel_id \subseteq 1 .. conn
  /\ spawned \in [Connections -> {"NONE", "LISTED", "GONE"}]
  /\ \A c \in Connections : spawned[c] # "NONE" => c <= conn

TableType ==
  /\ path \subseteq Paths /\ AtMostOne(path)
  /\ tunnel \subseteq [interface : SUBSET Connections, path : SUBSET Announces] /\ AtMostOne(tunnel)
  /\ \A t \in tunnel : AtMostOne(t.path)
  /\ cache \subseteq Announces

FileType ==
  /\ saver \in Files \cup {"NONE"} /\ (saver = "NONE" => open = {})
  /\ DOMAIN disk = Files
  /\ \A f \in Files : disk[f] \in Stored(f) /\ AtMostOne(disk[f])
  /\ \A contents \in open : contents \in Stored(saver) /\ AtMostOne(contents)

StatusType ==
  /\ up \in BOOLEAN /\ exiting \in BOOLEAN /\ known \in BOOLEAN
  /\ jobs_locked \in BOOLEAN /\ heard \in BOOLEAN
  /\ mishaps \in 0 .. MaxMishaps /\ past \subseteq Faults \cup Excuses \cup {"TORN"}

TypeOK == ClientType /\ WireType /\ TableType /\ FileType /\ StatusType

\* The path leads to an interface that is there and connected.
Reached ==
  up /\ \E p \in path : p.interface = Lan \/ (Listed(p.interface) /\ p.interface \notin cut)

\* Once the node heard of the destination through the tunnel, it has a path to it for
\* good, when the connections that broke and the programs that ended are back.
PathReturns == [](past \cap Excuses = {}) => <>[](heard => Reached)

\* jobs() is not locked out for ever by an error in inbound().
JobsResume == [](("TEARDOWN" \notin past)) => []<>(~jobs_locked)

\* The announce behind each path, which answers path requests and lets the path be
\* loaded again, is in the cache, unless jobs() and inbound() overlapped.
PathIsCached == "OVERLAP" \notin past => Active \subseteq cache

\* The identity of a destination with a path, which the proofs of links through this
\* node are checked with, is known, unless a crash interrupted the saving of files.
PathIsKnown == path # {} /\ "TORN" \notin past => known
=============================================================================
