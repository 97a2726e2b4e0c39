------------------------------- MODULE Paths --------------------------------
(***************************************************************************)
(* How the nodes of a network learn the way to one destination             *)
(* (RNS/Transport.py, RNS/Interfaces/Interface.py): announces and their    *)
(* rebroadcast with retries, hearing the neighbours' rebroadcasts, the     *)
(* announce queues of the interfaces, announces held back at ingress, path *)
(* requests with their answers and their discovery on behalf of others,    *)
(* and paths that expire, are lost or turn out to be unresponsive.         *)
(* All tables of the code are indexed by the destination: an entry for it  *)
(* is a set with at most one element here.  Home is the node the           *)
(* destination lives on; a segment is a medium, the set of the nodes on it *)
(* and an interface of each.  An announce is known by the number of its    *)
(* random blob.  A packet may stay in net for ever, as if it was lost.     *)
(***************************************************************************)
EXTENDS Integers, Sequences, FiniteSets

CONSTANTS
  Nodes,          \* all nodes but Home
  Home,
  Relays,         \* the nodes with transport enabled
  Segments,       \* the media
  Mode,           \* Mode[n, s]: the mode of the interface of n on s
  Capped,         \* the <<n, s>> whose announce cap may be used up
  PATHFINDER_M,   \* most hops an announce is accepted with
  PATHFINDER_R,   \* retries of a rebroadcast
  LOCAL_REBROADCASTS_MAX,
  MaxAnnounces,   \* announces the application of Home makes
  MaxRequests,    \* path requests that start somewhere
  MaxMishaps,     \* mishaps that occur
  Faults          \* the mishaps that may occur:
                  \*   "EXPIRE"       a path in use gets older than PATHFINDER_E
                  \*   "LOSE"         a path is culled, or its interface vanishes
                  \*   "UNRESPONSIVE" a link over a path cannot be established
                  \*   "BURST"        an interface limits announces
                  \*   "RATE"         a destination announces too often
                  \*   "FORGET"       a waiting path request times out

Modes == {"FULL", "AP", "ROAMING", "BOUNDARY", "GATEWAY"}
DISCOVER_PATHS_FOR == {"AP", "GATEWAY", "ROAMING"}

ASSUME NodesAssumption ==
  /\ Home \notin Nodes /\ Relays \subseteq Nodes
  /\ Segments \subseteq SUBSET (Nodes \cup {Home})
  /\ Mode \in [Nodes \X Segments -> Modes]
ASSUME NumbersAssumption ==
  /\ {PATHFINDER_M, PATHFINDER_R, MaxAnnounces, MaxRequests, MaxMishaps} \subseteq Nat
  /\ LOCAL_REBROADCASTS_MAX \in Nat \ {0}
ASSUME FaultsAssumption ==
  Faults \subseteq {"EXPIRE", "LOSE", "UNRESPONSIVE", "BURST", "RATE", "FORGET"}

VARIABLES
  emitted,      \* the second each announce was emitted in
  announced,    \* the last announce made by the application of Home, or 0
  asked,        \* who made each path request; its number is its tag
  path,         \* path_table
  unresponsive, \* the nodes with STATE_UNRESPONSIVE in path_states
  announce,     \* announce_table
  held,         \* held_announces
  discovery,    \* discovery_path_requests: the interface that waits
  tags,         \* discovery_pr_tags
  queue,        \* Interface.announce_queue
  limited,      \* Interface.held_announces
  net,          \* packets on their way
  past          \* the mishaps there were

tables == <<path, unresponsive, announce, held, discovery, tags>>
vars == <<emitted, announced, asked, tables, queue, limited, net, past>>

-----------------------------------------------------------------------------
(***************************************************************************)
(* State.                                                                  *)
(***************************************************************************)

Blobs == 1 .. Len(emitted)

Path == [via: Nodes \cup {Home}, hops: 1 .. PATHFINDER_M, seg: Segments,
         blob: Blobs,           \* the announce in the cache
         known: Seq(Blobs),     \* random_blobs
         expired: BOOLEAN]

\* answers is empty for a rebroadcast on all interfaces; for the answer to a path
\* request it has the interface attached.
Pending == [blob: Blobs, hops: Nat, retries: 0 .. PATHFINDER_R + 1,
            heard: 0 .. LOCAL_REBROADCASTS_MAX, answers: SUBSET Segments]

Queued == [node: Nodes, seg: Segments, blob: Blobs, hops: Nat]

Announce == [type: {"ANNOUNCE"}, to: Nodes, seg: Segments, via: Nodes \cup {Home},
             blob: Blobs, hops: Nat, response: BOOLEAN]
Request  == [type: {"REQUEST"}, to: Nodes \cup {Home}, seg: Segments, tag: DOMAIN asked,
             from: SUBSET Nodes]   \* the requesting transport instance, if it is one
Message  == Announce \cup Request

Interfaces(n) == {s \in Segments : n \in s}
Lowest(a, b)  == IF a < b THEN a ELSE b

\* What a transmission of n on s puts on the way.
Sent(n, s, blob, hops, response) ==
  {[type |-> "ANNOUNCE", to |-> m, seg |-> s, via |-> n, blob |-> blob,
    hops |-> hops, response |-> response] : m \in (s \cap Nodes) \ {n}}

\* A path request of n, with the tag of the one it is forwarded for.
Asks(n, on, tag) ==
  UNION {{[type |-> "REQUEST", to |-> m, seg |-> s, tag |-> tag, from |-> {n} \cap Relays] :
            m \in s \ {n}} : s \in on}

\* A mishap of node n happens, and is remembered.
Mishap(kind, n) ==
  /\ kind \in Faults
  /\ Cardinality({event \in past : event[1] \in Faults}) < MaxMishaps
  /\ past' = past \cup {<<kind, n>>}

\* The event that n meets when the condition holds.
Seen(kind, n, condition) == {event \in {<<kind, n>>} : condition}

-----------------------------------------------------------------------------
(***************************************************************************)
(* The destination's own node.                                             *)
(***************************************************************************)

Init ==
  /\ emitted = <<>> /\ announced = 0 /\ asked = <<>>
  /\ path = [n \in Nodes |-> {}] /\ unresponsive = {}
  /\ announce = [n \in Nodes |-> {}] /\ held = [n \in Nodes |-> {}]
  /\ discovery = [n \in Nodes |-> {}] /\ tags = [n \in Nodes \cup {Home} |-> {}]
  /\ queue = {} /\ limited = {} /\ net = {} /\ past = {}

\* The clock of the announces counts seconds: the next one may come in the same.
Now == IF emitted = <<>> THEN 1 ELSE emitted[Len(emitted)]

Emit == \E second \in {Now, Now + 1} : emitted' = Append(emitted, second)

\* Destination.announce(), by the application: on every interface, uncapped.
MakeAnnounce ==
  /\ Len(emitted) < MaxAnnounces
  /\ Emit
  /\ announced' = Len(emitted) + 1
  /\ net' = net \cup UNION {Sent(Home, s, Len(emitted) + 1, 0, FALSE) : s \in Interfaces(Home)}
  /\ UNCHANGED <<asked, tables, queue, limited, past>>

\* A request for a path to a local destination is answered with an announce of
\* its own, on the interface it came from.
AnswerAtHome(m) ==
  /\ m \in net /\ m.type = "REQUEST" /\ m.to = Home
  /\ IF m.tag \in tags[Home]
       THEN net' = net \ {m} /\ UNCHANGED <<emitted, tags>>
       ELSE /\ Emit
            /\ net' = (net \ {m}) \cup Sent(Home, m.seg, Len(emitted) + 1, 0, TRUE)
            /\ tags' = [tags EXCEPT ![Home] = @ \cup {m.tag}]
  /\ UNCHANGED <<announced, asked, path, unresponsive, announce, held, discovery,
                 queue, limited, past>>

-----------------------------------------------------------------------------
(***************************************************************************)
(* inbound(): an announce.                                                 *)
(***************************************************************************)

\* mutant: a path is replaced by one of the same second
NewestOrEqual(known, e) == \A i \in DOMAIN known : emitted[known[i]] <= e
\* All blobs are older than e; and the first one that is not is of the second e.
Newest(known, e) == \A i \in DOMAIN known : emitted[known[i]] < e
Meets(known, e) ==
  \E i \in DOMAIN known : /\ emitted[known[i]] = e
                          /\ \A j \in 1 .. i - 1 : emitted[known[j]] < e

\* Whether announce m updates the path p that its node has.
Updates(m, p) ==
  LET fresh == \A i \in DOMAIN p.known : p.known[i] # m.blob
      e     == emitted[m.blob]
      hops  == m.hops + 1
  IN  \/ fresh /\ Newest(p.known, e)
      \/ hops > p.hops /\ p.expired /\ fresh
      \/ hops > p.hops /\ ~p.expired /\ Meets(p.known, e) /\ m.to \in unresponsive

\* mutant: the hop limit is one too low
AcceptsFewer(m) == m.hops + 1 < PATHFINDER_M /\ \A p \in path[m.to] : Updates(m, p)
Accepts(m) == m.hops + 1 < PATHFINDER_M + 1 /\ \A p \in path[m.to] : Updates(m, p)

\* The path turns unresponsive to unknown, but for the update by an announce
\* that was heard before.
Forgives(m) == \E p \in path[m.to] : ~(~p.expired /\ m.hops + 1 > p.hops /\ Meets(p.known, emitted[m.blob]))

\* A rebroadcast of a neighbour ends the own one once it was made often enough,
\* or was passed on before the next try is due.
Heard(m, prompt) ==
  IF m.to \notin Relays \/ m.via = Home THEN announce[m.to]
  ELSE LET counted == {IF m.hops = a.hops
                         THEN [a EXCEPT !.heard = Lowest(@ + 1, LOCAL_REBROADCASTS_MAX)]
                         ELSE a : a \in announce[m.to]}
       IN  {a \in counted : ~(/\ a.retries > 0
                              /\ \/ m.hops = a.hops /\ a.heard >= LOCAL_REBROADCASTS_MAX
                                 \/ m.hops = a.hops + 1 /\ prompt)}

\* An answer that was never sent counts as one that was: retries starts at
\* PATHFINDER_R, and what is heard takes it out of the table.
Silenced(n, left) ==
  \E a \in announce[n] : a.answers # {} /\ a.retries = PATHFINDER_R /\ left = {}

\* An interface that limits announces holds those of unknown destinations, the
\* last one of each.
HoldAnnounce(m) ==
  /\ m \in net /\ m.type = "ANNOUNCE"
  /\ path[m.to] = {}
  /\ Mishap("BURST", m.to)
  /\ limited' = {h \in limited : ~(h.to = m.to /\ h.seg = m.seg)} \cup {m}
  /\ net' = net \ {m}
  /\ UNCHANGED <<emitted, announced, asked, tables, queue>>

\* process_held_announces() hands it to inbound() again.
ReleaseHeld(n) ==
  \E m \in limited :
    /\ m.to = n
    /\ limited' = limited \ {m}
    /\ net' = net \cup {m}
    /\ UNCHANGED <<emitted, announced, asked, tables, queue, past>>

IgnoreAnnounce(m) ==
  \E prompt \in BOOLEAN :
    /\ m \in net /\ m.type = "ANNOUNCE" /\ ~Accepts(m)
    /\ announce' = [announce EXCEPT ![m.to] = Heard(m, prompt)]
    /\ past' = past \cup Seen("SILENCE", m.to, Silenced(m.to, Heard(m, prompt)))
    /\ net' = net \ {m}
    /\ UNCHANGED <<emitted, announced, asked, path, unresponsive, held, discovery, tags,
                   queue, limited>>

KnownBlobs(n) == IF path[n] = {} THEN <<>> ELSE (CHOOSE p \in path[n] : TRUE).known

\* The path it makes, with the blobs known before.
NewPath(m) ==
  LET known == KnownBlobs(m.to)
  IN  [via |-> m.via, hops |-> m.hops + 1, seg |-> m.seg, blob |-> m.blob,
       known |-> IF \E i \in DOMAIN known : known[i] = m.blob THEN known ELSE Append(known, m.blob),
       expired |-> FALSE]

\* It is rebroadcast by a relay, unless it is an answer or comes too often, and
\* answers the path request that waits for it.
AcceptAnnounce(m) ==
  LET n == m.to
      new == [blob |-> m.blob, hops |-> m.hops + 1, retries |-> 0, heard |-> 0, answers |-> {}]
  IN  \E prompt, blocked \in BOOLEAN :
        /\ m \in net /\ m.type = "ANNOUNCE" /\ Accepts(m)
        /\ path' = [path EXCEPT ![n] = {NewPath(m)}]
        /\ unresponsive' = IF Forgives(m) THEN unresponsive \ {n} ELSE unresponsive
        /\ IF blocked
             THEN ~m.response /\ n \in Relays /\ Mishap("RATE", n)
             ELSE past' = past \cup Seen("SILENCE", n, Silenced(n, Heard(m, prompt)))
                                \cup Seen("LEARNT", n, n \in Relays /\ m.response)
        /\ announce' = [announce EXCEPT ![n] =
                          IF n \in Relays /\ ~m.response /\ ~blocked THEN {new}
                          ELSE Heard(m, prompt)]
        /\ net' = (net \ {m}) \cup UNION {Sent(n, s, m.blob, m.hops + 1, TRUE) : s \in discovery[n]}
        /\ UNCHANGED <<emitted, announced, asked, held, discovery, tags, queue, limited>>

-----------------------------------------------------------------------------
(***************************************************************************)
(* jobs() and outbound(): rebroadcasts, and the announce queues.           *)
(***************************************************************************)

\* mutant: the retry limit is one too low
CompletedEarly(a) == a.retries > 0 /\ (a.retries >= LOCAL_REBROADCASTS_MAX \/ a.retries >= PATHFINDER_R)

Completed(a) == a.retries > 0 /\ (a.retries >= LOCAL_REBROADCASTS_MAX \/ a.retries > PATHFINDER_R)

Complete(n) ==
  /\ \E a \in announce[n] : Completed(a)
  /\ announce' = [announce EXCEPT ![n] = {}]
  /\ UNCHANGED <<emitted, announced, asked, path, unresponsive, held, discovery, tags,
                 queue, limited, net, past>>

\* The interfaces on which an announce may leave that came over the path of n.
Open(n) ==
  {s \in Interfaces(n) :
     \/ Mode[n, s] \in {"FULL", "GATEWAY"}
     \/ Mode[n, s] = "ROAMING"  /\ \E p \in path[n] : Mode[n, p.seg] \notin {"ROAMING", "BOUNDARY"}
     \/ Mode[n, s] = "BOUNDARY" /\ \E p \in path[n] : Mode[n, p.seg] # "ROAMING"}

QueueOf(n, s) == {q \in queue : q.node = n /\ q.seg = s}

\* Where the cap is used up, and where others wait already, an announce waits in
\* the queue; in the place of an older one, if there is one.
Busy(n) == {s \in Open(n) : QueueOf(n, s) # {}}
CanWait(n) == {s \in Open(n) : Mode[n, s] \in {"FULL", "GATEWAY"} /\ <<n, s>> \in Capped}

Requeued(n, a, waits) ==
  LET stays == {q \in queue : q.node = n /\ q.seg \in waits /\ emitted[q.blob] >= emitted[a.blob]}
      goes  == {q \in queue : q.node = n /\ q.seg \in waits} \ stays
  IN  (queue \ goes) \cup {[node |-> n, seg |-> s, blob |-> a.blob, hops |-> a.hops] :
                             s \in {w \in waits : \A q \in stays : q.seg # w}}

\* One rebroadcast; then an announce that was held for an answer is back.
Rebroadcast(n) ==
  \E a \in announce[n] :
    /\ ~Completed(a)
    /\ announce' = [announce EXCEPT ![n] =
                      IF held[n] = {} THEN {[a EXCEPT !.retries = @ + 1]} ELSE held[n]]
    /\ held' = [held EXCEPT ![n] = {}]
    /\ \/ /\ a.answers # {}
          /\ net' = net \cup UNION {Sent(n, s, a.blob, a.hops, TRUE) : s \in a.answers}
          /\ UNCHANGED queue
       \/ /\ a.answers = {}
          /\ \E more \in SUBSET CanWait(n) :
               LET waits == Busy(n) \cup more
               IN  /\ net' = net \cup UNION {Sent(n, s, a.blob, a.hops, FALSE) : s \in Open(n) \ waits}
                   /\ queue' = Requeued(n, a, waits)
    /\ UNCHANGED <<emitted, announced, asked, path, unresponsive, discovery, tags, limited, past>>

\* process_announce_queue()
ProcessQueue(n) ==
  \E q \in queue :
    /\ q.node = n
    /\ queue' = queue \ {q}
    /\ net' = net \cup Sent(n, q.seg, q.blob, q.hops, FALSE)
    /\ UNCHANGED <<emitted, announced, asked, tables, limited, past>>

-----------------------------------------------------------------------------
(***************************************************************************)
(* Path requests.                                                          *)
(***************************************************************************)

\* request_path(), by an application.
RequestPath(n) ==
  /\ Len(asked) < MaxRequests
  /\ asked' = Append(asked, n)
  /\ net' = net \cup Asks(n, Interfaces(n), Len(asked'))
  /\ UNCHANGED <<emitted, announced, tables, queue, limited, past>>

\* What path_request() does with a request that is new to n.
Answers(m) ==
  /\ m.to \in Relays
  /\ \E p \in path[m.to] : ~(Mode[m.to, m.seg] = "ROAMING" /\ p.seg = m.seg) /\ p.via \notin m.from

Searches(m) ==
  m.to \in Relays /\ path[m.to] = {} /\ Mode[m.to, m.seg] \in DISCOVER_PATHS_FOR
Discovers(m) == Searches(m) /\ discovery[m.to] = {}

NewTag(m) ==
  /\ m \in net /\ m.type = "REQUEST" /\ m.to # Home /\ m.tag \notin tags[m.to]
  /\ tags' = [tags EXCEPT ![m.to] = @ \cup {m.tag}]

\* The answer takes the place of a rebroadcast that is still to be made, which
\* is held until it is sent.
AnswerRequest(m) ==
  LET n == m.to IN
  /\ NewTag(m) /\ Answers(m)
  /\ held' = [held EXCEPT ![n] = IF announce[n] = {} THEN @ ELSE announce[n]]
  /\ announce' = [announce EXCEPT ![n] =
                    {[blob |-> p.blob, hops |-> p.hops, retries |-> PATHFINDER_R, heard |-> 0,
                      answers |-> {m.seg}] : p \in path[n]}]
  /\ past' = past \cup Seen("CROWD", n, held[n] # {} /\ announce[n] # {})
  /\ net' = net \ {m}
  /\ UNCHANGED <<emitted, announced, asked, path, unresponsive, discovery, queue, limited>>

\* A node of a segment that paths are discovered for asks on all others, except
\* where announces wait.
Discover(m) ==
  LET n == m.to
      others == {s \in Interfaces(n) \ {m.seg} : QueueOf(n, s) = {}}
  IN  /\ NewTag(m) /\ Discovers(m)
      /\ discovery' = [discovery EXCEPT ![n] = @ \cup {m.seg}]
      /\ \E mute \in SUBSET {s \in others : <<n, s>> \in Capped} :
           net' = (net \ {m}) \cup Asks(n, others \ mute, m.tag)
      /\ UNCHANGED <<emitted, announced, asked, path, unresponsive, announce, held, queue, limited, past>>

IgnoreRequest(m) ==
  /\ m \in net /\ m.type = "REQUEST" /\ m.to # Home
  /\ (~Answers(m) /\ ~Discovers(m)) \/ m.tag \in tags[m.to]
  /\ past' = past \cup Seen("WAITING", m.to, m.tag \notin tags[m.to] /\ Searches(m))
  /\ tags' = [tags EXCEPT ![m.to] = @ \cup {m.tag}]
  /\ net' = net \ {m}
  /\ UNCHANGED <<emitted, announced, asked, path, unresponsive, announce, held, discovery,
                 queue, limited>>

-----------------------------------------------------------------------------
(***************************************************************************)
(* Mishaps of paths.                                                       *)
(***************************************************************************)

Expire(n) ==
  /\ path[n] # {} /\ Mishap("EXPIRE", n)
  /\ path' = [path EXCEPT ![n] = {[p EXCEPT !.expired = TRUE] : p \in @}]
  /\ UNCHANGED <<emitted, announced, asked, unresponsive, announce, held, discovery, tags,
                 queue, limited, net>>

\* Culled from the table, beyond MaxMishaps when it was unresponsive; its state is
\* culled in a later round.
LosePath(n) ==
  /\ path[n] # {}
  /\ IF n \in unresponsive THEN past' = past \cup {<<"LOSE", n>>} ELSE Mishap("LOSE", n)
  /\ path' = [path EXCEPT ![n] = {}]
  /\ UNCHANGED <<emitted, announced, asked, unresponsive, announce, held, discovery, tags,
                 queue, limited, net>>

CullState(n) ==
  /\ n \in unresponsive /\ path[n] = {}
  /\ unresponsive' = unresponsive \ {n}
  /\ UNCHANGED <<emitted, announced, asked, path, announce, held, discovery, tags,
                 queue, limited, net, past>>

\* A link that goes over the path is not proved: it is marked, and asked for on
\* all interfaces but the one the link request came from.  Here any relay with a path
\* may do so; jobs() wants one end of the link to be near, no request made shortly
\* before, and another mode than BOUNDARY.
MarkUnresponsive(n) ==
  /\ n \in Relays /\ path[n] # {} /\ Len(asked) < MaxRequests
  /\ Mishap("UNRESPONSIVE", n)
  /\ unresponsive' = unresponsive \cup {n}
  /\ asked' = Append(asked, n)
  /\ \E blocked_if \in Interfaces(n) :
       net' = net \cup Asks(n, Interfaces(n) \ {blocked_if}, Len(asked'))
  /\ UNCHANGED <<emitted, announced, path, announce, held, discovery, tags, queue, limited>>

ForgetRequest(n) ==
  /\ discovery[n] # {} /\ Mishap("FORGET", n)
  /\ discovery' = [discovery EXCEPT ![n] = {}]
  /\ UNCHANGED <<emitted, announced, asked, path, unresponsive, announce, held, tags,
                 queue, limited, net>>

-----------------------------------------------------------------------------
ReceiveAnnounce(m) == HoldAnnounce(m) \/ IgnoreAnnounce(m) \/ AcceptAnnounce(m)
ReceiveRequest(m)  == AnswerAtHome(m) \/ AnswerRequest(m) \/ Discover(m) \/ IgnoreRequest(m)
Jobs(n)            == Complete(n) \/ Rebroadcast(n)
MishapOf(n) == Expire(n) \/ LosePath(n) \/ MarkUnresponsive(n) \/ ForgetRequest(n)

Next ==
  \/ MakeAnnounce
  \/ \E m \in net : ReceiveAnnounce(m) \/ ReceiveRequest(m)
  \/ \E n \in Nodes : \/ Jobs(n) \/ ProcessQueue(n) \/ ReleaseHeld(n) \/ CullState(n)
                      \/ RequestPath(n) \/ MishapOf(n)

Spec == Init /\ [][Next]_vars

(***************************************************************************)
(* Fairness: the job loop and the timers run, and what is sent arrives.    *)
(***************************************************************************)
FairSpec ==
  /\ Spec
  /\ WF_vars(\E m \in net : IgnoreAnnounce(m) \/ AcceptAnnounce(m) \/ ReceiveRequest(m))
  /\ WF_vars(\E n \in Nodes : Jobs(n))
  /\ WF_vars(\E n \in Nodes : ProcessQueue(n))
  /\ WF_vars(\E n \in Nodes : ReleaseHeld(n))

-----------------------------------------------------------------------------
(***************************************************************************)
(* Properties.                                                             *)
(***************************************************************************)

AtMostOne(entries) == \A x, y \in entries : x = y

TypeOK ==
  /\ emitted \in Seq(Nat) /\ announced \in {0} \cup Blobs /\ asked \in Seq(Nodes)
  /\ path \in [Nodes -> SUBSET Path] /\ announce \in [Nodes -> SUBSET Pending]
  /\ held \in [Nodes -> SUBSET Pending] /\ discovery \in [Nodes -> SUBSET Segments]
  /\ \A n \in Nodes : /\ AtMostOne(path[n]) /\ AtMostOne(announce[n])
                      /\ AtMostOne(held[n]) /\ AtMostOne(discovery[n])
  /\ unresponsive \subseteq Nodes
  /\ tags \in [Nodes \cup {Home} -> SUBSET DOMAIN asked]
  /\ queue \subseteq Queued /\ limited \subseteq Announce /\ net \subseteq Message

\* The nodes whose path was lost, got too old or was given up at some time.
Upset == {n \in Nodes : \E kind \in {"EXPIRE", "LOSE", "UNRESPONSIVE"} : <<kind, n>> \in past}

\* Packets are never sent in a circle, whatever order announces, their repetitions,
\* answers to path requests and held or queued announces arrive in: any circle of
\* next hops goes through a node whose path was lost, expired or unresponsive.
LoopFree ==
  \A circle \in SUBSET (Nodes \ Upset) :
    circle # {} => \E n \in circle : \A p \in path[n] : p.via \notin circle

Reached == announced # 0 => \A n \in Nodes : \E p \in path[n] : emitted[p.blob] >= emitted[announced]
Found   == \A i \in DOMAIN asked : path[asked[i]] # {}

\* What happened but for these kinds.
But(kinds) == {event \in past : event[1] \notin kinds}

\* Each announce of the destination's application reaches every node, one that an
\* interface holds back too, unless another mishap or a crowd of path requests
\* comes in between.
AnnouncesSpread == <>(But({"WAITING", "BURST"}) # {}) \/ <>[]Reached

\* Where every relay finds paths for others, whoever asks for one has one in the
\* end, unless it asked a relay that was looking for the path for another already,
\* which forgets who asks, or another mishap came in between.
RequestsAnswered == (\A x \in Relays \X Segments : Mode[x] \in DISCOVER_PATHS_FOR) /\ Capped = {}
                      => <>(But({"LEARNT", "BURST"}) # {}) \/ <>[]Found
=============================================================================
