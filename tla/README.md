# Reticulum, modelled in TLA+

TLA+ models of the Reticulum network stack (`src/RNS`), the TLC configurations that
check them on small instances, and theorems about them with proofs for TLAPS. Every
definition is translated from the source; line numbers below refer to it.

* [Inventory](#inventory): the parts of the system and what makes each correct
* [Plan](#plan): the modules, written and still to be written
* [The models](#the-models): how state and actions correspond to the code
* [The runs](#the-runs), their bounds, and what they show
* [Fairness](#fairness)
* [The proofs](#the-proofs)
* [What the models leave out](#what-the-models-leave-out)

## Inventory

Reticulum is a library of threads around shared objects. Each interface has a reader
thread that calls `Transport.inbound()`; that thread runs all the code a packet leads to,
up to the callbacks of the application. `Transport.jobloop` runs `Transport.jobs()` every
250 ms; every link, resource and outgoing request has a watchdog thread; callbacks of
timed-out receipts and of established links run in threads of their own; the application
calls in from wherever it likes. Almost nothing is locked: `Channel` has a lock, `Transport`
has flags, and the rest relies on short critical sections that nobody guards.

| Component | State | Operations | Hard behaviour | Correct when |
|---|---|---|---|---|
| **Channel** `Channel.py` | sequence numbers, tx and rx rings, window and its limits, handlers | `send`, `_packet_delivered`, `_packet_timeout`, `_receive`, `_shutdown` | packets and proofs lost, repeated, reordered; a timeout racing a proof; the number wraps; send fails half-way; handlers that call back | messages are handed over once and in order; what is accepted is delivered or the link closes; the window stays within its limits and opens again |
| **Packet, PacketReceipt** `Packet.py` | status SENT, DELIVERED, FAILED, CULLED; callbacks | `send`, `resend`, `validate_proof`, `check_timeout` | a proof between sending and setting the callbacks; culling | one conclusion per receipt, its callback made |
| **Link** `Link.py` | status, teardown reason, keys, watchdog, requests, resources, one channel | `__init__`, `validate_request`, `validate_proof`, `rtt_packet`, `receive`, `teardown`, watchdog | three threads per end set the status unguarded; packets of establishment and teardown lost or late | ends open in order, close for good and are reported; no end waits for ever |
| **Requests** `Link.py`, `Destination.py` | pending requests, receipt status and progress | `request`, `handle_request`, `handle_response`, timeouts | answer, proof and timeout race; request or response may be a resource | a request is concluded once: an answer or a failure |
| **Resource** `Resource.py` | parts, hashmap, window, retries, watchdog of each end | `advertise`, `accept`, `request`, `request_next`, `receive_part`, `hashmap_update`, `assemble`, `prove`, `validate_proof`, `cancel` | parts lost and reordered; hashmap updates; retries by measured rate; segments | what is assembled is what was sent; both ends come to an end |
| **Transport: receipts, job loop** `Transport.py` | receipts, link lists, `jobs_locked`, `jobs_running` | `jobs`, `outbound`, `inbound` | mutual exclusion by two flags; early returns | the jobs go on running; no list changed while walked |
| **Transport: paths, announces** `Transport.py` | path table, announce table, path requests, tunnels, packet hashes | `inbound` of announces, rebroadcast in `jobs`, `path_request`, expiry | the same announce over several interfaces in any order | a path never goes back in time; no loop |
| **Transport: link and reverse tables** `Transport.py` | next hop and interface per link or packet | forwarding in `inbound`, culling in `jobs` | entry outlives the path it was made from | replies follow the packet's way back |
| **Persistence** `Transport.py`, `Identity.py`, `Reticulum.py` | files for paths, hashes, tunnels, identities | `save_*`, `load_*` | a crash while a file is written | a restart has the old state or the new one |
| **Destination, ratchets** `Destination.py`, `Identity.py` | list of ratchets, file, time of the last rotation | `rotate_ratchets`, `_persist_ratchets`, `_reload_ratchets`, `announce` | crash between two steps on the file; retention shorter than announces live | a packet encrypted to an announced ratchet can be decrypted |
| **Identity, cryptography** | keys | sign, validate, encrypt, decrypt | - | ideal in all models |
| **Buffer** `Buffer.py` | stream id, receive buffer, end of stream | `read`, `write`, `close` | the channel refuses the end-of-stream message | the reader gets the bytes, then the end |
| **Interface base class** `Interfaces/Interface.py` | held announces, announce queue, rate of arrival | `hold_announce`, `process_held_announces`, `process_announce_queue` | timers and threads on one queue, full queue | what is held is released, in bounded number |
| **Interface drivers** `Interfaces/*.py` | port or socket, `online`, `reconnecting`, queue, flow control | constructor, reader, reconnection, `process_outgoing`, `detach`, teardown | readers and reconnecting loops that meet; a device that fails at any step | one reads and one reconnects; what is queued is sent; paths come back with the connection |
| **Reticulum** `Reticulum.py` | configuration, timers of the saves | start-up, periodic saves, `exit_handler` | the program ends between two files | see persistence |
| **Discovery**, **utilities** | - | - | user interfaces and set-up | not modelled |

How they interact: the application opens a `Link` to a `Destination`; the link owns at most
one `Channel` and any number of requests and resources, and hands them the packets
`Link.receive()` decrypts. `Channel` sends through `LinkChannelOutlet`, whose packets have
receipts in `Transport.receipts`; the job loop times them out, and proofs that arrive
conclude them. `link_closed()` shuts the channel down and cancels resources.
`Transport` finds links in `pending_links` and `active_links`, which the job loop sweeps.
A request is a packet or, when too big, a resource; so is its response.

## Plan

Done, in the order of their importance to the system. A module of proofs follows its
component's.

1. `ReliableFifo`, `ChannelWindow`, `Channel`, `ChannelProofs`: one direction of a channel, and
   the reliable FIFO it implements.
2. `Link`, `LinkProofs`: both ends of a link, from its request to the end of both.
3. `Call`, `Request`, `RequestProofs`: a request with its receipt and response, and what it
   promises its caller.
4. `Transfer`, `Resource`, `ResourceProofs`: a segmented transfer with hashmap, window and retries,
   and the transfer it implements.
5. `Paths`, `PathsProofs`: announces, path requests and path tables of a whole network.
6. `Transit`, `TransitProofs`: links and single packets through transport nodes.
7. `RadioThreads`, `Driver`: the threads of a radio interface, and what they do.
8. `Ratchets`, `RatchetsProofs`: rotation, the file and its crashes.
9. `Tunnels`, `InterfaceProofs`: a connection that comes back, and the files of a node that does; the proofs
   about both kinds of interface, the radio and the connection.

Left, in this order:

1. `Keepalive`: a timed model of the link's watchdog, with the clamp of `Link.py:824`.
2. `Buffer` on `ReliableFifo`, so that it rests on what `Channel` is proved to implement.
3. The event loop of `BackboneInterface`, whose shared send buffer and `epoll` registrations meet
   the sending threads (`BackboneInterface.py:232`, `296`, `623`), and `LocalInterface`.

## The models

### Channel, ChannelWindow, ReliableFifo

`Channel` is one direction of a channel: sender `tx`, receiver `rx`. Both directions of a real
channel are two independent copies, apart from the lock, which a retry holds in one of them.

| In the model | In the code |
|---|---|
| message `m`, `Number(m)` | the `Envelope` of the m-th `send()`, its 16-bit `sequence` |
| copy `c` of a message | its c-th transmission; `resend()` encrypts anew, so each has its own packet hash and its own proof |
| `status` | `Link.status` at each end, as far as the channel sees it |
| `phase[m]` | how far `send()` or `_packet_timeout()` is: the packet is out before its callbacks are set, which is where proofs and the sweep get in between |
| `receipt[m]`, `timer` | `PacketReceipt.status` of the latest copy; threads started for timeout callbacks |
| `tx_ring`, `rx_ring`, `next_rx`, `win` | the fields of the same names |
| `data`, `proofs` | every copy ever sent: it may arrive any number of times, in any order, or never |
| `delivering`, `delivered` | `contiguous` in `_receive()`, and the calls of the handlers |

Actions: `Send` (number and envelope, under the lock), `Transmit` and `TransmitUnsent` (`outlet.send()`),
`RaiseTooBig`, `Arm` (callbacks set), `ReceiveProof`, `Expire` and `Cull` (the sweep of
`Transport.jobs`), `TimeoutSpurious`, `TimeoutResend`, `TimeoutUnsent`, `Rearm`, `TimeoutGiveUp`
(`_packet_timeout()`, whose retry is cut in two where the packet is already out), `LinkStale`,
`LinkRevive`, `CloseSender`; at the receiver `ReceiveNew`, `ReceiveInvalid`,
`ReceiveDuplicate`, `ReceiveUnregistered` (each proves the packet first, as
`Link.receive()` does), `Deliver`, `CloseReceiver`. The insertion loop and the collecting loop
of the receiver, its odd inner loop at a wrap included, are `Emplaced` and `Collected`: relations on
positions of the ring instead of loops, so that TLAPS can reason about them.

`Faults` names the mishaps a run allows: `OVERSIZE` (a message beyond the MDU), `PREEMPT` (the
sweep runs before the callbacks are set), `CULL` (a receipt is dropped), `STALE` (the
sender's link is stale for a while), `UNSENT` (`outbound()` finds no interface for a packet of an active link, so
that `Packet.send()` or `resend()` drops the receipt, and with it every retry). `Unfound` is the exception of
`get_packet_id()` when the search of the ring meets a packet that was never packed, which a send on a stale link leaves there.

`ChannelWindow` is the arithmetic of the window: `Grown` on a delivery (lines 494-527), `Shrunk` on a
timeout (563-573), over classes of round-trip times rather than seconds. `ReliableFifo` is what
the class documentation promises, "reliable delivery of messages over a link": messages are
handed over in the order in which they were accepted, each once. The mapping takes `accepted` to
`next_msg`, `delivered` to `delivered`, `open` to both ends not being closed.

### Link

`Link` is one link as its ends `init` and `dest` see it, with several threads at each.

| In the model | In the code |
|---|---|
| `status`, `reason`, `keys` | `status`, `teardown_reason`, and `prv`, `derived_key` not purged yet (`link_closed()` leaves `token`, which holds the session keys, although `teardown()` says that it "purges encryption keys", line 701) |
| `table` | whether the link is in `Transport.pending_links` or `active_links` |
| `step` | where the delivery thread is: after `handshake()`, or after the look at the status and before its assignment, in `rtt_packet()` and for a stale link too |
| `parting` | the calls that have sent the teardown packet and not set `CLOSED` yet (704-705, 811-812), between which the peer may receive it |
| `closing`, `callbacks` | threads between `status = CLOSED` and `link_closed()`; the callbacks made |
| `starting` | the thread line 447 starts for the established callback has not run yet |
| `torn` | ends whose application has called `teardown()`: once each, which bounds the model |
| `net` | packets on their way; they may stay there for ever (lost) and overtake each other; `Transport`'s packet filter takes duplicates out |

Actions: `Open` and `ReceiveRequest` (`__init__`, `validate_request`); `ProofIgnored`, `ProofBadMode`,
`ProofHandshake`, `ProofCheck`, `ProofRaise`, `ProofActivate` (`validate_proof`, in the steps
between which other threads may close the link); `RttCheck`, `RttActivate` (`receive` and
`rtt_packet`); `RunEstablished`; `SendData`, `ReceiveData`, `Revive` (any traffic, keep-alives included:
it makes a stale link active); `Teardown` and `TeardownClose`, `ReceiveClose`, `WatchdogTimeout`, `WatchdogStale`,
`WatchdogClose` and `WatchdogEnd`, all ending in `LinkClosed`; and `Sweep` (`Transport.jobs`). The watchdog's own call of `teardown()`
after a timing error (819-822) is a `Teardown` as any other.

Whether a thread can be interrupted between its look at the status and the assignment that follows is
the fault `PREEMPT`. Without it `Quiet(e)` lets no other thread of the same end go on in
between; the longer stretch from the handshake to that look, which contains a key exchange and
a signature check, is always interruptible. `BAD_MODE` and `BAD_SIGNATURE` let the proof that
arrives name another mode or fail its check.

### Request, Call

`Request` is one request over a link, with the receipt at the end `caller`.

| In the model | In the code |
|---|---|
| `status`, `listed` | `RequestReceipt.status`, and membership in `Link.pending_requests` |
| `receipt` | the `PacketReceipt` of a request that fits a packet |
| `upload`, `inbox` | the resource of a larger request at either end, with its beginning, end and failure only |
| `reply`, `download` | the same of the response; a small response is a packet in `net` |
| `threads` | the threads the code starts for `handle_request()`, `handle_response()`, the timeout callback and `__response_timeout_job()`, and the one that is inside the response callback |
| `callbacks` | the calls of the application's response and failed callbacks, in order |
| `passed` | the calls of `request_timed_out()`, `response_resource_progress()` and `handle_response()` that have looked at the receipt and not changed it yet |
| `past` | history: what has befallen the receipt that the properties except |

Actions: `SendPacket` and `ListPacket` (the packet leaves before its receipt is listed), `SendResource` (`request()`);
`UploadProved`, `UploadFail` (`request_resource_concluded()` of the receipt); `Expire`, `RunExpired`, `WaitEnd`, `WaitTimeout`
(the two timeouts, whose looks at the receipt `TimedOut` may follow); `ReceiveRequest`, `AcceptRequest`, `CompleteRequest`,
`LoseRequest`, `Handle`, `EndReply` at the handler; `ReceiveResponse`, `Respond`, `CompleteResponse` and then `Answer`,
`EndAnswer` (`handle_response()`, which drops the receipt from the list only after the callback);
`AcceptResponse`, `ReceivePart` and then `Progress` (`response_resource_progress()`), `LoseResponse`; `Close`. A culled
packet receipt calls the same callback as one that has timed out, and is not told from it. A larger request is
listed at once: a resource that ends before the line that lists its receipt is left out.

`Call` is what the documentation of `Link.request()` promises: one response callback, after the handler
gave a response, or one failed callback, and nothing after either. Nothing locks a receipt, so that each thread
changes it some time after it has looked at it, and the response callback, which may take as long as the application likes, runs
while the receipt is still listed. All of these orders are in the model and in the run. Two of them break the promise, and the
properties except them by name: `OVERTAKEN`, when a thread acts on a look that another thread has overtaken, and
`ANSWERED`, when the request's resource is proved or fails during the response callback. What they do is under [The runs](#the-runs).

### Resource, Transfer

`Resource` is one transfer between two ends of a link, cut into segments, each of which is a
`Resource` object of its own at either end.

| In the model | In the code |
|---|---|
| `parts`, segment `s` | `total_parts` of each segment; `segment_index` |
| `out[s]`, `inc[s]` | the two `Resource` objects: `status`, `retries_left`, and what follows |
| `out[s].sent`, `floor` | parts sent once, and `receiver_min_consecutive_height` |
| `inc[s].got`, `height`, `known` | `parts`, `consecutive_completed_height + 1`, `hashmap` |
| `inc[s].outstanding`, `waiting`, `window*` | `outstanding_parts`, `waiting_for_hmu`, `window`, `window_min`, `window_max` |
| `out[s].job`, `inc[s].assembly`, `inc[s].watch` | how far the threads of `__advertise_job()` and `assemble()` are; whether the receiver's watchdog runs |
| `outgoing`, `incoming`, `last` | the lists of `Link`, and `last_resource_window` |
| `told` | the calls of the application's callback |
| `net` | at most `Capacity` packets; each may be lost, and overtake the others |

A part is known by its number, since the guard against collisions makes the hashes within its reach
distinct. `Request` has a set of parts and the last hash known; `Advertisement` and `HMU` say after which
hash theirs begin. Actions: `AdvertiseQueued`, `AdvertiseSend`, `AdvertiseRegister`
(`__advertise_job`), `ReceiveRequest` (`request`, with its search from `floor` on and the cancellation of
what it cannot place), `ReceiveProof`, `ReceiveRejection`, the three `SenderTimeout...` of
the watchdog, `SenderCancels`, `CloseSender`; `Accept`, `Reject`, `ReceivePart`, `ReceiveHashmap`,
`ReceiveCancel`, `ReceiveCacheRequest`, `ReceiverTimeout`, `WatchdogEnds`, `AssembleStart`, `AssembleStore`,
`AssembleFail`, `AssembleConclude`, `ReceiverCancels`, `CloseReceiver`. Measured rates, which choose the window's
maximum, are a choice in `ReceivePart`.

`Transfer` is the promise: segments reach the file in order and once, and the sending application is
told one outcome first, which is `COMPLETE` only if all of them did.

Mishaps: `REJECT`, `STORE`, `CANCEL`, `CLOSE` as named; `LATE` lets an advertisement come after packets
sent later than it, `PREEMPT` lets packets be handled while the assembling thread is between its
last look at the status and its callback. `CLOSE` may come at any step of an assembly: `Link.decrypt()` uses a token
that `link_closed()` leaves in place, so that a segment that was received is stored on a closed link too, and its proof is not sent.

### Paths

`Paths` is how every node of a network learns the way to one destination, over any graph of nodes and
media. All tables of the code are indexed by the destination, so that a table is a set of at most one
entry per node.

| In the model | In the code |
|---|---|
| `Segments`, `Mode`, `Capped` | the interfaces, their `mode`, and whether their announce cap may be used up |
| `emitted[b]` | the second in the random blob `b` of an announce |
| `path[n]` | `path_table`: next hop, hops, interface, announce in the cache, `random_blobs`, whether it is older than `PATHFINDER_E` |
| `unresponsive` | `path_states` |
| `announce[n]`, `held[n]` | `announce_table`, `held_announces`: retries, rebroadcasts heard, whether it answers a request |
| `discovery`, `tags` | `discovery_path_requests`, `discovery_pr_tags` |
| `queue`, `limited` | `announce_queue` and `held_announces` of the interfaces |
| `past` | which mishaps, and which events a property excepts, occurred at which node |

Actions: `MakeAnnounce`; `AcceptAnnounce`, `IgnoreAnnounce`, `HoldAnnounce` (`inbound` of an announce: the
choice between fresh, expired and unresponsive paths is `Updates`), `Complete`, `Rebroadcast` (`jobs`),
`ProcessQueue`, `ReleaseHeld`; `RequestPath`, `AnswerAtHome`, `AnswerRequest`, `Discover`, `IgnoreRequest`
(`path_request`); `Expire`, `LosePath`, `CullState`, `MarkUnresponsive`, `ForgetRequest`. Any relay with a path may
mark it unresponsive: the conditions of `jobs()` on hops, modes and earlier requests (655-693) are left out, which only adds behaviours.

### Transit

`Transit` is one link and single packets between two ends through any graph of transport nodes and media;
who hears whom on a medium is a constant, so that a medium is a cable or a radio with hidden nodes. The path
tables are `Paths`' and change at any time here.

| In the model | In the code |
|---|---|
| `route[n]` | the entry of `path_table`, of those in `Routes[n]` |
| `hashes`, `hashes_prev` | `packet_hashlist`, `packet_hashlist_prev` |
| `link_table`, `reverse` | `link_table`, `reverse_table` |
| `status`, `expected`, `attached`, `mtu` | `status`, `expected_hops`, `attached_interface`, `mtu` of the link's ends |
| `over` | the media the link request went over (history) |
| `received`, `again`, `proved` | what an end was given, what more than once, which proofs it has (history) |

Actions: `RequestLink`, `SendSingle`, `SendOnLink` (`outbound`); `Filter` (`packet_filter`), `ForwardRequest`,
`ForwardSingle`, `Repeat`, `TransportProof`, `ReturnProof` (a transport node), `AcceptRequest`,
`ReceiveLinkProof`, `ReceiveOnLink`, `ReceiveSingle`, `ReceiveProof` (the ends), `Ignore`; `Reroute`; `CullLink`,
`CullReverse`, `Rotate` (the mishaps). Contexts that `packet_filter()` exempts are the constant `Exempt`.

### Driver

`Driver` is `RNodeInterface`: the thread of the constructor, and readers and reconnecting loops, which are the
same threads at different places (`pc`), as `readLoop()` turns into `reconnect_port()` when it ends. `RadioThreads` has the
places and what they say of one another (`Reading`, `Looping`, `OneAtATime`), `Driver` the steps.

| In the model | In the code |
|---|---|
| `port`, `device` | `serial` (closed, open, or open with its device gone); the device (external) |
| `asked`, `detected`, `matched` | answers on their way; `detected`; whether `validateRadioState()` is content |
| `online`, `reconnecting`, `detached` | the flags of these names |
| `ready`, `queue`, `frames` | `interface_ready`, `packet_queue`; frames the device has not sent yet |
| `tested` | a `process_outgoing()` interrupted after its look at `interface_ready` |

Actions: `OpenPort`, `StartReader`, `Detect`, `AwaitDetect`, `InitRadio`, `ValidateRadioState`, `GoOnline`
(`open_port`, `configure_device`), `ReadAnswer`, `ReadReady`, `EndReading` (`readLoop`), `Reconnect`, `EnterLoop`,
`Retry`, `LeaveLoop` (`reconnect_port`), `Send`, `SendLate`, `Detach`; `Unplug`, `Plug`, `LoseReady` of the
device. Two waits of the code are taken to be long enough unless a mishap says otherwise: five seconds
for a reader to notice a closed port (`LINGER`), and the waits for the device's answers (`SLOW`). A device that is unplugged
or reports an error has dropped its frames, as one that resets does, unless it kept them (`KEPT`): the code
tells an unknown hardware failure (1086-1088) from neither.

### Ratchets

`Ratchets` is the ratchets of one destination, whose announcing and receiving threads share a list and a
file, and a sender that stores the ratchet it hears. A ratchet is the number of its generation.

| In the model | In the code |
|---|---|
| `ratchets` | `Destination.ratchets`, or none when it is `None` |
| `file`, `temp`, `lock` | the file at `ratchets_path`, its `.tmp`, `ratchet_file_lock` |
| `due` | `latest_ratchet_time` is 0, so that the first announce rotates |
| `packet[t]`, `lost` | what a receiving thread has in hand; what could not be decrypted (history) |
| `known`, `stored`, `jobs` | `Identity.known_ratchets`, the sender's file, its storing threads |

Actions: `Enable`, `Rotate`, `KeepRatchet`, `Announce`; `WriteTemp`, `Unlink`, `Rename`, `PersistFails`
(`_persist_ratchets`, step by step), `Receive`, `Reload`, `ReloadGap` (`_reload_ratchets`, which looks for the file
without the lock); `Hear`, `Store`, `Send`, `Expire`; `Crash`, `Restart`.

### Tunnels

`Tunnels` is a TCP client that reconnects, the node it connects to, with the tunnel that keeps its paths, and
what this node saves and loads.

| In the model | In the code |
|---|---|
| `conn`, `online`, `OUT`, `reader` | the client's socket, its flags, and where its thread is |
| `queue[c]`, `cut` | what is on its way on connection `c`; connections closed or broken |
| `spawned`, `tunnel_id` | the node's interface for each connection, and whether it belongs to the tunnel |
| `path`, `tunnel`, `known` | the entries of `path_table`, `tunnels` and `known_destinations` |
| `cache`, `cleaning` | the announce cache on disk; the list a `clean_announce_cache()` under way works with |
| `jobs_locked` | the flag of that name |
| `saver`, `open`, `disk` | which file `persist_data()` or `exit_handler()` is at, what it writes, and the files |

Actions: `Connect`, `Lost`, `Break`, `Synthesize`, `Announce` at the client; `Receive` (announces and the
tunnel's packet, `handle_tunnel`), `Overhear`, `Teardown`, `Cull`, `ExpireTunnel`, `CleanCache`,
`CleanOverlapping`, `CleanOverlapped` (a cleaning that `inbound()` overlaps), `PersistData`, `Open`, `Close`, `Stop`,
`Crash`, `Start` at the node. Announces are compared by emission only; the cases of an expired or an unresponsive path are in `Paths`.
`save_tunnel_table()` saves a tunnel with the expiry of its last path (3100), which makes no difference here, where a tunnel may expire at any time.

## The runs

| Run | Expect | Properties | What it shows |
|---|---|---|---|
| `channel` | pass | `ProvedIsHeld RetryPending EventuallyDelivered EventuallyReady` | reliability: nothing accepted is lost on an open link, a full window opens again |
| `channel_faults` | pass | `InOrderExactlyOnce NothingDeliverableHeld WindowSound ReliableDelivery` | safety with every mishap, and the refinement of `ReliableFifo` |
| `link` | pass | `OpensAfterInitiator BlameIsTrue ReachableWhileOpen ClosedForGood TeardownIsReported EstablishmentEnds BothEndsClose` | the life of a link with every loss and order of its packets |
| `request` | pass | `ListedUntilConcluded FailureStands ConcludesAsPromised LargeIsConcluded` | one outcome per request, in every order of proof, response, failure and timeouts, but for looks that are overtaken; a large request ends |
| `resource` | pass | `ProgressIsExact DemandServed NeverIdle LeavesWithOutcome TransfersAsPromised SenderConcludes ReceiverConcludes` | receiver and sender agree on what is missing, segments are stored in order and once, both ends conclude |
| `paths` | pass | `LoopFree` | no order of announces, answers and mishaps makes a circle of sound next hops |
| `paths_spread` | pass | `AnnouncesSpread RequestsAnswered` | announces reach everyone, requests are answered |
| `transit` | pass | `OnceFromPeer MtuFits Carries` | ends are given what their peer sent, once; the MTU fits; what is sent arrives |
| `transit_echo` | violation | `OnceFromPeer` | a channel packet repeated on the medium it came on is taken for the peer's |
| `driver` | pass | `OneAtATime Serves` | one reads, one reconnects, one frame at a time; the interface comes up again |
| `ratchets` | pass | `NothingLost StoresLatest` | no packet is lost to a retained ratchet; a sender stores what it knows |
| `tunnels` | pass | `PathIsCached PathIsKnown PathReturns JobsResume` | paths are backed by cache and identity and come back; the job loop goes on |

`transit_echo` is a disagreement of code and documentation, listed in `PROJECT.json` under `findings` with
the lines on both sides. The type invariant of every module is proved, and
therefore no part of a run.

Several properties name the mishaps after which they no longer hold (`past \cap {...}`, in `Driver` `incidents`). Each of these
exceptions was found with TLC: without it the property is violated. They are what the code does, and worth
knowing:

* *Channel*: a sequence number taken by a message that is refused as too big blocks the channel (`OVERSIZE`);
  a message sent on a stale link is neither transmitted nor retried (`STALE`), and its packet, which was never packed, makes
  the search for every later envelope raise an exception; a packet that no interface takes is never retried while the link is
  active, and holds up all later messages (`UNSENT`, which the properties except packet by packet and the run `channel` has); where the number wraps, the
  collecting loop of the receiver loses its place (seen with `First = 7`).
* *Link*: a thread interrupted between its look at the status and its assignment reopens a closed link
  (`PREEMPT`); a proof of the wrong mode closes a link without the callback; the peer may take an end for
  closed, and give that as its reason, while that end is still `ACTIVE` and about to close.
* *Request*: a timeout that comes between the look at the status and its change has the failed callback called, and is then
  undone by the part of a response (`RECEIVING`), or followed by the response callback (`OVERTAKEN`); a proof during the response
  callback turns an answered receipt back into one that waits, and a failure of the upload adds the failed callback
  (`ANSWERED`). In no order is either callback made twice. A request that fits a packet times out in silence (`Link.py:1437` against 484-486).
* *Resource*: see [The proofs](#the-proofs) for a request that two hashmap updates overtake. A late second
  advertisement stores a segment twice (`LATE`); a packet that comes while an assembly concludes calls the
  callback twice or not at all (`PREEMPT`). Also: `__advertise_job` overwrites the `FAILED` of a resource cancelled
  while it is queued; the sender is never told of a corrupt segment.
* *Paths*: an answer that is heard before it is sent strands the announce held for it (`SILENCE`); a second
  request overwrites the held announce (`CROWD`); a request from a second segment, while a relay
  is looking for the path for the first, is never answered (`WAITING`); a relay that learns a path from an answer does
  not pass the announce on (`LEARNT`); an unresponsive path is replaced by one of the same emission and more hops, again
  and again, so that two such nodes may point at each other.
* *Transit*: see `transit_echo`; a relay forgets a reverse entry also when the proof comes from the wrong
  interface; a link proof is dropped once the path's length changes.
* *Driver*: a frame that survives a failure is joined by the next one, in spite of flow control (`KEPT`); the interface may go online after its reader has ended (`STRANDED`), and then nothing notices
  that the port is dead; packets queued at a failure wait for a "ready" that does not come (`BACKLOG`); flow control
  has no timeout (`MUTE`); two threads that meet may both reconnect (`TOGETHER`).
* *Ratchets*: between the removal of the file and the renaming, another thread finds no file and creates an empty
  list, and a crash leaves none (`GAP`); a thread may announce a ratchet of another one that is not written
  yet (`UNSAVED`).
* *Tunnels*: an announce over a tunnel that expired meanwhile raises an error, which ends the interface's reader with
  `jobs_locked` set, until another packet arrives; none does if the client's socket met an error in a writer before its reader,
  which clears `OUT` for ever though the reader reconnects (`TEARDOWN`). Announces that come before the tunnel's packet, or after that of
  the next connection, are not restored (`EARLY`, `LATE`); a crash between two files loses an identity whose path is
  saved (`TORN`); an announce that is received between `jobs()`' list of active announces and its use is removed from the
  cache (`OVERLAP`). `JobsResume` holds with one mishap, as run. With two, a break of the connection and then the expiry of its
  tunnel, an announce of the old connection that is handled last ends that connection's reader only, and
  `jobs_locked` stays set until another packet is handled, which is what came to light when its safety core was
  to be proved.

**Bounds of Channel.** `MaxSend = 3` calls of `send()` and `MaxTries = 2`: a gap with a
message on either side of it, a retry and a give-up all occur, and two messages can be out while the
third waits for the window (`WINDOW = 2`). `SEQ_MODULUS = 8` is far from a wrap with
`First = 0`. The window constants are scaled down in the order the code's have. The set `data` is never
emptied, so that loss, duplication and delay of any length need no bound of their own. What grows with
the constants is covered by the theorems, which hold for all of them.

**Bounds of Link.** One link, each application calls `teardown()` once, and a packet of each kind is
in the network at most once per end. There is no other bound: the model is finite as it stands.
Links share no state but the lists, and the sweep treats their elements one by one.

**Bounds of Request.** One request, so that every identifier matches; the requests of a link share only
the list, whose elements are treated one by one. The model is finite as it stands: each
packet is sent once, a resource begins and ends once, and may have any number of parts.

**Bounds of Resource.** A transfer of one segment of seven parts, or of two of one part. Seven parts with
two hashes a packet (`HASHMAP_MAX_LEN = 2`) need the advertisement and three hashmap updates, the last of them
for one hash; the window goes from 2 to 3 and back, so that it ends within a hashmap, at its end and at the
segment's. Two packets on their way (`Capacity`) can overtake each other; each retry limit is 1, with a retry and a
give-up. 13 parts are needed for a request overtaken by two updates to do harm; see `Timely` below.

**Bounds of Paths.** `paths`: a ring of two relays and the destination's node, the smallest network in which a
path may be learned both ways; `paths_spread`: a line of four nodes, for announces that take two relays. One
announce, one path request, which makes the destination's node emit another announce, and one mishap.
`NoCircle` is proved for every network and any number of each.

**Bounds of Transit.** Two relays; the initiator and the second do not hear each other on the radio, a slow
radio is heard one way, a cable leads to the destination: a link may stay on one medium, change it, and come back by another one.
`Routes` includes wrong hop counts and a way back. One packet besides the link, one change of a path and
one mishap.

**Bounds of Driver.** The constructor and four threads: two that read and two that reconnect, which is as many as
one mishap can bring about. Two packets (one in the device, one in the queue) and two failures.

**Bounds of Ratchets.** Two announcers, interchangeable (`SYMMETRY`), one reader, three ratchets of which two are retained, so that one is
dropped; two announces heard, one mishap.

**Bounds of Tunnels.** Two announces, on a tunnel and on another interface which is nearer or farther; one mishap,
after which there is a second connection or a second start.

**Deadlock** is not checked (`CHECK_DEADLOCK FALSE`): all of these models come to an end, with everything
delivered, concluded or closed and the bounded inputs used up. That they get there is what the liveness
properties say.

## Fairness

`Channel`: weak fairness of the steps of threads already started (`Transmit`, which `UNSENT` may forestall, `Arm`, `Rearm`, the
timeout actions, `Deliver`) and of the sweep of receipts (`Expire`), which the job loop repeats for
ever; and of the end of staleness, since the watchdog closes a stale link or a packet revives it.
Nothing is assumed of the network: `ReceiveProof` and the receive actions are not fair, so
that "delivered or closed" holds even if every packet is lost.

`Link`: weak fairness of the delivery thread's remaining steps, of `RunEstablished`, `TeardownClose`, `WatchdogEnd` and
`LinkClosed` (threads on their way), and of the watchdog's looks at the link. An active link must
become stale only when its peer is closed (`WF(status[Peer[e]] = "CLOSED" /\ WatchdogStale(e))`): a
closed peer sends nothing, so the silence is real, whereas between open ends keep-alives may
arrive for ever. The network is not fair here either; that both ends close rests on the watchdog.

`Request`: weak fairness of the sweep (`Expire`), of threads that were started (`RunExpired`, `WaitEnd`,
`WaitTimeout`, `Handle`, `Respond`), of what follows their looks (`TimedOut`, `Progress`, `Answer`), of the application's callback (`EndAnswer`), and of
the failure of a resource that does not end otherwise (`UploadFail`, `LoseResponse`): its watchdog runs out of
retries. The network and the handler's answer are not fair.

`Resource`: weak fairness of the watchdogs (`SenderTimeout`, `ReceiverTimeout`), of the threads that advertise and
assemble, and of the end of another resource that is ahead in the queue (`OtherConcluded`, which the same watchdogs bring about).
The network is not fair, so both `...Concludes` except the case that requests, or parts and updates, come for ever.

`Paths`: weak fairness of handling what was received, of the job loop, and of the two timers of the interfaces. Here the
network delivers: that an announce reaches everyone cannot hold over one that does not.

`Transit`: weak fairness of `Receive`, for the same reason. `Driver`: threads go on; a device that is plugged
in answers and sends its frames; a reader whose port is closed gets an error. Nothing makes `Plug` fair, so
`Serves` excepts a device that is out for ever. `Tunnels`: the client connects and its threads go on, what was sent on a connection
arrives, the node's job loop and file writes go on, and the node is started again (`Start`).

## The proofs

A module of proofs extends its component's; `InterfaceProofs` extends `Tunnels` and `RadioThreads`, and speaks of the radio's steps
as `Radio!...`, an instance of `Driver` that renames the constants and variables both components have. All theorems hold for every value of the constants that
satisfies the modules' ASSUMEs, and under the further assumptions named.

| Theorem | Assumes | Argument |
|---|---|---|
| **ChannelProofs** `TypeCorrect`, `WindowAlwaysSound` | - | `TypeInv` = types and `Sound(win)`: the rate counters and limits keep an order the window depends on, so neither part is inductive alone |
| `DeliveryInOrder` | `NoWrap` | `ReliableInv` adds `Origin` (nothing is known of a message not yet sent) and `Progress` (delivered, being delivered and expected next are one run of numbers) |
| `NothingHeldBack` | `NoWrap` | `RingOrdered`: the ring is strictly increasing and does not hold the expected number; insertion keeps it so because the loop stops at the first larger number |
| `ProofsVouch` | `NoWrap`, `Unregistered = {}` | `Vouched`: what is proved is in the ring or delivered |
| `RetriesArePending` | no `PREEMPT`, `CULL`, `STALE`; `UNSENT` is allowed | `RetryInv` follows an envelope through the steps of `send()` and of a retry: out, armed, or with a timeout thread started, or dropped by `send()` or `resend()` |
| `ImplementsReliableFifo` | `NoWrap` | each action maps to a step of `ReliableFifo` or a stutter, from `ReliableInv` |
| **LinkProofs** `LinkTypeCorrect` | - | by actions |
| `LinkOpensAfterInitiator` | - | word of an open initiator (`Heard`) exists only after its callback was started (`Told`), and `Told` is never taken back |
| `LinkClosedForGood`, `LinkReachableWhileOpen`, `LinkBlameIsTrue` | no `PREEMPT` | `LinkInv` = `CheckHolds` (what a thread saw is still so), `Listed` (lists follow the status), `Vouched` (a teardown packet comes from an end that is closed or in a call that will close it) |
| `LinkReportPending` | - | an end that closed for a reason has called back and purged its keys, or a thread is on its way to `link_closed()`; only the initiator closes without a reason (`validate_proof()`), because an end that does not exist yet has none (`Unreasoned`) |
| **RequestProofs** `RequestTypeCorrect` | - | by actions |
| `RequestListedUntilConcluded`, `RequestFailureStands` | `past = {}`, as stated | `RequestInv` = types, `OrderInv` (nothing exists before the request, which is handled once and answered once) and, as long as `past` is empty, `Concluded`: list, callbacks and status agree, every look that is still to be acted on stands, and `DELIVERED` is never without a proved upload, so that a timeout cannot precede the failure of the upload |
| `RequestIsACall` | `past = {}`, as stated | each action maps to a step of `Call` or a stutter, from `RequestInv` |
| `RequestConclusionPending` | - | `PendingInv`: a larger request whose caller was told nothing, and whose response has not begun, is still being sent or has a thread that waits, or has looked, and will report it, since only a caller who was told is off the list (`Untold`) |
| **ResourceProofs** `TypeCorrect` | - | with `KnownExist`: a hash that is known is one of a part that exists |
| `StoredInOrder`, `ImplementsTransfer` | no `LATE` | `TransferInv`: segments are started one after the other, what the sender takes for complete is stored, proofs are true, a resource is assembled by one thread, on a closed link too, and never accepted again; each action then maps to a step of `Transfer` or a stutter |
| `LeavesWithOutcomeCorrect` | no `PREEMPT` | `LivedInv`, which says of each `Resource` of the receiver how status, list, assembly and callback go together |
| `ProgressIsExactCorrect`, `DemandServedCorrect`, `NeverIdleCorrect` | no `LATE`, `PREEMPT`; `HASHMAP_MAX_LEN < WINDOW_MAX` (74 and 75 in the code); `[]Timely` | `DemandInv`, below |
| `ShortTransfersCorrect` | the same without `[]Timely`; segments of at most two hashmaps | there is only one update, which cannot overtake a request twice |
| `SenderPendingCorrect` | - | until the sender's application is told, one segment is under way, never two, so that an advertisement waits for other resources only; what is listed is in a state its watchdog ends |
| `ReceiverPendingCorrect` | - | all that a receiver lists is watched or being assembled, also when a late packet sets its status back after its watchdog ended (`PREEMPT`) |
| **PathsProofs** `TypeCorrect` | - | by actions |
| `NoCircle` | - | `RouteInv`, below |
| **TransitProofs** `TypeCorrect` | - | by actions |
| `MtuCorrect` | - | `MtuInv`: the MTU that any packet of the link signals fits the media it has been over, since every relay clamps it to both sides; a destination takes the least of that and its own |
| `OnceFromPeerCorrect` | no context in `Exempt` is sent | `MemoryInv`: what an end was given or has sent is in one of its two hash lists. One rotation does not lose it, and the run and the proof allow one per node |
| **RatchetsProofs** `TypeCorrect` | - | by actions |
| `NothingLostCorrect` | - | `HeardInv` (what a sender has was announced) and `KeepInv` = `LockInv`, `FileInv`: the list and the file hold every announced ratchet that is still to be retained, and so does the temporary file from its writing on, since a thread that rotates meanwhile announces only after its own writing |
| `StoresLatestCorrect` | - | `StoreInv`: the last storing thread under way has the ratchet that is known |
| **InterfaceProofs** `TypeCorrect` | - | by actions |
| `PathIsCachedCorrect` | - | `CacheInv`: without an overlap no cleaning works with an older list |
| `PathIsKnownCorrect` | - | `KnownInv`: a program that does not know the identity knows no path and had none on disk; the files are saved in the order paths, tunnels, identities, so only a crash in between (`TORN`) can leave a path without its identity |
| `RadioTypeCorrect` | - | by actions |
| `RadioOneAtATime` | the exceptions it names | `ThreadsInv` = `MainInv`, `PortInv` and, as long as no thread lingered or met another, `LoopInv`, `AloneInv`, `ReaderInv`: which place of a reader or a loop excludes which others, and what the port and the flags then are; `FrameInv` adds the device's frames |
| `RadioNeverAbandoned` | no `STRANDED`, `TOGETHER` | `WorkInv`: an interface that was not detached is online with a reader, or a thread brings it online: the constructor, a loop, or a reader that has ended or has to, and finds no one reconnecting |

`NoWrap` is `First + MaxSend + WINDOW_MAX < SEQ_MODULUS`. TLC shows that it and the absence of the mishaps named cannot
be dropped (see the list under [The runs](#the-runs)).

**No circle of next hops.** `LoopFree` is not inductive: it says nothing of announces on their way.
`RouteInv` orders what is known of the destination by emission time, newest first, then by hops, and says that whatever a node
passes on (its announce table, its queues, the packets it sent) and whatever path leads to it is *backed*: the
node has a path that is newer, or as new and not longer. Along next hops the pair strictly decreases, so
nodes that never lost, expired or gave up a path form no circle. Such nodes only ever replace a path by a newer one or by
an equally new one over fewer hops, which is what the comparison of random blobs in `inbound()` is for. The
proof covers every network, every mode of the interfaces and any number of mishaps, of which a node that suffered one is excepted.

**Demand and supply of a transfer.** The receiver counts what is missing; the sender looks for it in a part of its hashmap that begins at a
`floor` it moves on when it answers a request for more hashes, and cancels the transfer when it does not find the place. That they
agree is not visible in either end alone. `DemandInv` consists of `IncomingInv` (each `Resource` of the receiver
is gapless, and `outstanding_parts` is the number of parts it lacks of those it knows, whenever it waits), `RequestsInv` and `UpdatesInv`
(requests for hashes and updates on their way begin at a multiple of `HASHMAP_MAX_LEN` and leave no gap), `FreshInv` (while a segment
may still be advertised, no update of it was received) and `FloorInv` (the sender's floor is at most the receiver's height and the window behind
its hashes, and the search reaches beyond what any update on its way brings). `HASHMAP_MAX_LEN < WINDOW_MAX` makes a
request for the next hashes keep the floor below what is still missing.

`Timely` says that no request for hashes is overtaken by two hashmap updates. It is a condition on the network: the receiver
repeats a request after a timeout, so an old one may arrive when two updates have been asked for, answered and received. The search then
ends at an index that is the end of its scope rather than the place of the hash, and as `WINDOW_MAX - 1` is a
multiple of `HASHMAP_MAX_LEN` in the code (74 of 74), that index passes the test for a sequencing error (`Resource.py:1027`): an update leaves that begins too far on, and the receiver's hashmap has a gap. TLC finds this with 13 parts,
two hashes a packet and a window of 3, for which `ProgressIsExact` and `DemandServed` fail. `ShortTransfersCorrect` says that segments of up to
two hashmaps (148 parts) cannot come to that.

Before it was proved each invariant was checked with TLC, as an invariant of the run of its module or of a smaller
instance.

**Only model-checked.** Liveness, for which TLAPS has no rule here: `EventuallyDelivered`, `EventuallyReady`,
`EstablishmentEnds`, `BothEndsClose`, `TeardownIsReported`, `LargeIsConcluded`, `SenderConcludes`, `ReceiverConcludes`, `AnnouncesSpread`,
`RequestsAnswered`, `Carries`, `Serves`, `PathReturns`, `JobsResume`. Every safety property the runs check is stated by a
theorem. For five of the liveness properties the table has the safety at their core, that whoever waits waits for something
that is still to happen: `LinkReportPending` (`TeardownIsReported`), `RequestConclusionPending` (`LargeIsConcluded`),
`SenderPendingCorrect`, `ReceiverPendingCorrect` (the two `...Concludes`) and `RadioNeverAbandoned` (`Serves`). What is left to
TLC is that fairness then brings it about. There is none for `JobsResume`, which two mishaps violate (see above).

## What the models leave out

Bytes: packing, encryption, signatures, hashes and the interface check of `receive()`. Cryptography is ideal.
Numbers of seconds: timeouts happen at any moment, so a property that holds here holds whatever
the timeouts are, but nothing is said of how long anything takes; where the code relies on a wait being long
enough (`Driver`), a mishap says what happens when it is not. Exceptions in application
callbacks, which the code catches. The second direction of a channel, whose retries hold the same
lock. In `Paths` and `Transit`, the local clients of a shared instance, and several destinations that
compete for a queue. In `Resource`, compression, metadata and the collision of part hashes. In
`Tunnels`, the packet hash list and saves that wait for each other. The components marked `not_modelled` in
`PROJECT.json`, each with its reason: `Buffer`, `Identity`, discovery and the utilities, and of the drivers all but the radio
interface and TCP, of which `BackboneInterface` (an event loop that shares its buffers with the sending threads) is
the one worth modelling next.
