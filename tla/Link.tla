-------------------------------- MODULE Link --------------------------------
(***************************************************************************)
(* The life of one RNS.Link (RNS/Link.py) as its two ends see it: the      *)
(* initiator "init" and the destination "dest".  Each end is a link object *)
(* that several threads work on: the thread that delivers packets, the     *)
(* watchdog of the link, the application, and the job loop of Transport    *)
(* that sweeps its lists of links.                                         *)
(*                                                                         *)
(* Packets may be lost (they then stay in net for ever) and overtake each  *)
(* other; the filter of packet hashes removes duplicates.  Time is left    *)
(* out: a watchdog may find a link silent at any moment.                   *)
(***************************************************************************)
EXTENDS Integers, Sequences, SequencesExt

CONSTANT
  Faults    \* the mishaps that may occur:
            \*   "BAD_MODE"       the proof names another mode than the request
            \*   "BAD_SIGNATURE"  the proof's signature is not valid
            \*   "PREEMPT"        a thread is interrupted between looking at the
            \*                    status and setting it

ASSUME LinkAssumption == Faults \subseteq {"BAD_MODE", "BAD_SIGNATURE", "PREEMPT"}

Ends == {"init", "dest"}
Peer == [init |-> "dest", dest |-> "init"]

Proof   == [type : {"LRPROOF"}, quality : {"GOOD", "BAD_MODE", "BAD_SIGNATURE"}]
Message == [type : {"LINKREQUEST", "LRRTT"}] \union Proof
             \union [type : {"DATA", "LINKCLOSE"}, from : Ends]

VARIABLES
  status,     \* status of each end, "NONE" when the object does not exist
  reason,     \* teardown_reason
  keys,       \* whether the end holds its private key and the key derived with it
  table,      \* the list of Transport the end is in, or "none"
  step,       \* how far the delivery thread is in validate_proof (init), in
              \* rtt_packet (dest), or in making a stale link active again
  parting,    \* the calls that have sent the teardown packet, if one is due, and not yet
              \* set CLOSED: a teardown(), and the watchdog's closing of a stale link
  closing,    \* threads that have set CLOSED and not yet called link_closed()
  starting,   \* the thread for the initiator's established callback is started
  callbacks,  \* the callbacks made to the application, in order
  torn,       \* ends whose application has called teardown()
  net         \* packets on their way

vars == <<status, reason, keys, table, step, parting, closing, starting, callbacks, torn,
          net>>

Status == {"NONE", "PENDING", "HANDSHAKE", "ACTIVE", "STALE", "CLOSED"}
Reason == {"NONE", "TIMEOUT", "INITIATOR_CLOSED", "DESTINATION_CLOSED"}

TypeOK ==
  /\ status \in [Ends -> Status]
  /\ reason \in [Ends -> Reason]
  /\ keys \in [Ends -> BOOLEAN]
  /\ table \in [Ends -> {"none", "pending", "active"}]
  /\ step \in [Ends -> {"idle", "handshake", "checked", "reviving"}]
  /\ parting \in [Ends -> SUBSET {"teardown", "stale"}]
  /\ closing \in [Ends -> Nat]
  /\ starting \in BOOLEAN
  /\ callbacks \in [Ends -> Seq({"established", "closed"})]
  /\ torn \in SUBSET Ends
  /\ net \in SUBSET Message

Init ==
  /\ status = [e \in Ends |-> "NONE"]
  /\ reason = [e \in Ends |-> "NONE"]
  /\ keys = [e \in Ends |-> FALSE]
  /\ table = [e \in Ends |-> "none"]
  /\ step = [e \in Ends |-> "idle"]
  /\ parting = [e \in Ends |-> {}]
  /\ closing = [e \in Ends |-> 0]
  /\ starting = FALSE
  /\ callbacks = [e \in Ends |-> <<>>]
  /\ torn = {} /\ net = {}

\* Without preemption a thread that has looked at the status sets it before
\* any other thread of its end goes on.
Quiet(e) == step[e] \in {"checked", "reviving"} => "PREEMPT" \in Faults

Call(e, what) == callbacks' = [callbacks EXCEPT ![e] = Append(@, what)]

\* Whether encrypt() and decrypt() work: with the keys, and after they have been
\* purged with the token, if one was made before, which link_closed() keeps.
Cipher(e) == {keys[e], TRUE}

-----------------------------------------------------------------------------
(***************************************************************************)
(* Establishment.                                                          *)
(***************************************************************************)

\* Link.__init__() at the initiator: the link is registered and asked for.
Open ==
  /\ status["init"] = "NONE"
  /\ status' = [status EXCEPT !["init"] = "PENDING"]
  /\ keys' = [keys EXCEPT !["init"] = TRUE]
  /\ table' = [table EXCEPT !["init"] = "pending"]
  /\ net' = net \union {[type |-> "LINKREQUEST"]}
  /\ UNCHANGED <<reason, step, parting, closing, starting, callbacks, torn>>

\* mutant: the destination does not wait for the round-trip time
ReceiveRequestOpen ==
  /\ [type |-> "LINKREQUEST"] \in net
  /\ status["dest"] = "NONE"
  /\ status' = [status EXCEPT !["dest"] = "ACTIVE"]
  /\ keys' = [keys EXCEPT !["dest"] = TRUE]
  /\ table' = [table EXCEPT !["dest"] = "active"]
  /\ \E proof \in Proof :
       /\ proof.quality \in {"GOOD"} \union Faults
       /\ net' = (net \ {[type |-> "LINKREQUEST"]}) \union {proof}
  /\ UNCHANGED <<reason, step, parting, closing, starting, callbacks, torn>>

\* validate_request() at the destination: the handshake is made, the proof is
\* sent and the link is registered.
ReceiveRequest ==
  /\ [type |-> "LINKREQUEST"] \in net
  /\ status["dest"] = "NONE"
  /\ status' = [status EXCEPT !["dest"] = "HANDSHAKE"]
  /\ keys' = [keys EXCEPT !["dest"] = TRUE]
  /\ table' = [table EXCEPT !["dest"] = "active"]
  /\ \E proof \in Proof :
       /\ proof.quality \in {"GOOD"} \union Faults
       /\ net' = (net \ {[type |-> "LINKREQUEST"]}) \union {proof}
  /\ UNCHANGED <<reason, step, parting, closing, starting, callbacks, torn>>

\* validate_proof() is called for a link found in pending_links.
IsExpected == table["init"] = "pending" /\ status["init"] = "PENDING"

ProofIgnored(proof) ==
  /\ proof \in net /\ Quiet("init") /\ ~IsExpected
  /\ net' = net \ {proof}
  /\ UNCHANGED <<status, reason, keys, table, step, parting, closing, starting, callbacks, torn>>

\* A mode other than the link's raises an exception, whose handler closes the
\* link; link_closed() is not called.
ProofBadMode(proof) ==
  /\ proof \in net /\ Quiet("init") /\ IsExpected
  /\ proof.quality = "BAD_MODE"
  /\ status' = [status EXCEPT !["init"] = "CLOSED"]
  /\ net' = net \ {proof}
  /\ UNCHANGED <<reason, keys, table, step, parting, closing, starting, callbacks, torn>>

\* handshake(); an invalid signature is ignored after it.
ProofHandshake(proof) ==
  /\ proof \in net /\ Quiet("init") /\ IsExpected
  /\ proof.quality # "BAD_MODE"
  /\ status' = [status EXCEPT !["init"] = "HANDSHAKE"]
  /\ step' = IF proof.quality = "GOOD" THEN [step EXCEPT !["init"] = "handshake"] ELSE step
  /\ net' = net \ {proof}
  /\ UNCHANGED <<reason, keys, table, parting, closing, starting, callbacks, torn>>

\* mutant: the status is not looked at again
ProofCheckBlind ==
  /\ step["init"] = "handshake"
  /\ step' = [step EXCEPT !["init"] = "checked"]
  /\ UNCHANGED <<status, reason, keys, table, parting, closing, starting, callbacks, torn, net>>

\* The status is looked at again once the signature has been checked.
ProofCheck ==
  /\ step["init"] = "handshake" /\ status["init"] = "HANDSHAKE"
  /\ step' = [step EXCEPT !["init"] = "checked"]
  /\ UNCHANGED <<status, reason, keys, table, parting, closing, starting, callbacks, torn, net>>

ProofRaise ==
  /\ step["init"] = "handshake" /\ status["init"] # "HANDSHAKE"
  /\ step' = [step EXCEPT !["init"] = "idle"]
  /\ status' = [status EXCEPT !["init"] = "CLOSED"]
  /\ UNCHANGED <<reason, keys, table, parting, closing, starting, callbacks, torn, net>>

\* mutant: activate_link() is left out
ProofActivateUnlisted ==
  /\ step["init"] = "checked"
  /\ step' = [step EXCEPT !["init"] = "idle"]
  /\ status' = [status EXCEPT !["init"] = "ACTIVE"]
  /\ net' = net \union {[type |-> "LRRTT"]}
  /\ starting' = TRUE
  /\ UNCHANGED <<reason, keys, table, parting, closing, callbacks, torn>>

\* The link is ACTIVE and moves to active_links; the round-trip time is sent,
\* and the thread for the established callback started.  When the packet cannot
\* be encrypted an exception is raised, and the handler closes the link.
ProofActivate ==
  /\ step["init"] = "checked"
  /\ step' = [step EXCEPT !["init"] = "idle"]
  /\ table' = [table EXCEPT !["init"] = IF @ = "pending" THEN "active" ELSE @]
  /\ \E works \in Cipher("init") :
       /\ status' = [status EXCEPT !["init"] = IF works THEN "ACTIVE" ELSE "CLOSED"]
       /\ net' = IF works THEN net \union {[type |-> "LRRTT"]} ELSE net
       /\ starting' = (starting \/ works)
  /\ UNCHANGED <<reason, keys, parting, closing, callbacks, torn>>

\* The thread started for the established callback of the initiator.
RunEstablished ==
  /\ starting /\ Quiet("init")
  /\ starting' = FALSE
  /\ Call("init", "established")
  /\ UNCHANGED <<status, reason, keys, table, step, parting, closing, torn, net>>

\* Link.receive() takes a packet from its peer if Transport finds the link in
\* active_links and the link is not closed.
Listens(e) == table[e] = "active" /\ status[e] # "CLOSED"

\* rtt_packet() at the destination; receive() has looked at the status before.
RttCheck ==
  /\ [type |-> "LRRTT"] \in net /\ step["dest"] = "idle"
  /\ net' = net \ {[type |-> "LRRTT"]}
  /\ step' = IF Listens("dest") THEN [step EXCEPT !["dest"] = "checked"] ELSE step
  /\ UNCHANGED <<status, reason, keys, table, parting, closing, starting, callbacks, torn>>

RttActivate ==
  /\ step["dest"] = "checked"
  /\ step' = [step EXCEPT !["dest"] = "idle"]
  /\ \E works \in Cipher("dest") :
       IF works
       THEN /\ status' = [status EXCEPT !["dest"] = "ACTIVE"]
            /\ Call("dest", "established")
       ELSE UNCHANGED <<status, callbacks>>
  /\ UNCHANGED <<reason, keys, table, parting, closing, starting, torn, net>>

-----------------------------------------------------------------------------
(***************************************************************************)
(* Traffic, the watchdog and the end of the link.                          *)
(***************************************************************************)

\* Data, keep-alives and their answers.
SendData(e) ==
  /\ status[e] \in {"ACTIVE", "STALE"} /\ Quiet(e)
  /\ net' = net \union {[type |-> "DATA", from |-> e]}
  /\ UNCHANGED <<status, reason, keys, table, step, parting, closing, starting, callbacks, torn>>

\* receive(): whatever is received makes a stale link active again.
ReceiveData(e) ==
  LET packet == [type |-> "DATA", from |-> Peer[e]] IN
  /\ packet \in net /\ step[e] = "idle"
  /\ net' = net \ {packet}
  /\ step' = IF Listens(e) /\ status[e] = "STALE"
             THEN [step EXCEPT ![e] = "reviving"] ELSE step
  /\ UNCHANGED <<status, reason, keys, table, parting, closing, starting, callbacks, torn>>

Revive(e) ==
  /\ step[e] = "reviving"
  /\ step' = [step EXCEPT ![e] = "idle"]
  /\ status' = [status EXCEPT ![e] = "ACTIVE"]
  /\ UNCHANGED <<reason, keys, table, parting, closing, starting, callbacks, torn, net>>

\* mutant: link_closed() is not called
CloseOnly(e, why) ==
  /\ status' = [status EXCEPT ![e] = "CLOSED"]
  /\ reason' = [reason EXCEPT ![e] = why]
  /\ UNCHANGED <<closing, keys, table, step, starting, callbacks>>

\* What every way of closing has in common.
Close(e, why) ==
  /\ status' = [status EXCEPT ![e] = "CLOSED"]
  /\ reason' = [reason EXCEPT ![e] = why]
  /\ closing' = [closing EXCEPT ![e] = @ + 1]
  /\ UNCHANGED <<keys, table, step, starting, callbacks>>

OwnReason == [init |-> "INITIATOR_CLOSED", dest |-> "DESTINATION_CLOSED"]

ClosePacket(e) == [type |-> "LINKCLOSE", from |-> e]

\* __teardown_packet(), which teardown() leaves out on a pending or closed link.
SendClose(e) ==
  net' = IF status[e] \in {"PENDING", "CLOSED"} THEN net ELSE net \union {ClosePacket(e)}

\* mutant: the teardown packet is sent although the link stays open
TeardownLater(e) ==
  /\ status[e] # "NONE" /\ Quiet(e) /\ e \notin torn
  /\ torn' = torn \union {e}
  /\ SendClose(e)
  /\ UNCHANGED <<status, reason, keys, table, step, parting, closing, starting, callbacks>>

\* teardown(), called by the application, or by the watchdog when the time to sleep
\* came out negative: once at each end, in any state.  The packet is sent while the
\* link is still open, and may arrive before it is closed.
Teardown(e) ==
  /\ status[e] # "NONE" /\ Quiet(e) /\ e \notin torn
  /\ torn' = torn \union {e}
  /\ SendClose(e)
  /\ parting' = [parting EXCEPT ![e] = @ \union {"teardown"}]
  /\ UNCHANGED <<status, reason, keys, table, step, closing, starting, callbacks>>

\* teardown(), once the packet has been sent.
TeardownClose(e) ==
  /\ "teardown" \in parting[e] /\ Quiet(e)
  /\ parting' = [parting EXCEPT ![e] = @ \ {"teardown"}]
  /\ Close(e, OwnReason[e])
  /\ UNCHANGED <<torn, net>>

\* teardown_packet(): the peer has closed the link.
ReceiveClose(e) ==
  /\ ClosePacket(Peer[e]) \in net /\ Quiet(e)
  /\ net' = net \ {ClosePacket(Peer[e])}
  /\ \E works \in Cipher(e) :
       IF Listens(e) /\ works
       THEN Close(e, OwnReason[Peer[e]])
       ELSE UNCHANGED <<status, reason, closing, keys, table, step, starting, callbacks>>
  /\ UNCHANGED <<parting, torn>>

\* mutant: the branch for HANDSHAKE is missing from the watchdog
WatchdogTimeoutPending(e) ==
  /\ status[e] = "PENDING" /\ Quiet(e) /\ "stale" \notin parting[e]
  /\ Close(e, "TIMEOUT")
  /\ UNCHANGED <<parting, torn, net>>

\* __watchdog_job(): the establishment timed out.
WatchdogTimeout(e) ==
  /\ status[e] \in {"PENDING", "HANDSHAKE"} /\ Quiet(e) /\ "stale" \notin parting[e]
  /\ Close(e, "TIMEOUT")
  /\ UNCHANGED <<parting, torn, net>>

\* mutant: only the initiator, which sends the keep-alives, watches the link
WatchdogStaleInit(e) ==
  /\ e = "init" /\ status[e] = "ACTIVE" /\ Quiet(e) /\ "stale" \notin parting[e]
  /\ status' = [status EXCEPT ![e] = "STALE"]
  /\ UNCHANGED <<reason, keys, table, step, parting, closing, starting, callbacks, torn, net>>

\* __watchdog_job(): nothing was heard for stale_time.
WatchdogStale(e) ==
  /\ status[e] = "ACTIVE" /\ Quiet(e) /\ "stale" \notin parting[e]
  /\ status' = [status EXCEPT ![e] = "STALE"]
  /\ UNCHANGED <<reason, keys, table, step, parting, closing, starting, callbacks, torn, net>>

\* __watchdog_job(): the link stayed stale; here too the packet goes first.
WatchdogClose(e) ==
  /\ status[e] = "STALE" /\ Quiet(e) /\ "stale" \notin parting[e]
  /\ net' = net \union {ClosePacket(e)}
  /\ parting' = [parting EXCEPT ![e] = @ \union {"stale"}]
  /\ UNCHANGED <<status, reason, keys, table, step, closing, starting, callbacks, torn>>

WatchdogEnd(e) ==
  /\ "stale" \in parting[e] /\ Quiet(e)
  /\ parting' = [parting EXCEPT ![e] = @ \ {"stale"}]
  /\ Close(e, "TIMEOUT")
  /\ UNCHANGED <<torn, net>>

\* link_closed() purges the private key and what was derived with it, though not the
\* token made of them, and calls the application.
LinkClosed(e) ==
  /\ closing[e] > 0 /\ Quiet(e)
  /\ closing' = [closing EXCEPT ![e] = @ - 1]
  /\ keys' = [keys EXCEPT ![e] = FALSE]
  /\ Call(e, "closed")
  /\ UNCHANGED <<status, reason, table, step, parting, starting, torn, net>>

\* Transport.jobs() drops closed links from its lists.
Sweep(e) ==
  /\ table[e] # "none" /\ status[e] = "CLOSED" /\ Quiet(e)
  /\ table' = [table EXCEPT ![e] = "none"]
  /\ UNCHANGED <<status, reason, keys, step, parting, closing, starting, callbacks, torn, net>>

-----------------------------------------------------------------------------
Establish ==
  \/ Open \/ ReceiveRequest
  \/ \E proof \in Proof :
       ProofIgnored(proof) \/ ProofBadMode(proof) \/ ProofHandshake(proof)
  \/ ProofCheck \/ ProofRaise \/ ProofActivate \/ RunEstablished
  \/ RttCheck \/ RttActivate

Operate(e) ==
  \/ SendData(e) \/ ReceiveData(e) \/ Revive(e)
  \/ Teardown(e) \/ TeardownClose(e) \/ ReceiveClose(e) \/ LinkClosed(e)
  \/ WatchdogTimeout(e) \/ WatchdogStale(e) \/ WatchdogClose(e) \/ WatchdogEnd(e)
  \/ Sweep(e)

Next == Establish \/ \E e \in Ends : Operate(e)

Spec == Init /\ [][Next]_vars

\* Threads go on and the watchdog looks at its link again and again: it ends an
\* establishment that gets nowhere, and one whose peer is closed, and so silent,
\* becomes stale.  The network owes nothing.
Fairness ==
  /\ WF_vars(ProofCheck) /\ WF_vars(ProofRaise) /\ WF_vars(ProofActivate)
  /\ WF_vars(RunEstablished) /\ WF_vars(RttActivate)
  /\ \A e \in Ends :
       /\ WF_vars(Revive(e)) /\ WF_vars(LinkClosed(e))
       /\ WF_vars(TeardownClose(e)) /\ WF_vars(WatchdogTimeout(e))
       /\ WF_vars(status[Peer[e]] = "CLOSED" /\ WatchdogStale(e))
       /\ WF_vars(WatchdogClose(e)) /\ WF_vars(WatchdogEnd(e))

FairSpec == Spec /\ Fairness

-----------------------------------------------------------------------------
(***************************************************************************)
(* Properties.                                                             *)
(***************************************************************************)

\* A closed link stays closed: no late proof, round-trip time or data packet
\* brings it back while its keys are being purged.
ClosedForGood ==
  [][\A e \in Ends : status[e] = "CLOSED" => status'[e] = "CLOSED"]_vars

\* The destination's end opens only after the initiator's, whose application has
\* been told, or is about to be told, that the link is established.
OpensAfterInitiator ==
  status["dest"] \in {"ACTIVE", "STALE"} =>
    starting \/ "established" \in ToSet(callbacks["init"])

\* An end that puts the teardown down to its peer is right: a thread of the peer's has
\* closed that end, or has sent the packet and is about to.
BlameIsTrue ==
  \A e \in Ends : reason[e] = OwnReason[Peer[e]] =>
    status[Peer[e]] = "CLOSED" \/ parting[Peer[e]] # {}

\* An open end is among the links Transport delivers packets to.
ReachableWhileOpen ==
  \A e \in Ends : status[e] \in {"ACTIVE", "STALE"} => table[e] = "active"

\* A link closed for a reason is reported to the application and gives up its private
\* key and what was derived with it (the token that encrypts for the link stays,
\* although teardown() says that it purges the encryption keys); one that a bad proof
\* closed has no reason, and is not reported.
TeardownIsReported ==
  \A e \in Ends :
    reason[e] # "NONE" ~> "closed" \in ToSet(callbacks[e]) /\ ~keys[e]

\* An establishment ends, one way or the other.
EstablishmentEnds ==
  \A e \in Ends :
    status[e] \in {"PENDING", "HANDSHAKE"} ~> status[e] \in {"ACTIVE", "STALE", "CLOSED"}

\* When one end has closed, so does the other in the end, whether or not the
\* packet that tells it so arrives.
BothEndsClose ==
  \A e \in Ends : status[e] = "CLOSED" ~> status[Peer[e]] \in {"NONE", "CLOSED"}
=============================================================================
