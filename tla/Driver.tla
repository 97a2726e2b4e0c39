------------------------------- MODULE Driver -------------------------------
(***************************************************************************)
(* The threads of an interface to a radio on a serial port, Bluetooth or   *)
(* TCP (RNS/Interfaces/RNodeInterface.py): the constructor, the threads    *)
(* that read the port, of which the first to fail turns into a loop that   *)
(* reconnects, the threads that send, and detach().  The device may be     *)
(* unplugged, plugged in and report errors at any time.                    *)
(***************************************************************************)
EXTENDS RadioThreads

CONSTANTS
  MaxPackets,     \* packets that are sent
  MaxFailures,    \* times the device is unplugged or reports an error
  MaxMishaps,     \* mishaps that occur
  Faults          \* the mishaps that may occur:
                  \*   "SLOW"     the device does not answer in time
                  \*   "LINGER"   a reader does not notice in 5 seconds that its
                  \*              port was closed, nor the constructor that it failed
                  \*   "TOGETHER" another thread runs between a check and what
                  \*              depends on it
                  \*   "MUTE"     the device never says that it is ready again
                  \*   "KEPT"     a device that is cut off or reports an error keeps
                  \*              the frames it holds

Reports == {"DETECT", "RADIO"}

ASSUME NumbersAssumption ==
  /\ {MaxPackets, MaxFailures, MaxMishaps} \subseteq Nat /\ FlowControl \in BOOLEAN
ASSUME FaultsAssumption == Faults \subseteq {"SLOW", "LINGER", "TOGETHER", "MUTE", "KEPT"}

VARIABLES
  device,        \* whether it is plugged in
  failures,      \* how often it failed
  port,          \* serial: "OPEN", "DEAD" if its device is gone, "CLOSED"
  asked,         \* what the device was asked and its answers were not read
  detected,
  matched,       \* whether the radio state reported is the one configured
  online,
  reconnecting,
  detached,
  ready,         \* interface_ready
  queue,         \* how many packets packet_queue holds
  tested,        \* what a sender that was interrupted found ready to be, if any
  packets        \* how many packets were sent

world   == <<device, failures>>
radio   == <<asked, detected, matched>>
flags   == <<online, reconnecting, detached>>
traffic == <<ready, queue, frames, tested, packets>>
vars    == <<world, port, pc, radio, flags, traffic, incidents>>

-----------------------------------------------------------------------------
(***************************************************************************)
(* State.                                                                  *)
(***************************************************************************)

MayOccur(kind) ==
  /\ kind \in Faults \ incidents
  /\ Cardinality(incidents \cap Faults) < MaxMishaps

Mishap(kind) == MayOccur(kind) /\ incidents' = incidents \cup {kind}

Init ==
  /\ device \in {"IN", "OUT"} /\ failures = 0
  /\ port = "CLOSED"
  /\ pc = [t \in Threads \cup {Main} |-> IF t = Main THEN "OPEN" ELSE "NONE"]
  /\ asked = {} /\ detected = FALSE /\ matched = FALSE
  /\ online = FALSE /\ reconnecting = FALSE /\ detached = FALSE
  /\ ready = FALSE /\ queue = 0 /\ frames = 0 /\ tested = {} /\ packets = 0
  /\ incidents = {}

\* Back from configure_device(): the constructor is done, a loop looks again.
Returned(t) == IF t = Main THEN "NONE" ELSE "RETRY"

\* An exception in open_port() or configure_device(): the constructor starts a
\* thread that reconnects, unless there is one; a loop looks again.
Raised(t) ==
  IF t # Main THEN Go(t, "RETRY") /\ UNCHANGED <<reconnecting, incidents>>
  ELSE IF detached \/ reconnecting THEN Go(t, "NONE") /\ UNCHANGED <<reconnecting, incidents>>
  ELSE \E r \in NewThreads :
            \/ /\ pc' = [pc EXCEPT ![t] = "NONE", ![r] = "RETRY"]
               /\ reconnecting' = TRUE /\ UNCHANGED incidents
            \/ /\ pc' = [pc EXCEPT ![t] = "NONE", ![r] = "ENTER"]
               /\ Mishap("TOGETHER") /\ UNCHANGED reconnecting

-----------------------------------------------------------------------------
(***************************************************************************)
(* The device.                                                             *)
(***************************************************************************)

\* A device that fails is reset and loses its frames, or it keeps them: one that
\* is only cut off, or that reports an error the code does not know.
Keeps(kept) ==
  \/ kept = {} /\ frames' = 0
  \/ kept = {"KEPT"} /\ MayOccur("KEPT") /\ frames > 0 /\ UNCHANGED frames

Unplug ==
  /\ device = "IN" /\ device' = "OUT"
  /\ failures < MaxFailures /\ failures' = failures + 1
  /\ port' = IF port = "OPEN" THEN "DEAD" ELSE port
  /\ asked' = {}
  /\ \E kept \in SUBSET {"KEPT"} : Keeps(kept) /\ incidents' = incidents \cup kept
  /\ UNCHANGED <<pc, detected, matched, flags, ready, queue, tested, packets>>

Plug ==
  /\ device = "OUT" /\ device' = "IN"
  /\ UNCHANGED <<failures, port, pc, radio, flags, traffic, incidents>>

-----------------------------------------------------------------------------
(***************************************************************************)
(* open_port(), configure_device().                                        *)
(***************************************************************************)

\* Five seconds are enough for a reader to notice that its port is gone, and for
\* the constructor to end.
Settled(t) ==
  t # Main => /\ port # "OPEN" => Reading = {}
              /\ pc[Main] = "NONE"

OpenPort(t) ==
  /\ pc[t] = "OPEN"
  /\ \/ /\ device = "IN"
        /\ port' = "OPEN" /\ asked' = {}
        /\ Go(t, "START_READER")
        /\ (Settled(t) /\ UNCHANGED incidents) \/ (~Settled(t) /\ Mishap("LINGER"))
        /\ UNCHANGED reconnecting
     \/ /\ device = "OUT"
        /\ Raised(t)
        /\ UNCHANGED <<port, asked>>
  /\ UNCHANGED <<world, detected, matched, online, detached, traffic>>

\* reset_radio_state(), and a thread that reads the port.
StartReader(t) ==
  /\ pc[t] = "START_READER"
  /\ \E r \in NewThreads : pc' = [pc EXCEPT ![t] = "DETECT", ![r] = "READ"]
  /\ detected' = FALSE /\ matched' = FALSE
  /\ UNCHANGED <<world, port, asked, flags, traffic, incidents>>

\* A request to the device, which raises an error if there is no port to write to.
Ask(t, place, report, next) ==
  /\ pc[t] = place
  /\ \/ /\ port = "OPEN"
        /\ asked' = asked \cup {report}
        /\ Go(t, next)
        /\ UNCHANGED <<reconnecting, incidents>>
     \/ /\ port # "OPEN"
        /\ Raised(t)
        /\ UNCHANGED asked
  /\ UNCHANGED <<world, port, detected, matched, online, detached, traffic>>

Detect(t)    == Ask(t, "DETECT", "DETECT", "AWAIT_DETECT")
InitRadio(t) == Ask(t, "INIT_RADIO", "RADIO", "VALIDATE")

\* What has not arrived after the wait is not to come, unless the device is slow.
Awaited(report) ==
  \/ report \notin asked /\ UNCHANGED incidents
  \/ report \in asked /\ (port # "OPEN" \/ Reading = {}) /\ UNCHANGED incidents
  \/ report \in asked /\ port = "OPEN" /\ Reading # {} /\ Mishap("SLOW")

GiveUp(t) == Go(t, Returned(t)) /\ port' = "CLOSED"

AwaitDetect(t) ==
  /\ pc[t] = "AWAIT_DETECT"
  /\ Awaited("DETECT")
  /\ IF detected THEN Go(t, "INIT_RADIO") /\ UNCHANGED port ELSE GiveUp(t)
  /\ UNCHANGED <<world, radio, flags, traffic>>

ValidateRadioState(t) ==
  /\ pc[t] = "VALIDATE"
  /\ Awaited("RADIO")
  /\ IF matched THEN Go(t, "SETTLE") /\ ready' = TRUE /\ UNCHANGED port
     ELSE GiveUp(t) /\ UNCHANGED ready
  /\ UNCHANGED <<world, radio, flags, queue, frames, tested, packets>>

\* After another 0.3 seconds, whatever became of the reader: without one, nothing
\* will tell that the port is dead.
GoOnline(t) ==
  /\ pc[t] = "SETTLE"
  /\ online' = TRUE
  /\ Go(t, Returned(t))
  /\ incidents' = IF Reading = {} THEN incidents \cup {"STRANDED"} ELSE incidents
  /\ UNCHANGED <<world, port, radio, reconnecting, detached, traffic>>

-----------------------------------------------------------------------------
(***************************************************************************)
(* readLoop(), reconnect_port().                                           *)
(***************************************************************************)

ReadAnswer(t) ==
  /\ pc[t] = "READ" /\ port = "OPEN"
  /\ \E report \in asked :
       /\ asked' = asked \ {report}
       /\ detected' = (detected \/ report = "DETECT")
       /\ matched' = (matched \/ report = "RADIO")
  /\ UNCHANGED <<world, port, pc, flags, traffic, incidents>>

\* mutant: interface_ready is not set before the packet goes out
SendNextUnready ==
  IF queue > 0 THEN frames' = frames - 1 /\ UNCHANGED <<ready, queue>>
  ELSE ready' = TRUE /\ frames' = frames - 1 /\ UNCHANGED queue

\* process_queue(): the device has sent one frame, and takes the next.
SendNext ==
  IF queue > 0 THEN /\ queue' = queue - 1
                    /\ ready' = (~online \/ ~FlowControl)
                    /\ frames' = IF online THEN frames ELSE frames - 1
  ELSE ready' = TRUE /\ frames' = frames - 1 /\ UNCHANGED queue

ReadReady(t) ==
  /\ pc[t] = "READ" /\ port = "OPEN" /\ frames > 0
  /\ SendNext
  /\ UNCHANGED <<world, port, pc, radio, flags, tested, packets, incidents>>

LoseReady ==
  /\ frames > 0 /\ frames' = frames - 1
  /\ Mishap("MUTE")
  /\ UNCHANGED <<world, port, pc, radio, flags, ready, queue, tested, packets>>

\* The port is closed, its device is gone, or the device reports an error.
EndReading(t) ==
  /\ pc[t] = "READ"
  /\ \E kept \in SUBSET {"KEPT"} :
       /\ \/ port # "OPEN" /\ kept = {} /\ UNCHANGED <<failures, frames>>
          \/ /\ port = "OPEN" /\ Keeps(kept)
             /\ failures < MaxFailures /\ failures' = failures + 1
       /\ incidents' = incidents \cup kept \cup (IF queue > 0 THEN {"BACKLOG"} ELSE {})
  /\ online' = FALSE /\ port' = "CLOSED"
  /\ Go(t, "AFTER_READ")
  /\ UNCHANGED <<device, radio, reconnecting, detached, ready, queue, tested, packets>>

\* mutant: a thread that is reconnecting is not looked for
StartsOver == ~detached

\* Whether a reader that ended reconnects.
TakesOver == ~detached /\ ~reconnecting

Reconnect(t) ==
  /\ pc[t] = "AFTER_READ"
  /\ \/ ~TakesOver /\ Go(t, "NONE") /\ UNCHANGED <<reconnecting, incidents>>
     \/ TakesOver /\ Go(t, "RETRY") /\ reconnecting' = TRUE /\ UNCHANGED incidents
     \/ TakesOver /\ Go(t, "ENTER") /\ Mishap("TOGETHER") /\ UNCHANGED reconnecting
  /\ UNCHANGED <<world, port, radio, online, detached, traffic>>

\* Late, after another thread may have done the same.
EnterLoop(t) ==
  /\ pc[t] = "ENTER"
  /\ Go(t, "RETRY") /\ reconnecting' = TRUE
  /\ UNCHANGED <<world, port, radio, online, detached, traffic, incidents>>

Retry(t) ==
  /\ pc[t] = "RETRY"
  /\ \/ ~online /\ ~detached /\ Go(t, "OPEN") /\ UNCHANGED <<reconnecting, incidents>>
     \/ (online \/ detached) /\ Go(t, "NONE") /\ reconnecting' = FALSE /\ UNCHANGED incidents
     \/ (online \/ detached) /\ Go(t, "LEAVE") /\ Mishap("TOGETHER") /\ UNCHANGED reconnecting
  /\ UNCHANGED <<world, port, radio, online, detached, traffic>>

\* Late, after the reader may have failed.
LeaveLoop(t) ==
  /\ pc[t] = "LEAVE"
  /\ Go(t, "NONE") /\ reconnecting' = FALSE
  /\ UNCHANGED <<world, port, radio, online, detached, traffic, incidents>>

\* detach(): the port is left open.
Detach ==
  /\ ~detached /\ detached' = TRUE
  /\ UNCHANGED <<world, port, pc, radio, online, reconnecting, traffic, incidents>>

-----------------------------------------------------------------------------
(***************************************************************************)
(* process_outgoing().                                                     *)
(***************************************************************************)

\* What it does with a packet: a frame to the device, which is lost with an error
\* if there is no port; or a packet in the queue.
WriteOrQueue(now) ==
  IF now THEN /\ ready' = (ready /\ ~FlowControl)
              /\ frames' = IF port = "OPEN" THEN frames + 1 ELSE frames
              /\ UNCHANGED queue
  ELSE queue' = queue + 1 /\ UNCHANGED <<ready, frames>>

Send ==
  /\ packets < MaxPackets /\ packets' = packets + 1
  /\ online
  /\ \/ WriteOrQueue(ready) /\ UNCHANGED <<tested, incidents>>
     \/ Mishap("TOGETHER") /\ tested' = {ready} /\ UNCHANGED <<ready, queue, frames>>
  /\ UNCHANGED <<world, port, pc, radio, flags>>

\* Late, after ready may have changed.
SendLate ==
  /\ \E now \in tested : WriteOrQueue(now)
  /\ tested' = {}
  /\ UNCHANGED <<world, port, pc, radio, flags, packets, incidents>>

-----------------------------------------------------------------------------
Configure(t) ==
  \/ OpenPort(t) \/ StartReader(t) \/ Detect(t) \/ AwaitDetect(t) \/ InitRadio(t)
  \/ ValidateRadioState(t) \/ GoOnline(t)
Read(t) == ReadAnswer(t) \/ ReadReady(t) \/ EndReading(t)
Loop(t) == Reconnect(t) \/ EnterLoop(t) \/ Retry(t) \/ LeaveLoop(t)

Next ==
  \/ Unplug \/ Plug \/ Detach \/ LoseReady \/ Send \/ SendLate
  \/ \E t \in Threads \cup {Main} : Configure(t)
  \/ \E t \in Threads : Read(t) \/ Loop(t)

Spec == Init /\ [][Next]_vars

\* Threads go on; a device that is in answers and sends its frames.
FairSpec ==
  /\ Spec /\ WF_vars(SendLate)
  /\ \A t \in Threads \cup {Main} : WF_vars(Configure(t))
  /\ \A t \in Threads : /\ WF_vars(Loop(t)) /\ WF_vars(ReadAnswer(t)) /\ WF_vars(ReadReady(t))
                        /\ WF_vars(port # "OPEN" /\ EndReading(t))

-----------------------------------------------------------------------------
(***************************************************************************)
(* Properties.                                                             *)
(***************************************************************************)

TypeOK ==
  /\ device \in {"IN", "OUT"} /\ failures \in Nat /\ port \in {"OPEN", "DEAD", "CLOSED"}
  /\ pc \in [Threads \cup {Main} -> Places]
  /\ asked \subseteq Reports /\ {detected, matched, online, reconnecting, detached, ready} \subseteq BOOLEAN
  /\ {queue, frames, packets} \subseteq Nat /\ tested \subseteq BOOLEAN
  /\ incidents \subseteq Faults \cup {"STRANDED", "BACKLOG"}

Up == online /\ port = "OPEN" /\ Reading # {}

\* An interface whose device is in comes up, again and again, and what it queued is
\* sent, unless it went online without a reader, threads met, the device is mute, or
\* the packets were queued when the device failed.
Serves ==
  \/ <>(detached \/ incidents \cap {"STRANDED", "LINGER", "TOGETHER", "MUTE"} # {})
  \/ []<>(device = "OUT")
  \/ []<>(Up /\ (queue = 0 \/ "BACKLOG" \in incidents))
=============================================================================
