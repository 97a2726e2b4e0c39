---------------------------- MODULE RadioThreads ----------------------------
(***************************************************************************)
(* The threads of a radio interface and where each of them is, and that    *)
(* they keep out of each other's way.  Driver says how they move.  What is *)
(* here is apart from it so that proofs may speak of these threads beside  *)
(* those of another kind of interface.                                     *)
(***************************************************************************)
EXTENDS Integers, FiniteSets

CONSTANTS
  Main,           \* the thread that constructs the interface
  Threads,        \* the others: readers and reconnecting loops
  FlowControl     \* flow_control

ASSUME ThreadsAssumption == Main \notin Threads /\ IsFiniteSet(Threads)

VARIABLES
  pc,            \* where the threads are
  frames,        \* how many frames the device holds
  incidents      \* the mishaps there were

\* Where a thread may be: not started or ended; in open_port(); in the steps of
\* configure_device(); in readLoop() and after it; in reconnect_port().
Configuring == {"START_READER", "DETECT", "AWAIT_DETECT", "INIT_RADIO", "VALIDATE", "SETTLE"}
Places == {"NONE", "OPEN", "READ", "AFTER_READ", "ENTER", "RETRY", "LEAVE"} \cup Configuring

Reading == {t \in Threads : pc[t] = "READ"}
Looping == {t \in Threads : pc[t] \in {"RETRY", "OPEN", "LEAVE"} \cup Configuring}

\* A thread that is started, of those that were not or ended.
NewThreads == {r \in Threads : pc[r] = "NONE" /\ r = CHOOSE x \in Threads : pc[x] = "NONE"}

Go(t, place) == pc' = [pc EXCEPT ![t] = place]

\* One thread at most reads the port and one at most reconnects, unless threads met
\* or one lingered; and with flow control the device has one frame at most, unless
\* it is mute or kept a frame when it failed, or the interface went online without
\* a reader.
OneAtATime ==
  incidents \cap {"LINGER", "TOGETHER"} = {} =>
    /\ Cardinality(Reading) <= 1 /\ Cardinality(Looping) <= 1
    /\ FlowControl /\ incidents \cap {"MUTE", "KEPT", "STRANDED"} = {} => frames <= 1
=============================================================================
