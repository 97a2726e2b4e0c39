---------------------------- MODULE ReliableFifo ----------------------------
(***************************************************************************)
(* What RNS.Channel promises: "reliable delivery of messages over a link". *)
(* Messages are numbered in the order in which they are accepted.  The     *)
(* receiver is handed each of them once and in that order.  That what is   *)
(* accepted is also handed over while the link stays open is the liveness  *)
(* property EventuallyDelivered of module Channel.                         *)
(***************************************************************************)
EXTENDS Integers, Sequences

VARIABLES
  accepted,   \* number of messages accepted so far: 0 .. accepted-1
  delivered,  \* the messages handed to the receiving application, in order
  open        \* FALSE once an end of the link has closed

vars == <<accepted, delivered, open>>

Init == accepted = 0 /\ delivered = <<>> /\ open = TRUE

\* The sending application hands over a message.
Accept == accepted' = accepted + 1 /\ UNCHANGED <<delivered, open>>

\* The oldest message not yet delivered reaches the receiving application.
Deliver ==
  /\ Len(delivered) < accepted
  /\ delivered' = Append(delivered, Len(delivered))
  /\ UNCHANGED <<accepted, open>>

Close == open' = FALSE /\ UNCHANGED <<accepted, delivered>>

Next == Accept \/ Deliver \/ Close

Spec == Init /\ [][Next]_vars
=============================================================================
