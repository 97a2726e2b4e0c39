------------------------------ MODULE Transfer ------------------------------
(***************************************************************************)
(* What RNS.Resource (RNS/Resource.py) promises of one large transfer: the *)
(* receiving end appends the segments of the data to its file in order,    *)
(* each of them once, and the application that sends is told, once, either *)
(* that the transfer is complete, which is then true, or that it is not.   *)
(***************************************************************************)
EXTENDS Naturals, Sequences

VARIABLES
  segments, \* number of segments (Resource.total_segments)
  file,     \* the segments in the receiver's file
  outcome   \* what the sending application was told first

vars == <<segments, file, outcome>>

Init == segments \in Nat /\ file = <<>> /\ outcome = "none"

Store ==
  /\ Len(file) < segments
  /\ file' = Append(file, Len(file) + 1)
  /\ UNCHANGED <<segments, outcome>>

Confirm ==
  /\ outcome = "none" /\ Len(file) = segments
  /\ outcome' = "COMPLETE"
  /\ UNCHANGED <<segments, file>>

Fail ==
  /\ outcome = "none"
  /\ outcome' \in {"FAILED", "REJECTED"}
  /\ UNCHANGED <<segments, file>>

Next == Store \/ Confirm \/ Fail

Spec == Init /\ [][Next]_vars
=============================================================================
