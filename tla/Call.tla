-------------------------------- MODULE Call --------------------------------
(***************************************************************************)
(* What Link.request() (RNS/Link.py) promises its caller: the response     *)
(* callback once a response is received, or the failed callback when the   *)
(* request fails, never both and neither of them twice.                    *)
(***************************************************************************)
EXTENDS Sequences

VARIABLES
  issued,   \* the request was made
  replied,  \* the handler at the other end has given a response
  outcome   \* the callbacks made to the caller

vars == <<issued, replied, outcome>>

Init == issued = FALSE /\ replied = FALSE /\ outcome = <<>>

Issue == ~issued /\ issued' = TRUE /\ UNCHANGED <<replied, outcome>>

Reply == issued /\ replied' = TRUE /\ UNCHANGED <<issued, outcome>>

Answer ==
  /\ replied /\ outcome = <<>>
  /\ outcome' = <<"response">>
  /\ UNCHANGED <<issued, replied>>

Fail ==
  /\ issued /\ outcome = <<>>
  /\ outcome' = <<"failed">>
  /\ UNCHANGED <<issued, replied>>

Next == Issue \/ Reply \/ Answer \/ Fail

Spec == Init /\ [][Next]_vars
=============================================================================
