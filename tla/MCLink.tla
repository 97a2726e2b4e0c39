------------------------------- MODULE MCLink -------------------------------
(***************************************************************************)
(* The instance of Link for TLC: proofs of a wrong mode or signature.       *)
(***************************************************************************)
EXTENDS Link

BadProofs == {"BAD_MODE", "BAD_SIGNATURE"}
=============================================================================
