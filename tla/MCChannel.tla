----------------------------- MODULE MCChannel -----------------------------
(***************************************************************************)
(* Small instances of Channel for TLC.  The window constants are scaled    *)
(* down with the number of messages.                                       *)
(***************************************************************************)
EXTENDS Channel

MixedRtts == {"FAST", "MEDIUM", "VERY_SLOW"}
SlowRtts == {"SLOW"}
Interfaceless == {"UNSENT"}
SenderFaults == {"OVERSIZE", "PREEMPT", "CULL", "STALE", "UNSENT"}
=============================================================================
