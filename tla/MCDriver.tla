------------------------------ MODULE MCDriver ------------------------------
(***************************************************************************)
(* Four threads beside the constructor: two readers and two loops that     *)
(* reconnect, which is what two threads that meet can lead to.             *)
(***************************************************************************)
EXTENDS Driver

CONSTANTS t1, t2, t3, t4
=============================================================================
