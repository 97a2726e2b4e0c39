------------------------------ MODULE MCRatchets ------------------------------
(***************************************************************************)
(* Two threads that announce, which are interchangeable, and one that      *)
(* receives.                                                               *)
(***************************************************************************)
EXTENDS Ratchets, TLC

CONSTANTS a1, a2, r1

Alike == Permutations({a1, a2})
=============================================================================
