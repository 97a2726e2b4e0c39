----------------------------- MODULE MCResource -----------------------------
(***************************************************************************)
(* Instances of Resource for TLC.                                          *)
(***************************************************************************)
EXTENDS Resource

OneLongOrTwoShort == {<<7>>, <<1, 1>>}
Mishaps == {"REJECT", "STORE", "CANCEL", "CLOSE"}
=============================================================================
