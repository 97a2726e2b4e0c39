------------------------------ MODULE MCTunnels ------------------------------
(***************************************************************************)
(* Two announces and one mishap; on the other interface the destination    *)
(* is nearer than through the client, or farther away.                     *)
(***************************************************************************)
EXTENDS Tunnels
=============================================================================
