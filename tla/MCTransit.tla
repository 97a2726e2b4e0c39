------------------------------ MODULE MCTransit ------------------------------
(***************************************************************************)
(* Two relays between the ends.  The initiator and both relays share a     *)
(* radio, on which the initiator and the second relay do not hear each     *)
(* other, and a slow one, on which the relays hear each other and the      *)
(* initiator hears the second; a cable connects that and the destination.   *)
(***************************************************************************)
EXTENDS Transit

CONSTANTS i, d, r1, r2

BothWays(pairs) == pairs \cup {<<p[2], p[1]>> : p \in pairs}

RadioAndCables ==
  [s \in {"radio", "slow", "cable"} |->
     CASE s = "radio" -> BothWays({<<i, r1>>, <<r1, r2>>})
       [] s = "slow"  -> BothWays({<<r1, r2>>}) \cup {<<r2, i>>}
       [] s = "cable" -> BothWays({<<r2, d>>})]

MediaMtu == [s \in {"radio", "slow", "cable"} |->
               CASE s = "radio" -> 9 [] s = "slow" -> 6 [] s = "cable" -> 8]

To(via, hops, on) == [via |-> via, hops |-> hops, on |-> on]

\* Also paths that are not up to date: with a wrong number of hops, or back.
SomeRoutes == [n \in Nodes |->
  CASE n = i  -> {To(r1, 3, "radio")}
    [] n = r1 -> {To(r2, 2, "radio"), To(r2, 2, "slow")}
    [] n = r2 -> {To(d, 1, "cable"), To(r1, 3, "slow")}
    [] n = d  -> {}]

SomeFaults == {<<"CULL_LINK", r1>>, <<"CULL_REVERSE", r2>>, <<"ROTATE", i>>, <<"ROTATE", r1>>}
=============================================================================
