------------------------------ MODULE MCPaths -------------------------------
EXTENDS Paths

CONSTANTS h, a, b, c

\* Two nodes that hear the destination's node and each other.
Ring == {{h, a}, {h, b}, {a, b}}

\* A line of three.
Line == {{h, a}, {a, b}, {b, c}}

\* On the link between a and b, a is roaming and b has little bandwidth, and
\* finds paths for others.
RingMode == [x \in Nodes \X Segments |->
               CASE x = <<a, {a, b}>> -> "ROAMING" [] x = <<b, {a, b}>> -> "GATEWAY" [] OTHER -> "FULL"]
RingCapped == {<<b, {a, b}>>}

\* All find paths for others.
LineMode == [x \in Nodes \X Segments |-> "GATEWAY"]
=============================================================================
