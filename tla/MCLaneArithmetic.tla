-------------------------- MODULE MCLaneArithmetic --------------------------
(* Three-bit data, two array rows, three K blocks, an eight-bit accumulator *)
EXTENDS LaneArithmetic

MCPow2 == [i \in 0..MaxShift |-> 2^i]
=============================================================================
