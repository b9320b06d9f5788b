------------------------------ MODULE MCPbufPool ------------------------------
(* Instances of PbufRing, and so of PbufPool, for TLC.                       *)
EXTENDS PbufRing, TLC

\* The buffers are not symmetric: they are linked in an order.
Symmetry == Permutations(Threads)
===============================================================================
