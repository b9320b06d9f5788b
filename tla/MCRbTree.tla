-------------------------------- MODULE MCRbTree --------------------------------
(* Instances of RbTree for TLC: integer keys of one length, in their order.    *)
EXTENDS RbTree

MemCmp == [p \in Keys \X Keys |-> p[1] - p[2]]
=================================================================================
