----------------------------- MODULE MCHashTable -----------------------------
(* Instances of HashTable for TLC: default_hashfn on integer keys.          *)
EXTENDS HashTable, Bitwise

IdentityHash == [k \in Keys |-> k]
BitAnd(a, b) == a & b
==============================================================================
