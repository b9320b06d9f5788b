-------------------------------- MODULE MCPbuf --------------------------------
(* Instances of Pbuf for TLC: a small unsigned and a larger size_t, so that  *)
(* wrapping and truncation differ as they do for 32 and 64 bits.             *)
EXTENDS Pbuf

AllLens == 0..(SMod - 1)
===============================================================================
