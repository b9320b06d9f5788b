------------------------------ MODULE MCSignal ------------------------------
(* Instances of Signal for TLC.                                            *)
EXTENDS Signal
=============================================================================
