------------------------------- MODULE MCEvents -------------------------------
(* Events for TLC: two descriptors, one watched one-shot, one level-triggered.    *)
EXTENDS Events, TLC

CONSTANTS f1, f2, a, b

TwoFds == {f1, f2}
TwoObjects == {a, b}
OneshotAndLevel ==
  (f1 :> {{"IN", "OUT", "RDHUP", "ONESHOT"}, {"OUT", "RDHUP", "ONESHOT"}})
    @@ (f2 :> {{"IN", "OUT"}})
===============================================================================
