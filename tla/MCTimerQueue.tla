----------------------------- MODULE MCTimerQueue -----------------------------
(* Instances of TimerQueue for TLC.                                        *)
EXTENDS TimerQueue, TLC

CONSTANTS w1, w2, t1, t2, t3

\* A timer that a worker adds and deletes, one that another modifies, and one
\* of the main thread.
ThreeOwners == (t1 :> w1) @@ (t2 :> w2) @@ (t3 :> Main)
ThreeUses == (t1 :> {"add", "del"}) @@ (t2 :> {"mod", "del"}) @@ (t3 :> {"add"})

\* A worker with one timer, and one that belongs to the main thread.
WorkerAndMain == [t \in Timers |-> IF t = t1 THEN w1 ELSE Main]

AddOnly == [t \in Timers |-> {"add"}]

OneExpiry == [t \in Timers |-> {1}]

TwoExpiries == [t \in Timers |-> {1, 2}]

\* The main thread's timer is always set to a later instant.
MainLater == [t \in Timers |-> IF t = t1 THEN {1} ELSE {2}]
===============================================================================
