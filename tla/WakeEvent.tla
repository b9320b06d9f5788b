------------------------------ MODULE WakeEvent ------------------------------
(***************************************************************************)
(* What a signal (include/ckit/signal.h: "IPC signals for waking/signaling *)
(* between threads") promises to its users, without the pipe: wake-ups     *)
(* that raises add, each reported by at most one wait, and of which one at *)
(* least stays owed until a wait reports it or somebody asks for it to be  *)
(* cleared.  A raise that finds a wake-up owed need not add one, and a     *)
(* wait may take several for one.  A wait that has given up, by a time-out *)
(* or an interruption, clears the event on its way out.  Once the event is *)
(* being destroyed a wait ends with any result, a raise or not.            *)
(***************************************************************************)
EXTENDS Integers

CONSTANTS Raisers, Waiters, Clearers

VARIABLES open,     \* the event has not been destroyed
          owed,     \* wake-ups that have been raised and not been reported
          busy,     \* the threads that are inside a call
          leaving,  \* the waiters that have given up and are on their way out
          woken     \* the waiters whose wait returns 1

evars == <<open, owed, busy, leaving, woken>>

Threads == Raisers \cup Waiters \cup Clearers

Init ==
  /\ open = TRUE
  /\ owed = 0
  /\ busy = {}
  /\ leaving = {}
  /\ woken = {}

Enter(t) ==
  /\ t \notin busy \cup woken
  /\ busy' = busy \cup {t}
  /\ UNCHANGED <<open, owed, leaving, woken>>

\* A raise that completes adds a wake-up, unless the event is gone.
Raise(r) ==
  /\ r \in busy
  /\ busy' = busy \ {r}
  /\ owed' = IF open THEN owed + 1 ELSE owed
  /\ UNCHANGED <<open, leaving, woken>>

\* A wait reports a wake-up, which is then no longer owed.
Wake(w) ==
  /\ w \in busy \ leaving
  /\ owed > 0
  /\ busy' = busy \ {w}
  /\ owed' = owed - 1
  /\ woken' = woken \cup {w}
  /\ UNCHANGED <<open, leaving>>

\* A wait takes two wake-ups for one; it never takes the last.
Coalesce(w) ==
  /\ w \in busy \ leaving
  /\ owed > 1
  /\ owed' = owed - 1
  /\ UNCHANGED <<open, busy, leaving, woken>>

\* A wait times out, is interrupted, or finds the event destroyed.
GiveUp(w) ==
  /\ w \in busy \ leaving
  /\ leaving' = leaving \cup {w}
  /\ UNCHANGED <<open, owed, busy, woken>>

\* A wait that has given up ends without a wake-up.
Leave(w) ==
  /\ w \in leaving
  /\ busy' = busy \ {w}
  /\ leaving' = leaving \ {w}
  /\ UNCHANGED <<open, owed, woken>>

\* A wait on a destroyed event ends, with either result.
Release(w) ==
  /\ w \in busy /\ ~open
  /\ busy' = busy \ {w}
  /\ leaving' = leaving \ {w}
  /\ woken' \in {woken, woken \cup {w}}
  /\ UNCHANGED <<open, owed>>

\* A wait that has reported a wake-up is over.
Return(w) ==
  /\ w \in woken
  /\ woken' = woken \ {w}
  /\ UNCHANGED <<open, owed, busy, leaving>>

\* Clearing withdraws wake-ups, one by one.
Withdraw(t) ==
  /\ t \in busy
  /\ owed > 0
  /\ owed' = owed - 1
  /\ UNCHANGED <<open, busy, leaving, woken>>

Cleared(c) ==
  /\ c \in busy
  /\ busy' = busy \ {c}
  /\ UNCHANGED <<open, owed, leaving, woken>>

Destroy ==
  /\ open
  /\ open' = FALSE
  /\ owed' = 0
  /\ UNCHANGED <<busy, leaving, woken>>

Next ==
  \/ \E t \in Threads : Enter(t)
  \/ \E r \in Raisers : Raise(r)
  \/ \E w \in Waiters : Wake(w) \/ Coalesce(w) \/ GiveUp(w)
  \/ \E w \in Waiters : Leave(w) \/ Release(w) \/ Return(w)
  \/ \E t \in Clearers \cup leaving : Withdraw(t)
  \/ \E c \in Clearers : Cleared(c)
  \/ Destroy

EventSpec == Init /\ [][Next]_evars
==============================================================================
