------------------------------ MODULE TimerQueue ------------------------------
(***************************************************************************)
(* src/timer.c: a queue of timers, kept in the heap of src/heap.c, that    *)
(* any thread may add to and delete from while the main thread (tq->thr)   *)
(* sleeps in poll() until the first timer is due.  A thread that changes   *)
(* the first timer raises the queue's signal, which poll() also watches.   *)
(*                                                                         *)
(* A critical section that raises nothing is one step; the check and the   *)
(* write of a raise are steps of their own, since the main thread lowers   *)
(* the signal without the lock.  The key of a timer in the heap is its     *)
(* t->timeout.  The poll loop is the client's; it calls the queue's        *)
(* functions in one of the ways they are meant for.                        *)
(***************************************************************************)
EXTENDS Integers, Sequences, FiniteSets

CONSTANTS
  Main, Workers,       \* the thread that made the queue, the other threads
  Timers,
  owner,               \* the thread that adds, modifies and deletes each timer
  OpsOf,               \* what it does with it: "add", "mod", "del"
  ExpiriesOf,          \* the values of t->expires it asks for, in microseconds
  Readings,            \* what the clock of a thread may show, in nanoseconds
  Fini,                \* whether the queue is given up
  Loop,                \* the main thread's loop: "timespec", "timeval" or "usec"
  NSEC_PER_SEC, NSEC_PER_USEC,
  ULONG_MAX,           \* the largest unsigned long
  Infinity,            \* no timeout: more nanoseconds than any
  HEAP_DEFAULT_SIZE,
  HEAP_DEFAULT_INCREASE_SIZE,
  QueueBound,          \* bound: no timer is inserted beyond this many entries
  NoThread, NoTimer

Threads == Workers \cup {Main}

ASSUME TimerQueueAssumption ==
  /\ IsFiniteSet(Timers) /\ IsFiniteSet(Workers) /\ Main \notin Workers
  /\ owner \in [Timers -> Threads]
  /\ OpsOf \in [Timers -> SUBSET {"add", "mod", "del"}]
  /\ \A t \in Timers : ExpiriesOf[t] \subseteq Nat
  /\ Readings \subseteq Nat /\ Readings # {} /\ Infinity \in Nat /\ ULONG_MAX \in Nat
  /\ Fini \in BOOLEAN /\ Loop \in {"timespec", "timeval", "usec"}
  /\ NSEC_PER_USEC \in Nat \ {0} /\ NSEC_PER_SEC \in Nat \ {0}
  /\ NSEC_PER_SEC % NSEC_PER_USEC = 0
  /\ \A t \in Timers : \A e \in ExpiriesOf[t] \cup {0}, n \in Readings :
       n + e * NSEC_PER_USEC < Infinity
  /\ ULONG_MAX * NSEC_PER_USEC < Infinity
  /\ HEAP_DEFAULT_SIZE \in Nat /\ HEAP_DEFAULT_INCREASE_SIZE \in Nat \ {0}
  /\ NoThread \notin Threads /\ NoTimer \notin Timers

timespec == INSTANCE TimeOps WITH PER_SEC <- NSEC_PER_SEC

heap_cmp(t1, t2) == timespec!lt(t1, t2)

INSTANCE HeapOps WITH cmp <- heap_cmp

VARIABLES
  heap,       \* tq->queue, and t->timeout of every timer
  expires,    \* t->expires
  clock,      \* what each thread's clock last showed
  lock,       \* the thread that holds tq->lock
  pipe,       \* integers in the pipe of tq->signal
  pc, arg,    \* where each thread is, and the timer it was called with
  ret,        \* where it goes on after the critical section
  was_first,  \* the local of timer_mod
  sleep       \* the nanoseconds for which the main thread polls

times == <<expires, clock>>
vars == <<heap, times, lock, pipe, pc, arg, ret, was_first, sleep>>

Labels == {"idle", "index", "del", "raise", "write", "time", "insert"}

TypeOK ==
  /\ heap \in [map : Seq(Timers), max_size : Nat, key : [Timers -> timespec!Time],
               index : [Timers -> Nat], active : [Timers -> BOOLEAN]]
  /\ expires \in [Timers -> Nat]
  /\ clock \in [Threads -> timespec!Time]
  /\ lock \in Threads \cup {NoThread}
  /\ pipe \in {0, 1}
  /\ pc \in [Threads -> Labels \cup {"next", "lower", "poll", "handle", "gone"}]
  /\ \A w \in Workers : pc[w] \in Labels
  /\ arg \in [Threads -> Timers \cup {NoTimer}]
  /\ ret \in [Threads -> {"idle", "time"}]
  /\ was_first \in [Threads -> BOOLEAN]
  /\ sleep \in 0..Infinity

Goto(p, label) == pc' = [pc EXCEPT ![p] = label]
FrontKey == heap.key[heap_front(heap)]
Zero == [sec |-> 0, frac |-> 0]

Init ==
  /\ heap = heap_init(HEAP_DEFAULT_SIZE, [t \in Timers |-> Zero])
  /\ expires = [t \in Timers |-> 0]
  /\ clock = [p \in Threads |-> Zero]
  /\ lock = NoThread
  /\ pipe = 0
  /\ pc = [p \in Threads |-> "idle"]
  /\ arg = [p \in Threads |-> NoTimer]
  /\ ret = [p \in Threads |-> "idle"]
  /\ was_first = [p \in Threads |-> FALSE]
  /\ sleep = Infinity

Times == {[sec |-> n \div NSEC_PER_SEC, frac |-> n % NSEC_PER_SEC] : n \in Readings}

\* clock_gettime of the CPU time of the calling thread: clocks of different
\* threads have nothing to do with each other.
gettime(p, now) ==
  /\ now \in Times
  /\ ~timespec!lt(now, clock[p])
  /\ clock' = [clock EXCEPT ![p] = now]

-------------------------------------------------------------------------------
(* timer_add, timer_mod and timer_del.                                     *)

\* What the heap may come to hold when the calls under way have ended, and
\* whether timer_mod takes an entry out before it inserts one.
Entries(p) ==
  Len(heap.map) + Cardinality({q \in Threads \ {p} : pc[q] \in Labels \ {"idle"}})
Replaces(t) == heap.active[t] /\ heap.index[t] < Len(heap.map)

\* A thread that is not in a call calls op with a timer of its own.  QueueBound
\* stops only what would insert beyond it.
Call(p, t, op, label) ==
  /\ op \in OpsOf[t] /\ owner[t] = p
  /\ pc[p] = "idle" /\ pc[Main] # "gone"
  /\ op = "del" \/ Entries(p) < QueueBound + (IF Replaces(t) THEN 1 ELSE 0)
  /\ arg' = [arg EXCEPT ![p] = t]
  /\ ret' = [ret EXCEPT ![p] = "idle"]
  /\ Goto(p, label)
  /\ UNCHANGED <<heap, clock, lock, pipe, was_first, sleep>>

\* timer_set_secs: the client sets the time with which it adds a timer.
SetExpires(t) == \E e \in ExpiriesOf[t] : expires' = [expires EXCEPT ![t] = e]

\* The slip of adding a timer that is already scheduled.
timer_add_Again(p, t) == SetExpires(t) /\ Call(p, t, "add", "time")

\* A timer that is scheduled is not added; one that is not goes straight on
\* to the second half of timer_mod.  The field is read without the lock.
timer_add(p, t) == ~heap.active[t] /\ SetExpires(t) /\ Call(p, t, "add", "time")

timer_mod(p, t) ==
  /\ Call(p, t, "mod", IF heap.active[t] THEN "index" ELSE "time")
  /\ UNCHANGED expires

\* The client deletes a timer that it finds scheduled.
timer_del(p, t) ==
  /\ heap.active[t]
  /\ Call(p, t, "del", "del")
  /\ UNCHANGED expires

\* timer_mod reads the index, without the lock, and calls timer_del.
ModIndex(p) ==
  /\ pc[p] = "index"
  /\ was_first' = [was_first EXCEPT ![p] = (heap.index[arg[p]] = 0)]
  /\ ret' = [ret EXCEPT ![p] = "time"]
  /\ Goto(p, "del")
  /\ UNCHANGED <<times, heap, lock, pipe, arg, sleep>>

\* A thread goes on at a label; the locals of a call end with it.
Continue(p, label) ==
  /\ Goto(p, label)
  /\ arg' = IF label = "idle" THEN [arg EXCEPT ![p] = NoTimer] ELSE arg
  /\ was_first' = IF label = "idle" THEN [was_first EXCEPT ![p] = FALSE] ELSE was_first

\* The end of a critical section: with the lock held on to a raise, or out.
Leave(p, raise, to) ==
  /\ lock' = IF raise THEN p ELSE NoThread
  /\ Continue(p, IF raise THEN "raise" ELSE to)

\* The slip of testing for the main thread the wrong way round.
MustRaise_Reversed(p, first) == p = Main /\ first

MustRaise(p, first) == p # Main /\ first

_timer_del(p) ==
  /\ pc[p] = "del" /\ lock = NoThread
  /\ heap' = heap_remove(heap, heap.index[arg[p]])
  /\ Leave(p, MustRaise(p, heap.index[arg[p]] = 0), ret[p])
  /\ UNCHANGED <<times, pipe, ret, sleep>>

\* timer_mod sets t->timeout before it takes the lock.  Only a timer that it
\* found scheduled and deleted gets the new t->expires.  The product is that of
\* integers: a 32-bit long holds t->expires * 1000 up to about two seconds.
ModTime(p) ==
  /\ pc[p] = "time"
  /\ IF ret[p] = "time" THEN SetExpires(arg[p]) ELSE UNCHANGED expires
  /\ \E now \in Times :
       LET timeout == timespec!add_units(now, expires'[arg[p]] * NSEC_PER_USEC)
       IN  gettime(p, now) /\ heap' = [heap EXCEPT !.key = [@ EXCEPT ![arg[p]] = timeout]]
  /\ Goto(p, "insert")
  /\ UNCHANGED <<lock, pipe, arg, ret, was_first, sleep>>

\* The slip of && for ||.
Inserted_Both(p, h) == h # heap /\ MustRaise(p, h.index[arg[p]] = 0 /\ was_first[p])

\* Whether the insertion that made the queue h has to raise the signal.
Inserted(p, h) == h # heap /\ MustRaise(p, h.index[arg[p]] = 0 \/ was_first[p])

ModInsert(p) ==
  /\ pc[p] = "insert" /\ lock = NoThread
  /\ heap' \in heap_insert(heap, arg[p])
  /\ ret' = [ret EXCEPT ![p] = "idle"]
  /\ Leave(p, Inserted(p, heap'), "idle")
  /\ UNCHANGED <<times, pipe, sleep>>

\* The slip of raising without a look at the pipe.
RaiseCheck_Blind(p) ==
  pc[p] = "raise" /\ Goto(p, "write") /\ UNCHANGED <<times, heap, lock, pipe, arg, ret, was_first, sleep>>

\* timer_queue_signal_raise: signal_raise_val polls, and writes when it finds
\* the pipe empty.  The unlock that follows is part of the last step.
RaiseCheck(p) ==
  /\ pc[p] = "raise"
  /\ IF pipe > 0 THEN lock' = NoThread /\ Continue(p, ret[p])
                 ELSE Continue(p, "write") /\ UNCHANGED lock
  /\ UNCHANGED <<times, heap, pipe, ret, sleep>>

RaiseWrite(p) ==
  /\ pc[p] = "write"
  /\ pipe' = pipe + 1
  /\ lock' = NoThread
  /\ Continue(p, ret[p])
  /\ UNCHANGED <<times, heap, ret, sleep>>

-------------------------------------------------------------------------------
(* The main thread.                                                        *)

\* timer_next_timeout lowers the signal itself, last; a client of the other two
\* lowers it before it calls them.
LowersFirst == Loop # "usec"

\* timer_queue_signal_lower.  The raises hold the lock, so that the pipe holds
\* at most one integer and the reads of signal_clear_val are one step.  The
\* result is left out: signal_clear_val returns 0 whatever it has read, which
\* is always reported as TIMER_SIGNAL_NONE.
SignalLower ==
  /\ pc[Main] = IF LowersFirst THEN "idle" ELSE "lower"
  /\ pipe' = 0
  /\ Goto(Main, IF LowersFirst THEN "next" ELSE "poll")
  /\ UNCHANGED <<times, heap, lock, arg, ret, was_first, sleep>>

\* The time to the first timer in the forms it is computed in.  One that is
\* overdue is a huge number as an unsigned long, and 0 as a struct timespec.
timer_next_timeout(later) ==
  (later.sec * (NSEC_PER_SEC \div NSEC_PER_USEC) + later.frac \div NSEC_PER_USEC)
    % (ULONG_MAX + 1)

timer_next_timeout_timespec(later) == IF later.sec < 0 THEN Zero ELSE later

timer_next_timeout_timeval(ts) == [sec |-> ts.sec, usec |-> ts.frac \div NSEC_PER_USEC]

\* The nanoseconds for which the client then polls.
Nanoseconds(later) ==
  LET ts == timer_next_timeout_timespec(later)
      tv == timer_next_timeout_timeval(ts)
  IN  CASE Loop = "usec"     -> timer_next_timeout(later) * NSEC_PER_USEC
        [] Loop = "timespec" -> timespec!Units(ts)
        [] Loop = "timeval"  -> tv.sec * NSEC_PER_SEC + tv.usec * NSEC_PER_USEC

\* The computation of the time-out, under the lock.
NextTimeout ==
  /\ pc[Main] = IF LowersFirst THEN "next" ELSE "idle"
  /\ lock = NoThread
  /\ \/ heap_empty(heap) /\ sleep' = Infinity /\ UNCHANGED clock
     \/ /\ ~heap_empty(heap)
        /\ \E now \in Times :
             gettime(Main, now) /\ sleep' = Nanoseconds(timespec!sub(FrontKey, now))
  /\ Goto(Main, IF LowersFirst THEN "poll" ELSE "lower")
  /\ UNCHANGED <<heap, expires, lock, pipe, arg, ret, was_first>>

PollSignalled ==
  /\ pc[Main] = "poll" /\ pipe > 0
  /\ sleep' = Infinity
  /\ Goto(Main, "idle")
  /\ UNCHANGED <<times, heap, lock, pipe, arg, ret, was_first>>

\* poll() times out, and the client calls timer_handle_timeout.
PollExpires ==
  /\ pc[Main] = "poll" /\ pipe = 0 /\ sleep # Infinity
  /\ sleep' = Infinity
  /\ Goto(Main, "handle")
  /\ UNCHANGED <<times, heap, lock, pipe, arg, ret, was_first>>

\* The first timer is removed, which need no longer be the one that poll() was
\* waiting for.  What the callback does to its timer the main thread does next,
\* as a call of its own.
timer_handle_timeout ==
  /\ pc[Main] = "handle" /\ lock = NoThread
  /\ heap' = heap_remove(heap, 0)
  /\ Goto(Main, "idle")
  /\ UNCHANGED <<times, lock, pipe, arg, ret, was_first, sleep>>

\* The client gives up the queue when no other thread uses it: every timer is
\* removed and destroyed.
timer_queue_fini ==
  /\ Fini
  /\ pc = [p \in Threads |-> "idle"]
  /\ heap' = [heap EXCEPT !.map = <<>>,
                          !.active = [t \in Timers |-> FALSE],
                          !.index = [t \in Timers |-> 0]]
  /\ pipe' = 0
  /\ Goto(Main, "gone")
  /\ UNCHANGED <<times, lock, arg, ret, was_first, sleep>>

-------------------------------------------------------------------------------

\* A call that a thread has begun.
Step(p) ==
  ModIndex(p) \/ _timer_del(p) \/ ModTime(p) \/ ModInsert(p) \/ RaiseCheck(p) \/ RaiseWrite(p)

MainLoop ==
  SignalLower \/ NextTimeout \/ PollSignalled \/ PollExpires \/ timer_handle_timeout

Next ==
  \/ \E p \in Threads, t \in Timers : timer_add(p, t) \/ timer_mod(p, t) \/ timer_del(p, t)
  \/ \E p \in Threads : Step(p)
  \/ MainLoop
  \/ timer_queue_fini

Spec == Init /\ [][Next]_vars

\* A thread goes on with the call it is in, unless others take the lock before
\* it for ever, and the main thread goes round its loop; nobody has to call.
Fairness ==
  /\ \A p \in Threads : WF_vars(Step(p))
  /\ WF_vars(MainLoop)

FairSpec == Spec /\ Fairness

-------------------------------------------------------------------------------
(* Properties.                                                             *)

\* The timers that nobody modifies.
Plain == {t \in Timers : "mod" \notin OpsOf[t]}

\* A timer that is added and deleted but never modified is in the queue once
\* when it is marked as scheduled and not at all otherwise: through growth of the
\* heap and its failure, expiry, and the removals at a stale index by which the
\* timer_mod of another timer may take it out in that one's stead.  A timer has
\* one owner, so that nothing changes it between its look at the timer and the
\* lock.  Of timers that are modified it does not hold: they may be there twice.
QueueIsActive ==
  \A t \in Plain :
    Cardinality({j \in DOMAIN heap.map : heap.map[j] = t}) = IF heap.active[t] THEN 1 ELSE 0

\* The main thread does not sleep past a first timer that nobody modifies: when
\* another thread makes an earlier timer the first one, poll() is woken, or a
\* thread that still has to write to the pipe is on its way to wake it.  Of a
\* first timer that is modified it does not hold: the timer that takes the place
\* of one that has fired keeps its old index (heap.c:143), and a timer_mod to an
\* earlier time then neither finds it first nor takes it out, and raises nothing.
NoMissedReschedule ==
  (pc[Main] = "poll" /\ ~heap_empty(heap) /\ heap_front(heap) \in Plain) =>
     \/ sleep = 0
     \/ timespec!Units(clock[Main]) + sleep <= timespec!Units(FrontKey)
     \/ pipe > 0
     \/ \E w \in Workers : pc[w] \in {"raise", "write"}

\* The main thread does not sleep for ever while a timer is scheduled.
MainWakes ==
  (pc[Main] = "poll" /\ ~heap_empty(heap)) ~> (pc[Main] # "poll" \/ heap_empty(heap))

\* A timer that is scheduled expires.
EveryTimerFires == \A t \in Timers : heap.active[t] ~> ~heap.active[t]

\* The arithmetic of time.h on the times that occur here is exact: borrows and
\* carries of timespec_sub and timespec_add_nsec give normalised times, of
\* which timespec_lt, and so the order of the queue, is the order in time.
TimesExact ==
  \A t \in Timers, p \in Threads :
    timespec!Exact(heap.key[t], clock[p], -expires[t] * NSEC_PER_USEC)
===============================================================================
