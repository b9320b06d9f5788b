-------------------------------- MODULE Signal --------------------------------
(***************************************************************************)
(* src/signal.c: a pipe-based signal shared by the threads of a process.   *)
(*                                                                         *)
(* Every system call is one step, so the steps of raises, waits and clears *)
(* interleave as they do in the program.  The values written are           *)
(* abstracted: pipe is the number of integers the pipe holds (a write and  *)
(* a read of sizeof(int) bytes are atomic).                                *)
(***************************************************************************)
EXTENDS Naturals, Integers, FiniteSets

CONSTANTS
  Raisers,    \* threads that call signal_raise_val / signal_raise
  Waiters,    \* threads that call signal_wait_val / signal_wait
  Clearers,   \* threads that call signal_clear_val / signal_clear
  Timeouts,   \* the timeout arguments waiters use: "finite", "infinite" (-1)
  Interrupts  \* whether poll() may fail with EINTR

ASSUME SignalAssumption ==
  /\ IsFiniteSet(Raisers) /\ IsFiniteSet(Waiters)
  /\ Raisers \cap Waiters = {}
  /\ Raisers \cap Clearers = {}
  /\ Waiters \cap Clearers = {}
  /\ Timeouts \subseteq {"finite", "infinite"}
  /\ Interrupts \in BOOLEAN

VARIABLES
  fds,      \* which of the ends fd[0] (read) and fd[1] (write) are open
  killed,   \* SIGPIPE has ended the process
  pipe,     \* integers buffered in the pipe
  waiting,  \* struct signal: waiting
  pc,       \* where each thread is
  timeout,  \* the timeout argument of each waiter's call
  ret       \* the local ret of each waiter's call

vars == <<fds, killed, pipe, waiting, pc, timeout, ret>>

Threads == Raisers \cup Waiters \cup Clearers

Inside == {"read", "poll", "clear", "dec"}

TypeOK ==
  /\ fds \in {{0, 1}, {1}, {}}
  /\ killed \in BOOLEAN
  /\ pipe \in Nat
  /\ waiting \in Nat
  /\ pc \in [Threads -> {"idle", "write"} \cup Inside]
  /\ \A r \in Raisers : pc[r] \in {"idle", "write"}
  /\ \A w \in Waiters : pc[w] \in {"idle"} \cup Inside
  /\ \A c \in Clearers : pc[c] \in {"idle", "clear"}
  /\ timeout \in [Waiters -> {"finite", "infinite"}]
  /\ ret \in [Waiters -> {-1, 0, 1}]

\* A thread of a process that has been killed takes no step.
At(t, label) == ~killed /\ pc[t] = label

Goto(t, label) == pc' = [pc EXCEPT ![t] = label]

\* signal_init: the pipe is empty, its read end non-blocking, nobody waits.
Init ==
  /\ fds = {0, 1}
  /\ killed = FALSE
  /\ pipe = 0
  /\ waiting = 0
  /\ pc = [t \in Threads |-> "idle"]
  /\ timeout = [w \in Waiters |-> "infinite"]
  /\ ret = [w \in Waiters |-> 0]

\* signal_destroy closes the read end, and what the pipe holds is lost, ...
CloseRead ==
  /\ ~killed /\ fds = {0, 1}
  /\ fds' = {1}
  /\ pipe' = 0
  /\ UNCHANGED <<killed, waiting, pc, timeout, ret>>

\* The slip of closing the same end twice.
CloseWrite_Twice ==
  /\ ~killed /\ fds = {1} /\ fds' = fds \ {0}
  /\ UNCHANGED <<killed, pipe, waiting, pc, timeout, ret>>

\* ... and then the write end.
CloseWrite ==
  /\ ~killed /\ fds = {1}
  /\ fds' = {}
  /\ UNCHANGED <<killed, pipe, waiting, pc, timeout, ret>>

\* poll() with POLLIN returns a positive count when the pipe holds data, and
\* at once (POLLNVAL) when the read end is closed.  A poll() that blocks while
\* the read end is closed is certain to return when a raiser has written or the
\* write end is closed as well (POLLHUP).
Pollable == pipe > 0 \/ 0 \notin fds

\* The slip of a test that never sees the signal raised.
signal_is_raised_Blind == FALSE

signal_is_raised == Pollable

-------------------------------------------------------------------------------
(* signal_raise_val: poll the read end, then write to the other.           *)

RaiseCheck(r) ==
  /\ At(r, "idle")
  /\ ~signal_is_raised
  /\ Goto(r, "write")
  /\ UNCHANGED <<fds, killed, pipe, waiting, timeout, ret>>

\* Between the two closes write() fails with EPIPE, and SIGPIPE may end the
\* process (whether it does is up to the program); after both, with EBADF.
RaiseWrite(r) ==
  /\ At(r, "write")
  /\ pipe' = IF 0 \in fds THEN pipe + 1 ELSE pipe
  /\ killed' \in IF fds = {1} THEN BOOLEAN ELSE {FALSE}
  /\ Goto(r, "idle")
  /\ UNCHANGED <<fds, waiting, timeout, ret>>

-------------------------------------------------------------------------------
(* signal_wait_val.                                                        *)

\* The slip of draining the pipe before the first read.
WaitEnter_Draining(w) ==
  /\ At(w, "idle") /\ Goto(w, "read") /\ waiting' = waiting + 1 /\ pipe' = 0
  /\ ret' = [ret EXCEPT ![w] = 0] /\ UNCHANGED <<fds, killed, timeout>>

WaitEnter(w) ==
  /\ At(w, "idle")
  /\ waiting' = waiting + 1
  /\ \E tmo \in Timeouts : timeout' = [timeout EXCEPT ![w] = tmo]
  /\ ret' = [ret EXCEPT ![w] = 0]
  /\ Goto(w, "read")
  /\ UNCHANGED <<fds, killed, pipe>>

\* read() of the non-blocking end: an integer, EWOULDBLOCK, or EBADF, which
\* leaves the loop with ret as the last poll() set it.
WaitRead(w) ==
  /\ At(w, "read")
  /\ IF 0 \in fds /\ pipe > 0
     THEN pipe' = pipe - 1 /\ ret' = [ret EXCEPT ![w] = 1] /\ Goto(w, "clear")
     ELSE Goto(w, IF 0 \in fds THEN "poll" ELSE "clear") /\ UNCHANGED <<pipe, ret>>
  /\ UNCHANGED <<fds, killed, waiting, timeout>>

\* The slip of taking poll()'s word for it, without reading again.
PollReady_Trusting(w) ==
  /\ At(w, "poll") /\ Pollable /\ Goto(w, "clear")
  /\ ret' = [ret EXCEPT ![w] = 1] /\ UNCHANGED <<fds, killed, pipe, waiting, timeout>>

PollReady(w) ==
  /\ At(w, "poll")
  /\ Pollable
  /\ ret' = [ret EXCEPT ![w] = 1]
  /\ Goto(w, "read")
  /\ UNCHANGED <<fds, killed, pipe, waiting, timeout>>

\* poll() returns 0 after the timeout or -1 when a signal handler ran; one that
\* blocks while the read end is closed may do so as long as the other is open.
PollFails(w) ==
  /\ At(w, "poll")
  /\ pipe = 0 /\ fds # {}
  /\ \/ timeout[w] = "finite" /\ ret' = [ret EXCEPT ![w] = 0]
     \/ Interrupts /\ ret' = [ret EXCEPT ![w] = -1]
  /\ Goto(w, "clear")
  /\ UNCHANGED <<fds, killed, pipe, waiting, timeout>>

\* The slip of forgetting the decrement when the wait was in vain.
WaitDec_OnlyWoken(w) ==
  /\ At(w, "dec") /\ Goto(w, "idle")
  /\ waiting' = waiting - (IF ret[w] = 1 THEN 1 ELSE 0)
  /\ UNCHANGED <<fds, killed, pipe, timeout, ret>>

\* The wait returns, and its locals are gone.
WaitDec(w) ==
  /\ At(w, "dec")
  /\ waiting' = waiting - 1
  /\ timeout' = [timeout EXCEPT ![w] = "infinite"]
  /\ ret' = [ret EXCEPT ![w] = 0]
  /\ Goto(w, "idle")
  /\ UNCHANGED <<fds, killed, pipe>>

-------------------------------------------------------------------------------
(* signal_clear_val: read until read() fails.  A wait ends with one.       *)

ClearEnter(c) ==
  /\ At(c, "idle")
  /\ Goto(c, "clear")
  /\ UNCHANGED <<fds, killed, pipe, waiting, timeout, ret>>

\* The slip of a clear that leaves through the exit of a wait.
AfterClear_Shared(t) == "dec"

AfterClear(t) == IF t \in Waiters THEN "dec" ELSE "idle"

ClearRead(t) ==
  /\ At(t, "clear")
  /\ IF 0 \in fds /\ pipe > 0
     THEN pipe' = pipe - 1 /\ UNCHANGED pc
     ELSE Goto(t, AfterClear(t)) /\ UNCHANGED pipe
  /\ UNCHANGED <<fds, killed, waiting, timeout, ret>>

-------------------------------------------------------------------------------

Raise(r) == RaiseCheck(r) \/ RaiseWrite(r)

Wait(w) ==
  WaitEnter(w) \/ WaitRead(w) \/ PollReady(w) \/ PollFails(w) \/ ClearRead(w) \/ WaitDec(w)

Next ==
  \/ \E r \in Raisers : Raise(r)
  \/ \E w \in Waiters : Wait(w)
  \/ \E c \in Clearers : ClearEnter(c) \/ ClearRead(c)
  \/ CloseRead \/ CloseWrite

Spec == Init /\ [][Next]_vars

\* A thread that is running keeps running: a raiser that has decided to write
\* writes, a waiter performs its next system call and calls again when it has
\* returned, a time-out elapses, and signal_destroy goes on to its second close.
\* Nobody has to raise, clear or destroy, and a poll() without a time-out need
\* be neither interrupted nor woken by the close of the read end alone.
GoesOn(w) ==
  \/ WaitEnter(w) \/ WaitRead(w) \/ ClearRead(w) \/ WaitDec(w)
  \/ (pipe > 0 \/ fds = {}) /\ PollReady(w)
  \/ timeout[w] = "finite" /\ PollFails(w)

Fairness ==
  /\ \A r \in Raisers : WF_vars(RaiseWrite(r))
  /\ \A w \in Waiters : WF_vars(GoesOn(w))
  /\ WF_vars(CloseWrite)

FairSpec == Spec /\ Fairness

-------------------------------------------------------------------------------
(* Properties.                                                             *)

\* The integers in the pipe and the writes still to come are never more than
\* the raisers: is_raised and write are two steps, yet raisers that race past
\* the check cannot fill the pipe and block in write() (signal_raise_val).
PipeBounded ==
  pipe + Cardinality({r \in Raisers : pc[r] = "write"}) <= Cardinality(Raisers)

\* signal_num_waiting is the number of threads inside signal_wait_val, whatever
\* way they leave it: woken, timed out, interrupted or closed under their feet.
WaitingCounts == waiting = Cardinality({w \in Waiters : pc[w] \in Inside})

\* The waiters that have taken an integer and will return 1, and those that
\* have given up, whose wait ends with a clear all the same.
Told == {w \in Waiters : pc[w] = "clear" /\ ret[w] = 1}
GivenUp == {w \in Waiters : pc[w] = "clear" /\ ret[w] # 1}

\* The waits whose result is 1.
Returning == {w \in Waiters : pc[w] = "dec" /\ ret[w] = 1}

Event == INSTANCE WakeEvent WITH
  open <- 0 \in fds,
  owed <- IF 0 \in fds THEN pipe + Cardinality(Told) ELSE 0,
  busy <- {t \in Threads : pc[t] \in {"write", "read", "poll", "clear"}},
  leaving <- GivenUp,
  woken <- Returning

\* The pipe implements a wake-up event.  Until signal_destroy no more waits
\* return 1 than raises have completed, though several waiters may see one
\* poll() succeed; while a raise is owed to somebody the waits that drain the
\* pipe leave one wake-up, until a wait returns 1 or somebody calls
\* signal_clear; only a wait that has timed out or was interrupted may drain
\* the last one.  Once the read end is closed nothing is owed, and what a wait
\* returns is not promised: one that poll() has let go returns 1 after EBADF.
ImplementsEvent == Event!EventSpec

Quiet == \A r \in Raisers : pc[r] = "idle"
Woken == Returning # {}

\* Once the raisers are quiet, a signal that is raised makes some signal_wait
\* return 1, unless it is destroyed or a thread that has given up or was asked
\* to clear it drains it: no raise is lost between the read, the poll and the
\* final clear of the waiters that go on waiting.
RaiseWakes ==
  <>[]Quiet =>
    (pipe > 0 ~> (0 \notin fds \/ Woken \/ GivenUp # {} \/ \E c \in Clearers : pc[c] = "clear"))

\* "Pipe-based IPC signals for waking/signaling between threads": a signal
\* that is raised wakes a thread that waits, whatever time-out it waits with,
\* when nobody clears or destroys it (signal.h, signal_wait_val).
EveryRaiseWakes == <>[]Quiet => (pipe > 0 ~> (0 \notin fds \/ Woken))

\* Destroying the signal releases every thread inside signal_wait_val, those
\* that block in poll() without a timeout included, unless a raiser that was
\* about to write has the process killed between the two closes.
DestroyReleases ==
  \A w \in Waiters : (0 \notin fds /\ pc[w] # "idle") ~> (pc[w] = "idle" \/ killed)
===============================================================================
