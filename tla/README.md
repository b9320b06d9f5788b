# A TLA+ model of libckit

libckit is a small C library of utilities for multi-threaded programs: pipe-based
signals, a hash table with reference-counted elements, a pool of packet buffers,
a timer queue on top of a binary heap, a red-black tree, event and logging layers.
This directory holds TLA+ modules for the parts of it that keep state, TLC
configurations that check them on small instances, and TLAPS proofs of the most
important invariants for all instances. `PROJECT.json` maps every definition to
the lines of C it stands for and lists the runs, the mutants, the findings, the
hazards and the theorems.

    tlc -workers 2 -config HashTable_all.cfg MCHashTable    # a run
    tlapm HashTableProofs.tla                               # the proofs of a module

## The system

| component | state | operations | used by |
|---|---|---|---|
| signal (`src/signal.c`) | a pipe, the number of waiting threads | raise, wait (with a time-out), clear, is_raised, destroy | timer queue, clients |
| hash table (`src/hashtable.c`) | slots with a chain, a count and a rwlock; elements with key, hash and refcount | hash, unhash, lookup, hold, put, foreach (write- and read-locked), fini | clients |
| packet buffer pool (`src/pbuf.c`) | free list and use list under one mutex; a refcount per buffer | alloc, hold, free, copy, cleanup | clients |
| packet buffer layout (`src/pbuf.c`, `pbuf.h`) | data, tail, end, len, header offsets | reserve, push, pull, put, trim, reset_*_header, copy | clients |
| heap (`src/heap.c`) | an array of items, each with its index and an active flag | insert (may grow the array), remove at an index, front | timer queue |
| timer queue (`src/timer.c`) | a heap, a mutex, a signal, the main thread | add, mod, del, next_timeout in three forms, handle_timeout, fini | clients |
| red-black tree (`src/rbtree.c`) | nodes with links and colours | insert, print in order, destroy | clients |
| list (`list.h`) | the links of its nodes | add at either end, delete, move, foreach | hash table, pool |
| time (`time.h`) | none | normalise, add, subtract, compare timespecs and timevals | timer queue, events |
| events (`src/event_epoll.c`, `src/event_kqueue.c`) | the kernel's registrations | ctl (add, mod, del), wait | clients |
| debug and log (`src/debug.c`, `src/log.c`) | streams and levels, the log of the LOG_ macros | open, init, close, set level, set default, print | all of the above |
| hashes (`hash.h`), atomics (`atomic.h`) | none of their own | macros and inline functions | all of the above |

How they interact. The timer queue calls the heap with its mutex held and raises
its signal when a thread other than the main one changes the first timer; the main
thread's poll() watches the read end of that signal and lowers it when it computes
its next time-out. The hash table takes the table's reference through the same
hold and put that clients call, and frees through the client's freefn. The pool
moves buffers between its lists; a buffer's count is changed outside the mutex.
Everything else is called by clients directly.

What is hard, and what makes each part correct:

* signal - the test and the write of a raise, and the read, poll, clear and count
  of a wait, are separate system calls of threads that run at the same time. A
  raise must wake somebody, a wait must not report what was not raised, the pipe
  must not fill up, and destroying the signal, which takes two closes, must release
  everybody.
* hash table - a lookup takes a reference while an unhash drops the table's; a
  foreach holds one slot's lock at a time. The count must be exact, no element may
  be freed while it can be reached, and keys must stay unique.
* pool - the count reaches zero before the mutex is taken; a copy overwrites the
  count of the new buffer with the old one's. No buffer may be handed out twice or
  lost.
* layout - unsigned arithmetic of two widths behind assertions, some of which compare with
  the wrong quantity.
* timer queue - the main thread must not sleep past a timer that others add while
  it is between computing its time-out and poll(); timers are looked at without the
  lock and removed by an index kept in them; every timer must fire.
* time - one carry or borrow must be enough, also for expiries of more than a second
  and for negative differences.
* list - four links are changed among neighbours that may be one node.
* events - one interface over two kernels that keep registrations differently: one for
  a descriptor or one for each filter; one-shot registrations disabled or deleted. The
  kernel must hold what the client asked for, no more and with its own pointers; one of the
  two does so only for clients that follow rules the interface does not state.
* debug and log - threads print at the same time to one struct.
* red-black tree - the colours after every insertion, and the links after a
  traversal that borrows them.

## The modules

`Signal` models `signal.c` one system call per step. `pipe` counts the integers in
the pipe, `fds` the ends that are open, `waiting` is the struct's field, `pc`, `timeout` and
`ret` are the threads' program counters and locals. `RaiseCheck` and `RaiseWrite` are the two halves of
`signal_raise_val`; `WaitEnter`, `WaitRead`, `PollReady`, `PollFails`, `ClearRead`
and `WaitDec` are `signal_wait_val`. A raise that finds the signal raised returns
at once and changes nothing. `CloseRead` and `CloseWrite` are the two halves of
`signal_destroy`: a raiser that writes between them gets EPIPE, and SIGPIPE may end the
process (`killed`; whether it does depends on the program).

`WakeEvent` is the abstract specification of a signal: a number of wake-ups owed, to
which a raise adds one, of which a wait that returns 1 takes one, and which waits may
coalesce but never down to zero, unless they have given up, by a time-out or an
interruption, and clear the event on their way out. `Signal` contains the refinement
mapping (`Event == INSTANCE WakeEvent WITH ...`): owed are the integers in the pipe and
one for each waiter that has read an integer and not returned yet; leaving are the
waiters at their final clear with nothing to report, woken those whose result is 1. From the
first close on nothing is owed and a wait may end with either result (`Release`), since in the
code one that poll() has let go and that then reads EBADF returns 1 without a raise.

`HashTable` models `hashtable.c`. A chain is the set of its elements, since no
operation depends on their order; taking a slot's lock, scanning the chain,
changing it, every atomic refcount operation and the call of `freefn` are separate
steps. The slot of a hash is `band(hash, mask)`; `band` is a constant, `&` of `Bitwise` in the
runs, of which the proofs use only that it yields a slot, so that they hold for tables whose size is no power of two.
A thread has one pointer with one reference, `he`. `owner` is the thread
that created an element: it hashes and (unless `Ops` has `"unhash_any"`) unhashes it.
`hashtable_fini` is called when no thread is inside the table; references may
outlive it. `seen`, `stay` are auxiliary and serve `ForeachComplete`.

`PbufPool` models the pool: the two lists are sets, and locking, taking the front,
moving, unlocking, the decrement and the two writes to the count in `pbuf_copy`
are separate steps. `ListOps` defines the operations of `list.h` on the links of
nodes, and `PbufRing` is the pool over them: its steps are those of `PbufPool` with what the
code does to the links, and what is free, and which buffer comes next, is read off the
links. Its first state is what the loop of `pbuf_pool_init` leaves (`PoolInitLoop`, a recursive
function of the rounds). The sets of `PbufPool` remain beside the links, for `RingsHold` to
compare with what a walk along a list meets: `Walk` is the least set of nodes that has the
anchor in it and that next does not leave.

`Pbuf` models the offsets of one buffer in arithmetic modulo `UMod` (unsigned) and
`SMod` (size_t); a failing assertion ends the program and is a guard, and there are no other
guards. `strayed` is auxiliary: since the buffer was allocated the client has pulled more than
there is, trimmed to more than there is or reserved in a buffer with data, all of which
the assertions of `pbuf.c` let pass and after which the arithmetic may have wrapped.

`HeapOps` defines the heap's operations as functions of its state, a record. Both loops of
`heap.c` shift items along a path of positions and store one where they stop: `Up` and `Down`
say where the loop of `heap_insert` and that of `heap_heapify` go from each position, `Path`
is the least set of positions that holds the start and is closed under going on (the same
path as by recursion, in a form that the proofs can use), `Shifted` and `Indexed` are the array
and the index fields after the loop. `TimerQueue` is
composed of it and of the timer queue: the heap's state is a variable and
the critical sections of `timer.c` apply `heap_insert` and `heap_remove` to it.
The unlocked reads of `timer_add` and `timer_mod`, the lock, the check and the
write of the raise are separate steps. The client's poll loop is part of the model:
`Loop` says which of the three forms of next_timeout it calls: before the two that fill in
a struct the client lowers the signal itself, `timer_next_timeout` lowers it last. The
key of a timer is its `t->timeout`, a timespec that `timer_mod` computes with the macros of
`time.h` (`TimeOps`, an instance of it for nanoseconds) from `t->expires` and the clock of
the calling thread; each thread has a monotone clock of its own, as
CLOCK_THREAD_CPUTIME_ID is. `Infinity`, the time-out of an empty queue, is assumed to be more
than any time that is computed: readings of the clock plus expiries, and an unsigned long of
microseconds. poll() may time out at any time; the queue may change between its return
(`PollExpires`) and the removal of the first timer (`timer_handle_timeout`). A timer has one
owner, which makes all calls for it: two threads that add the same timer are not modelled. Nor is
a client that calls `timer_queue_signal_raise` itself. The result of `timer_queue_signal_lower`
is left out; it is always TIMER_SIGNAL_NONE, since `signal_clear_val` returns 0 whatever it reads.
`t->expires * 1000` is computed in integers: where long has 32 bits it overflows beyond
about two seconds. A second has 4 nanoseconds
in the runs, a microsecond 2: enough for carries, borrows and truncation.

`TimeOps` defines the macros of `time.h` for any number of units in a second, C's division
and remainder included, and the reference they are compared with: a time is a number of
units.

`Events` models both builds of `event.h`; `build` is chosen once. The kernel is external:
`epoll_ctl`, `kevent` (a list of changes, each of them a `Change`, up to the first that fails),
`Pending` and `Reported` say what it registers and reports. The client
is one program for both: it keeps an object for each descriptor, remembers all that it was told
of a one-shot registration and renews it when it has handled the events, asks for something
in every mask. It follows two rules: it does not touch a descriptor whose events it still
has to handle, and a descriptor is one-shot or level-triggered for good (the kernels differ in what
becomes of a one-shot registration that is added again without the flag). It is free to narrow a
mask with MOD and to name filters that have fired in a DEL, which epoll and kqueue treat
differently; `strayed` is auxiliary and says that it has. An event whose pointer leads to no
object of the client is discarded (`Discard`). The -1 with EINTR of an interrupted event_wait is left
out: nothing depends on it.

`Log` models `debug.c` over `log.c`: `ck_dbg_print` takes three steps (choose the stream,
print, reset), everything else one. The use of a null or closed stream ends the
program (`up`).

`RbTree` models `_rb_tree_insert` one loop iteration or insertion case per step,
and the traversal of `rb_tree_print_in_order`, which threads the tree through its
NULL links. `rb_tree_destroy` is the end of the tree's use; that it recurs along the links and
frees what it meets is not modelled. A write through NULL ends in `pc = "crash"`. `Sound` says that links are those of a
tree: a node's children have it as their parent, and every node but the root is the child of
its parent on exactly one side; rotations may spoil them, and what the properties say of colours, of the traversal and
of calls that return they say of trees whose links are sound.

`MC*` are the instances for TLC, `*Proofs` the theorems.

Definitions named `X_Word` are slips: plausible bugs in the code that `X` models.
Each property of a passing run is violated when `X` is replaced by one of them.

## The runs

Twelve runs, seven that pass and five that show a disagreement.

| run | bounds | shows |
|---|---|---|
| `signal` | 2 raisers, 3 waiters, 1 clearer, time-outs, all outcomes of poll() | `PipeBounded`, `WaitingCounts`, `ImplementsEvent`, `RaiseWakes`, `DestroyReleases` |
| `signal_timeout` (violation) | 1 raiser, 1 waiter with a time-out | a raise that arrives after poll() timed out is drained by the clear at signal.c:108 and wakes nobody (`EveryRaiseWakes`) |
| `hashtable` | 2 threads, 2 elements, 3 keys, 2 slots (two keys collide) | `RefsCounted`, `NoUseAfterFree`, `KeysUnique`, `CountTracks`, `WalkInChain`, `ForeachComplete`, `LocksReleased` |
| `hashtable_sharedunhash` (violation) | 2 threads, 1 element | two threads that both saw the element hashed unhash it: freed while in use |
| `pbuf_pool` | 4 threads, 3 buffers, linked lists | `RefsCounted`, `Exclusive`, `NoLeak`, `RingsHold` |
| `pbuf_layout` | unsigned of 8, size_t of 16 values, sizes up to 5, all lengths | `WellFormed`, `LenTracks`, `HeadersInside` |
| `timer` | 2 workers and the main thread with a timer each, one of them modified; 2 clock readings; a heap of 2 that grows by 1 or fails to | `QueueIsActive`, `NoMissedReschedule`, `TimesExact`, `MainWakes` |
| `timer_usec` (violation) | 1 worker, 1 timer | `timer_next_timeout` lowers the signal too late and a raise is lost |
| `timer_starve` (violation) | 2 timers, the later of which is added again | the earlier timer never fires: `heap_insert` orders the wrong way round |
| `rbtree` | up to 7 nodes, 4 keys | `RootBlack`, `NoRedRed`, `PrintRestores`, `CallsReturn` |
| `events` | 2 descriptors, 2 objects, 3 masks (one descriptor level-triggered; the other one-shot with the end of file, with and without reading), batches of 2, both builds | `InterestHeld`, `NoStaleInterest`, `Revocable`, `Served` |
| `log` (violation) | 2 threads, 1 log beside the default one, 2 levels | the stream of a print to the default log is overwritten by another's (`ErrorsToStderr`) |

What the properties say, and of whom. `ImplementsEvent` counts wake-ups until `signal_destroy`
begins. `CountTracks` says that `ht->count` changes as the number of elements does; its value is
one more than the "number of elementes" that `hashtable.h` promises of `hashtable_count`, because
`hashtable_init` starts it at 1 (hashtable.c:34). `LocksReleased` says that every way out of a call,
early returns included, gives back the slot's lock. `WellFormed` is about clients that have
not strayed since the allocation, `LenTracks` and `HeadersInside` about all that the assertions let
pass. `QueueIsActive` and `NoMissedReschedule` are about timers that nobody modifies, in a queue
whose other timers are modified: of a modified timer both are false, because of stale indexes (below).
`NoStaleInterest` and `Revocable` hold with epoll for every client of the model, with kqueue for
one that has not strayed, and with kqueue the deletion that `Revocable` speaks of leaves out what
has fired, between batches; `InterestHeld` and `Served` hold for all, in both builds. `RootBlack` is about all trees, `NoRedRed`,
`PrintRestores` and `CallsReturn` about trees with sound links.

Why the bounds are enough. The races of the signal need two raisers past the same
check and two waiters at the same poll(); a third waiter may give up meanwhile. In the hash table
a race has two sides, a collision needs two elements in a slot, and a walk needs a
second slot. In the pool an exhausted free list with a buffer shared by two threads,
one being copied and one being returned needs three buffers and four threads. The
widths of the layout are smaller than sums of two sizes, so that every wrap-around is
reachable. The timer queue needs two timers that compete for the front and a heap that
has to grow; `QueueBound` keeps a timer that is inserted twice from filling the heap, and
stops only calls that would insert beyond three entries, never a deletion or a replacement. A kqueue has
up to four registrations for two descriptors, so that batches of two leave events behind, and
two objects are used again for the other descriptor as soon as they are free.
With six nodes an insertion climbs (case 3), rotates below the root (case 5) and meets both
subtrees of a grandparent; the seventh is inserted into trees that such a rotation has spoilt.

Deadlock is checked except where the system may stop: a process that SIGPIPE has killed, threads that have put all
their references when the table is down, the timer queue after fini, the tree after destroy
or a crash, and a program that has crashed in its log.

Fairness. Weak fairness is assumed of threads that are inside a call:
a raiser that decided to write writes, a waiter performs its next system call and
waits again (a poll() with a time-out returns, one without need never be interrupted),
signal_destroy goes on to its second close, a thread that has a slot's lock goes on with its call, a thread that waits for the timer queue's mutex gets it when it is free for good, the main thread goes round its loop, an
insertion or a traversal goes on. That is what a scheduler that runs every runnable
thread gives. A poll() that blocks when the read end is closed under it is sure to return only
when the write end is closed too. Nobody has to raise, clear, add or destroy. Strong fairness is assumed in
`Events` alone: of a client that goes back to event_wait and renews what has fired, since it
can be kept busy with other descriptors in between, and of the kernels, which both keep their
ready registrations in a queue and so pass none over for ever.

## The proofs

| module | theorems | inductive invariant |
|---|---|---|
| `SignalProofs` | `TypeOK`, `PipeBounded`, `WaitingCounts`, `ImplementsEvent` | the conjunction of the first three |
| `HashTableProofs` | `TypeOK`, `RefsCounted`, `KeysUnique`, `NoUseAfterFree` | `TableInv` |
| | `WalkInChain`, `ForeachComplete` | `WalkInv`: `TableInv`, both of them and `ForeachInv` |
| | `CountTracks` | `TableInv` and `CountsExact`, the exact values of both counts |
| `PbufPoolProofs` | `TypeOK`, `RefsCounted`, `Exclusive`, `NoLeak` | `PoolInv` |
| | `RingsHold`, `FrontIsFree` (list_empty and list_front tell the truth) | `RingInv`: `PoolInv` and the orbits of the two anchors |
| | `MoveKeepsRings`, of any nodes and lists | none: `list_del` leaves a node alone, `list_add_front` takes one that is alone |
| `PbufProofs` | `WellFormed`, `LenTracks`, `HeadersInside` | `LayoutInv` |
| `TimerQueueProofs` | `TypeOK`, `QueueIsActive`, `TimesExact` | `TimerInv` |
| | `NoMissedReschedule` | `TimerInv` and itself |
| `EventsProofs` | `TypeOK`, `InterestHeld`, `NoStaleInterest`, `Revocable` | `EventsInv`: `TidyInv`, and with kqueue `LooseInv` |
| `RbTreeProofs` | `TypeOK` | `TypeInv`: `TypeOK` and which pointers are not NULL (`LabelInv`) |
| | `RootBlack`, whatever rotations do to the links, as long as traversals restore them | `TypeInv` and `RootInv` |
| | `PrintRestores`, as long as no call spoils the links | `TypeInv`, `TreeInv` and `WalkInv` |
| `TimeProofs` | `TimeIsExact`, what `TimesExact` says of any two times | none: lemmas on division, and on one carry or borrow |

All theorems hold for any finite sets of threads and any elements, buffers, timers,
descriptors, keys, hash functions, times, sizes and widths; the assumptions are those of the
modules (`SignalAssumption`, `HashTableAssumption`, `PbufPoolAssumption`, `PbufRingAssumption`,
`PbufAssumption`, `TimerQueueAssumption`, `EventsAssumption`, `RbTreeAssumption`) and, where the code needs it, of its clients: the
hash table's theorems assume that only the owner unhashes an element (`OwnersUnhash`), which the
violation run shows to be needed; and `NoMissedReschedule` that the main thread's loop is one of the two that lower
the signal first (`Loop # "usec"`), since `timer_usec` shows that the third loses a raise. The layout's and the events' theorems have
no such hypothesis: what they need of a client is in the properties (`strayed`), beside clients that stray. Of the red-black tree `TypeOK` holds
always. `RootBlack` is proved in behaviours in which every traversal that has returned left
the right links as it found them (`[]TraversalsRestore`); it does so of trees with sound links, by
`RbTreePrintRestores`, and a program that only inserts has none. The code does not guarantee it of spoilt
trees: from seven nodes on a traversal may leave threads behind. `PrintRestores` is
proved in behaviours in which no call has left links that are not a tree's
(`[]SoundBetweenCalls`, that is `Sound` whenever no call is under way). The code does not
guarantee that either (see below on rotations), and the property is false of some trees that are not
sound. `NoRedRed` is not proved: a proof from the same hypothesis would leave out every rotation of a
node with a subtree to move, where red pairs come from.

`PipeBounded` is inductive because a raise that passes the check has found the pipe
empty: the integers and the writers can only be other raisers that passed it too.
For the refinement every step of `Signal` is a step of `WakeEvent` or a stutter: a read
moves a wake-up from the pipe to the waiter, which then drains the pipe without taking the
last one owed. It shows that no more waits return 1 than raises completed and that the
clears of waits that report something never lose the last raise. A wait that has timed out or
was interrupted is at its clear with nothing of its own to report, and its reads are the
abstract `Withdraw`. The result of a wait is part of the mapping (`woken`), so that a wait that
returns 1 has to be a `Wake`, or, once the read end is closed, a `Release`.

`RefsCounted` and `NoUseAfterFree` are not inductive. `TableInv` adds what the locks
give (`LockInv`: who is inside a slot's critical section has the slot's lock), that only
owners are inside hash and unhash (`OwnerInv`), that an element on its way into the
table is not linked and one on its way out is, in the slot of its hash, and that a lookup about to take a reference
still finds the element in the locked chain (`PlaceInv`), and that the count of an
element that is freed, or about to be, is zero (`FreeInv`). The proof has one lemma
per action; the counting steps compare the set of holders before and after the step.

For `ForeachComplete` the walk has to be described while it goes on (`ForeachInv`): an element
that has been in the table since the walk began is in a slot still to come, or in the slot
that is being walked and then visited or still to be visited, or in a slot before it and
visited. An unhash ends the element's stay; a hash adds to a slot's chain only when the walk,
which would hold its lock, is elsewhere. `CountTracks` follows from the exact values
(`CountsExact`: one more than the linked elements for the table, the chain's length for a slot), which need `TableInv` to know that what is
linked was not linked before, and what is unlinked was, in the one slot of its hash.

The layout. `LayoutInv` has `Inside` (data is not beyond end, end not beyond the largest size) and
`Agrees` (len differs from tail - data by a multiple of `UMod`), which hold whatever the client
does, beside `WellFormed`. That `Agrees` is kept rests on `UMod` dividing `SMod`: wrapping in the
wider type changes len by a multiple of the narrower. That a sum or a difference does not wrap
for a client that has not strayed follows from the guard of the step and `WellFormed` before it.

`PoolInv` is built the same way as `TableInv`: the mutex excludes, the buffer that an allocation
has taken is still free until it is moved, exactly one thread returns a buffer whose
count has reached zero.

The lists. The walk along a ring is an orbit: the least set with a node in it that next does
not leave. The links of a ring agree in both directions (`Linked`), so next is one-to-one,
and from that alone the orbit of every other node loses just the one that `list_del` takes out
(`DelOrbit`) and gains just the one that is inserted next to one of its nodes (`InsertedOrbit`);
no list has to be known as a sequence, and no induction along it is needed. `MoveKeepsRings` puts the two
together. `PoolInitLoop` is the one place where something is done n times: the number of rounds
after which the links are as they should be is a set of numbers that has 0 in it and is
closed under going on, so the least round outside it does not exist (`Least`). `RingInv` then
says that the orbits of the anchors are the two sets of `PbufPool`, and each step of the pool
moves one node.

The root of the tree. `RootInv` speaks of the links without the threads of a traversal
(`Unthreaded`) and of no more of them than any tree keeps, spoilt or not: pointers lead to
nodes of the tree, no link leads to the root and it has no parent (`Rooted`), it is black except while case 1
is about to paint it. A rotation of another node keeps that (`RotatedRoot`), wherever it
links what it moves. A rotation of the root would not: it is what case 5 attempts when the grandparent
is the root. `Shape` shows that the attempt ends in the crash at rbtree.c:231 or does not happen:
once the root has had two children it keeps two (`Wide`), so the child that the rotation would lift is there and the
write goes through the root's parent, which is NULL; before that, the tree is the root with one child and perhaps
a grandchild (`Pair`, `Chain`), and case 5 is certain to crash (`Doomed`). Case 3 repaints a grandparent red
and goes on to case 1 with it, which paints it black again if it is the root.

Sound trees. `TreeInv` carries `PrintRestores`: `Climbs` (the way up from any node ends at
the root) is what makes a grandparent different from the node below it, and it is kept
by rotations, which turn round one link of the way up and change no other. `FamilyOK` keeps what case 3
has found out (the uncle is black or missing) for case 5, and `Lined` what case 4 has arranged: node,
parent and grandparent are in line. `TreeInvNext` has one lemma for each case; `Rotated` says once
what a rotation does to the fields of three nodes.

The traversal. `Binary` is what soundness and `Climbs` make of the links. `Below` (a subtree),
`Spine` (the way along right links) and `LeftOf` (the nodes in whose left subtree a node is) are
least sets, with the lemmas that a traversal needs: a spine has one end (`SpineEnd`), a node is on the
right spine of one left subtree at most (`OwnsOnce`). `Morris` describes the traversal at a
node c with the set `open` of nodes that a thread leads back to: those in whose left subtrees c
is, and perhaps c (`Stands`); the right links are those of the tree and the threads to `open`
(`Threads`); what is not printed is an open node, to the right of one, or below c (`Covered`). The
steps lay a thread, take one up, or print and go on (`MorrisLays`, `MorrisUnlays`, `MorrisPrints`), and
at the end nothing is open.

The heap. What an insertion or a removal does to the array is proved for any array and
any order of the keys, in three layers. The lemmas on `Path` hold for any function that
only goes up or only goes down: induction along a path (`PathInduction`; the closed set is
instantiated, so no induction theorem is needed), that two positions of a path are in order (`PathLinear`),
that it ends in just one position (`PathEnds`), and that no two of its positions go on to the same
one (`PathInjective`). `ShiftedMoves` then says that the loops move items and lose none, and
`HeapInsert` and `HeapRemove` what the timer queue needs: an insertion adds an item that
was not there once, keeps the others as often as they were there once or not at all, and
leaves the front alone unless the item's index is 0; a removal takes away what stands at the
index, and leaves the front alone unless the index is 0.

The timer queue. `TimerInv` says that a thread inside a call works on a timer of its own and
that a timer that nobody modifies is not scheduled when it is about to be inserted (`CallInv`:
the unlocked look of `timer_add` stays true, since only the owner can make it false);
that the times are below `Infinity` (`TimeInv`, with `TimeIsExact`); and that a timer
that nobody modifies is in the array once or not at all, as its active flag says (`QueueInv`). It
speaks of these timers alone: a removal by a stale index may take out another timer, and then its active
flag with it, or leave a modified one in the array twice, and `QueueInv` is proved against both. `CallInv` also says that who raises holds the lock
and who is about to write has found the pipe empty, from which the pipe holds one integer at
most. `NoMissedReschedule` is inductive on top of it: a worker that changes the first timer goes
on to a raise, a raise ends with an integer in the pipe, a new timeout is only given to a timer that is
not in the queue, and the main thread lowers the signal before it looks at the queue.

The events. `TidyInv` is for epoll, and for kqueue under a client that has not strayed: `RegInv`
says that the registrations of the kernel are a function
of the client's books: of the mask and the object of each descriptor, and of what has fired or is in
the batch; `BatchOwned` that every event in the batch points to an object of the client. One
lemma for each call shows that `event_ctl` and `event_wait` keep that, and
the properties follow from it and from `BookInv` (objects are not shared, only one-shot
masks fire, events say something). With kqueue a client that has strayed has registrations that
its books do not know of, and `LooseInv` says of every client what is left: the registrations
are filters with the data of some object (`RegType`), and of a descriptor of which nothing has fired all that
the mask names is among them (`Held`), which is `InterestHeld`.

`TimeIsExact` rests on `Truncation` (C's quotient and remainder of n add up to n, the
remainder being smaller than a second in absolute value) and `Normalized` (a fraction between
minus one and two seconds is normalised by one carry or borrow).

Only model-checked: everything temporal beyond invariants and the refinement
(`RaiseWakes`, `DestroyReleases`, `LocksReleased`, `MainWakes`, `CallsReturn`, `Served`), which
needs fairness and is out of the proof system's reach; `NoRedRed`; and `RootBlack` after a
traversal has left threads in a spoilt tree, which the run checks for seven nodes. The counts that
the loops of `heap.c` and `pbuf_pool_init` take are not stated, only where they end.

## What modelling showed beyond the five violation runs

These follow from the definitions and were seen as counterexamples of TLC or by
reading; each is at its line among the hazards.

* `heap_remove` leaves the index of the item that fills the hole when it stays there
  (heap.c:143); `timer_del` and `timer_mod` remove by that index without looking whose
  it is (timer.c:150): another timer is removed, or a modified one is inserted twice.
  The timer that becomes the first when another has fired keeps its old index too, and a
  `timer_mod` of it to an earlier time neither takes it out nor raises the signal: the main thread
  sleeps past it. A timer that has fired has index 0, so that deleting it removes the first timer.
* `timer_next_timeout` stores a negative difference in an unsigned long when the first
  timer is overdue (timer.c:191).
* `_rb_tree_insert` of three ascending keys writes through the NULL parent of the root
  (rbtree.c:231), `tree->root` is never updated by a rotation, case 5 chooses the side of
  the great-grandparent by the wrong node and loses a subtree, no rotation gives the subtree that
  changes its place its new parent (rbtree.c:204), and equal keys are inserted
  again although the comment at rbtree.c:91 says otherwise. From seven nodes on such a tree has
  a red node with a red child, and its traversal goes round in circles or leaves threads behind:
  `NoRedRed`, `PrintRestores` and `CallsReturn` without `Sound` are violated. `rb_tree_insert`
  calls itself for ever (rbtree.c:370).
* `hashtable_count` of an empty table is 1 (hashtable.c:34); the mask is size - 1 whatever the
  size, so that a size that is no power of two leaves slots unused (hashtable.c:33); a foreach whose callback calls
  `__hashtable_unhash` never ends (hashtable.c:89); the last put of an element that was
  never hashed follows an unset pointer (hashtable.c:204).
* With kqueue, EVENT_CTL_MOD leaves the filters it does not name (event_kqueue.c:27), a
  deletion that names a one-shot filter that has fired stops there and leaves the other one
  (event_kqueue.c:80), and a descriptor has two events in a batch, of which the second
  outlives a deletion by the first's handler (event_kqueue.c:120). The client of `Events` does
  the first two, and without `strayed` `NoStaleInterest` and `Revocable` have counterexamples with
  kqueue; neither is there with epoll.
* With epoll the end of file is an event of its own, which disables a one-shot registration
  for writing too (event_epoll.c:68): a client that renews only what was reported as readable
  or writable would never hear of the descriptor again.
* `ck_dbg_close(NULL)` tests its argument where it means `dbg_log` (debug.c:71) and passes the
  null stream of the default log to fclose; a log that was closed is still open to
  `ck_dbg_is_open` (log.c:47), and `ck_dbg_set_sync_mode` has no effect on `ck_dbg_print`, which
  does not look at the flag (log.c:67). The comment on `list_empty` (list.h:69) has its result
  the wrong way round. `timer_mod` of a timer that is not scheduled ignores its argument
  (timer.c:118).
* The expiry of a timer is set by one thread's CPU time and compared with another's
  (timer.c:17), so that it has no meaning in common time; the wake-ups are right all the same.
* The assertions of `pbuf_pull` and `pbuf_reserve` compare with the wrong quantity and
  `pbuf_trim` has none: pulling one byte of an empty buffer makes len wrap.
* A thread that raises a signal between the two closes of `signal_destroy` gets SIGPIPE
  (signal.c:49), and a wait that is released by the destroy may return 1 (signal.c:97).

## Not modelled

The bit mixing of `hash.h`, which is pure; edge-triggered events, the time-out of event_wait
and event_close; the Android branch of the log, `ck_log_print` and all formatting;
`pbuf_pool_cleanup`, after which nothing of the pool may be used; `__hashtable_unhash`, the
unlocked unhash for callbacks; the links of the hash table's chains, which are sets, since the
slots' locks make the operations on them atomic; memory allocation failure other than the
heap's growth; the bytes of packets and the values sent through signals; the ownership of the
tree's keys and values, `rb_tree_insert`, which calls itself for ever, and `rb_tree_delete`,
which is empty. The components of `PROJECT.json` give the reasons.

## Plan

What is left, in order:

1. Proofs: `NoRedRed` of the trees that insertions really build, spoilt links included, as far as it holds.
2. Callbacks of foreach that call `__hashtable_unhash`, over the links of `ListOps`.
3. `pbuf_pool_cleanup` and a second init over `PbufRing`; the layout under two threads.
