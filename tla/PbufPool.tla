-------------------------------- MODULE PbufPool --------------------------------
(***************************************************************************)
(* src/pbuf.c: the pool of packet buffers that threads share.              *)
(*                                                                         *)
(* A buffer is on free_list or use_list, which are only touched under      *)
(* pool_mutex; its reference count is changed outside it.  Each thread has *)
(* a pointer pb with a reference, and the local variable new of the        *)
(* allocation it is performing.  The order of the lists is abstracted, the *)
(* layout of a buffer is the subject of Pbuf.                              *)
(***************************************************************************)
EXTENDS Integers, FiniteSets

CONSTANTS Threads, Bufs, NoThread, NoBuf

ASSUME PbufPoolAssumption ==
  /\ IsFiniteSet(Threads)
  /\ NoThread \notin Threads /\ NoBuf \notin Bufs

VARIABLES
  free_list, use_list,
  pool_mutex,  \* the thread that has the mutex
  refcount,    \* pb->refcount
  pc, pb, new

vars == <<free_list, use_list, pool_mutex, refcount, pc, pb, new>>

Labels ==
  {"idle", "alloc_lock", "take", "move", "alloc_unlock", "memcpy", "set_one",
   "drop", "free_lock", "free_move", "free_unlock"}

TypeOK ==
  /\ free_list \subseteq Bufs /\ use_list \subseteq Bufs
  /\ pool_mutex \in Threads \cup {NoThread}
  /\ refcount \in [Bufs -> Int]
  /\ pc \in [Threads -> Labels]
  /\ pb \in [Threads -> Bufs \cup {NoBuf}]
  /\ new \in [Threads -> Bufs \cup {NoBuf}]

Goto(t, label) == pc' = [pc EXCEPT ![t] = label]

\* pbuf_pool_init: the entries of a calloc()ed array, all of them free.
Init ==
  /\ free_list = Bufs /\ use_list = {}
  /\ pool_mutex = NoThread
  /\ refcount = [b \in Bufs |-> 0]
  /\ pc = [t \in Threads |-> "idle"]
  /\ pb = [t \in Threads |-> NoBuf]
  /\ new = [t \in Threads |-> NoBuf]

--------------------------------------------------------------------------------
(* pool_mutex.                                                             *)

\* The slip of entering the critical section while another thread is in it.
MutexFree_Ignored == TRUE

MutexFree == pool_mutex = NoThread

Lock(t, from, to) ==
  /\ pc[t] = from
  /\ MutexFree
  /\ pool_mutex' = t
  /\ Goto(t, to)
  /\ UNCHANGED <<free_list, use_list, refcount, pb, new>>

AllocLock(t) == Lock(t, "alloc_lock", "take")

FreeLock(t) == Lock(t, "free_lock", "free_move")

--------------------------------------------------------------------------------
(* pbuf_alloc.                                                             *)

AllocEnter(t) ==
  /\ pc[t] = "idle" /\ pb[t] = NoBuf
  /\ Goto(t, "alloc_lock")
  /\ UNCHANGED <<free_list, use_list, pool_mutex, refcount, pb, new>>

\* The slip of taking the front of a list that may be empty: its anchor.
AllocTake_Unchecked(t) ==
  /\ pc[t] = "take" /\ Goto(t, "move")
  /\ \E b \in IF free_list = {} THEN {"free_list"} ELSE free_list : new' = [new EXCEPT ![t] = b]
  /\ UNCHANGED <<free_list, use_list, pool_mutex, refcount, pb>>

\* list_front of free_list, or NULL when the pool is exhausted.
AllocTake(t) ==
  /\ pc[t] = "take"
  /\ \/ /\ free_list = {}
        /\ Goto(t, "alloc_unlock")
        /\ UNCHANGED new
     \/ \E b \in free_list : new' = [new EXCEPT ![t] = b] /\ Goto(t, "move")
  /\ UNCHANGED <<free_list, use_list, pool_mutex, refcount, pb>>

\* list_move to use_list and pbuf_init.
AllocMove(t) ==
  /\ pc[t] = "move"
  /\ free_list' = free_list \ {new[t]}
  /\ use_list' = use_list \cup {new[t]}
  /\ refcount' = [refcount EXCEPT ![new[t]] = 1]
  /\ Goto(t, "alloc_unlock")
  /\ UNCHANGED <<pool_mutex, pb, new>>

\* The end of pbuf_alloc: back in pbuf_copy, which gives up on NULL, or in the
\* client, which keeps the buffer in pb.
AllocUnlock(t) ==
  /\ pc[t] = "alloc_unlock"
  /\ pool_mutex' = NoThread
  /\ IF pb[t] # NoBuf
     THEN /\ Goto(t, IF new[t] = NoBuf THEN "idle" ELSE "memcpy")
          /\ UNCHANGED <<pb, new>>
     ELSE /\ Goto(t, "idle")
          /\ pb' = [pb EXCEPT ![t] = new[t]]
          /\ new' = [new EXCEPT ![t] = NoBuf]
  /\ UNCHANGED <<free_list, use_list, refcount>>

--------------------------------------------------------------------------------
(* pbuf_copy, by a client that replaces its buffer with the copy.          *)

CopyEnter(t) ==
  /\ pc[t] = "idle" /\ pb[t] # NoBuf
  /\ Goto(t, "alloc_lock")
  /\ UNCHANGED <<free_list, use_list, pool_mutex, refcount, pb, new>>

\* memcpy of the whole struct pbuf, the reference count included.
CopyBytes(t) ==
  /\ pc[t] = "memcpy"
  /\ refcount' = [refcount EXCEPT ![new[t]] = refcount[pb[t]]]
  /\ Goto(t, "set_one")
  /\ UNCHANGED <<free_list, use_list, pool_mutex, pb, new>>

\* The slip of leaving the count that was copied.
CopySetOne_Skipped(t) ==
  /\ pc[t] = "set_one" /\ Goto(t, "drop")
  /\ UNCHANGED <<free_list, use_list, pool_mutex, refcount, pb, new>>

CopySetOne(t) ==
  /\ pc[t] = "set_one"
  /\ refcount' = [refcount EXCEPT ![new[t]] = 1]
  /\ Goto(t, "drop")
  /\ UNCHANGED <<free_list, use_list, pool_mutex, pb, new>>

--------------------------------------------------------------------------------
(* pbuf_hold and pbuf_free.                                                *)

\* pbuf_hold, and the new reference handed to thread u.
pbuf_hold(t, u) ==
  /\ pc[t] = "idle" /\ pb[t] # NoBuf
  /\ pc[u] = "idle" /\ pb[u] = NoBuf
  /\ refcount' = [refcount EXCEPT ![pb[t]] = @ + 1]
  /\ pb' = [pb EXCEPT ![u] = pb[t]]
  /\ UNCHANGED <<free_list, use_list, pool_mutex, pc, new>>

\* The pointer a thread goes on with once it has dropped pb: NULL, or the copy.
Replace(t) ==
  /\ pb' = [pb EXCEPT ![t] = new[t]]
  /\ new' = [new EXCEPT ![t] = NoBuf]

\* The slip of testing the count before the decrement.
LastRef_Early(b) == refcount[b] = 2

\* atomic_dec_and_test reports that the count is now zero.
LastRef(b) == refcount[b] = 1

FreeDec(t) ==
  /\ pc[t] \in {"idle", "drop"} /\ pb[t] # NoBuf
  /\ refcount' = [refcount EXCEPT ![pb[t]] = @ - 1]
  /\ IF LastRef(pb[t])
     THEN Goto(t, "free_lock") /\ UNCHANGED <<pb, new>>
     ELSE Goto(t, "idle") /\ Replace(t)
  /\ UNCHANGED <<free_list, use_list, pool_mutex>>

\* list_move to free_list.
FreeMove(t) ==
  /\ pc[t] = "free_move"
  /\ use_list' = use_list \ {pb[t]}
  /\ free_list' = free_list \cup {pb[t]}
  /\ Goto(t, "free_unlock")
  /\ Replace(t)
  /\ UNCHANGED <<pool_mutex, refcount>>

FreeUnlock(t) ==
  /\ pc[t] = "free_unlock"
  /\ pool_mutex' = NoThread
  /\ Goto(t, "idle")
  /\ UNCHANGED <<free_list, use_list, refcount, pb, new>>

--------------------------------------------------------------------------------

Next ==
  \E t \in Threads :
    \/ AllocEnter(t) \/ AllocLock(t) \/ AllocTake(t) \/ AllocMove(t) \/ AllocUnlock(t)
    \/ CopyEnter(t) \/ CopyBytes(t) \/ CopySetOne(t)
    \/ \E u \in Threads : pbuf_hold(t, u)
    \/ FreeDec(t) \/ FreeLock(t) \/ FreeMove(t) \/ FreeUnlock(t)

Spec == Init /\ [][Next]_vars

--------------------------------------------------------------------------------
(* Properties.                                                             *)

Freeing == {"free_lock", "free_move"}

\* The references to a buffer: threads whose pb it is, and a thread that has
\* allocated it and not yet made it its pb.
Holders(b) == {t \in Threads : pb[t] = b /\ pc[t] \notin Freeing}
Makers(b) == {t \in Threads : new[t] = b /\ pc[t] # "move"}

\* The count of a buffer is the number of its references, except for the
\* moment in which pbuf_copy has copied the count of another buffer into it.
RefsCounted ==
  \A b \in Bufs :
    \/ \E t \in Makers(b) : pc[t] = "set_one"
    \/ refcount[b] = Cardinality(Holders(b)) + Cardinality(Makers(b))

\* A buffer that pbuf_alloc hands out is nobody else's: two threads are never
\* given the same buffer, and no reference survives the return to the pool.
Exclusive ==
  /\ \A b \in free_list : \A t \in Threads : pb[t] # b
  /\ \A t, u \in Threads :
       new[t] # NoBuf /\ t # u => new[u] # new[t] /\ pb[u] # new[t]

\* No buffer is lost: one on use_list is referred to, or a thread is about to
\* return it, and exactly one thread is; the rest are on free_list.
NoLeak ==
  \A b \in Bufs :
    LET returning == {t \in Threads : pb[t] = b /\ pc[t] \in Freeing}
    IN  /\ b \in free_list <=> b \notin use_list
        /\ b \in use_list <=> Holders(b) \cup Makers(b) \cup returning # {}
        /\ returning # {} => Holders(b) \cup Makers(b) = {} /\ Cardinality(returning) = 1
================================================================================
