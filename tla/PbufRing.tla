-------------------------------- MODULE PbufRing --------------------------------
(***************************************************************************)
(* The pool of src/pbuf.c over the lists of include/ckit/list.h: PbufPool, *)
(* whose lists are sets, together with the nodes that the code links.  The *)
(* code reads only the nodes: the list is empty, and its front is a given  *)
(* buffer, when the links say so.                                          *)
(***************************************************************************)
EXTENDS PbufPool, ListOps, SequencesExt

VARIABLE lnode  \* next and prev of the two anchors and of every buffer

ringVars == <<vars, lnode>>

Anchors == {"free_list", "use_list"}

\* A list and an entry of the pool are never one node, and the pool is an array.
ASSUME PbufRingAssumption == IsFiniteSet(Bufs) /\ Bufs \cap Anchors = {}

objects == SetToSeq(Bufs)

\* The links after i rounds of the loop of pbuf_pool_init.
PoolInitLoop[i \in 0..Cardinality(Bufs)] ==
  IF i = 0 THEN INIT_LIST(Bufs \cup Anchors)
           ELSE list_add_back(PoolInitLoop[i - 1], "free_list", objects[i])

RingInit == Init /\ lnode = PoolInitLoop[Cardinality(Bufs)]

RingTake(t) ==
  /\ AllocTake(t)
  /\ pc'[t] = "alloc_unlock" => list_empty(lnode, "free_list")
  /\ new'[t] \in {new[t], list_front(lnode, "free_list")}
  /\ UNCHANGED lnode

RingAllocMove(t) == AllocMove(t) /\ lnode' = list_move(lnode, new[t], "use_list")

RingFreeMove(t) == FreeMove(t) /\ lnode' = list_move(lnode, pb[t], "free_list")

\* The steps of the pool that touch no list.
RingOther(t) ==
  /\ \/ AllocEnter(t) \/ AllocLock(t) \/ AllocUnlock(t)
     \/ CopyEnter(t) \/ CopyBytes(t) \/ CopySetOne(t)
     \/ \E u \in Threads : pbuf_hold(t, u)
     \/ FreeDec(t) \/ FreeLock(t) \/ FreeUnlock(t)
  /\ UNCHANGED lnode

RingNext ==
  \E t \in Threads : RingTake(t) \/ RingAllocMove(t) \/ RingFreeMove(t) \/ RingOther(t)

RingSpec == RingInit /\ [][RingNext]_ringVars

--------------------------------------------------------------------------------
\* What a walk along next from the anchor meets besides it: the least set of
\* nodes with the anchor in it that next does not leave.
Walk(anchor) ==
  {n \in (Bufs \cup Anchors) \ {anchor} :
     \A S \in SUBSET (Bufs \cup Anchors) :
       (anchor \in S /\ \A m \in S : lnode.next[m] \in S) => n \in S}

\* The rings are sound: the links agree in both directions, and a walk along
\* free_list or use_list meets exactly the buffers that the pool has there, so
\* that pbuf_alloc takes a free buffer whenever there is one.
RingsHold ==
  /\ \A n \in Bufs \cup Anchors : lnode.prev[lnode.next[n]] = n /\ lnode.next[lnode.prev[n]] = n
  /\ Walk("free_list") = free_list
  /\ Walk("use_list") = use_list
================================================================================
