----------------------------- MODULE PbufPoolProofs -----------------------------
(***************************************************************************)
(* Proofs about PbufPool, for any threads and any number of buffers, about *)
(* the lists of include/ckit/list.h, for any nodes and any number of lists,*)
(* and about PbufRing, the pool over its lists.                            *)
(***************************************************************************)
EXTENDS PbufRing, FiniteSetTheorems, TLAPS

(* The inductive invariant.                                                *)

MutexInv ==
  \A t \in Threads :
    pc[t] \in {"take", "move", "alloc_unlock", "free_move", "free_unlock"} => pool_mutex = t

PtrInv ==
  /\ \A t \in Threads : pc[t] \in {"idle", "alloc_lock", "take", "free_unlock"} => new[t] = NoBuf
  /\ \A t \in Threads : pc[t] = "move" => new[t] \in free_list
  /\ \A t \in Threads : pc[t] # "move" /\ new[t] # NoBuf => new[t] \in use_list
  /\ \A t \in Threads : pc[t] \in {"memcpy", "set_one", "drop"} => new[t] # NoBuf /\ pb[t] # NoBuf
  /\ \A t \in Threads : pc[t] \in Freeing => pb[t] # NoBuf
  /\ \A t \in Threads : pb[t] # NoBuf => pb[t] \in use_list /\ pb[t] # new[t]

ListInv ==
  /\ use_list = Bufs \ free_list
  /\ \A b \in use_list : \E t \in Threads : pb[t] = b \/ new[t] = b

ReturnInv ==
  /\ \A t \in Threads : pc[t] \in Freeing => refcount[pb[t]] = 0
  /\ \A t, u \in Threads : pc[t] \in Freeing /\ pb[u] = pb[t] => u = t

PoolInv ==
  TypeOK /\ MutexInv /\ PtrInv /\ Exclusive /\ ListInv /\ ReturnInv /\ RefsCounted

--------------------------------------------------------------------------------

LEMMA Finite ==
  ASSUME NEW b \in Bufs
  PROVE  /\ IsFiniteSet(Holders(b)) /\ Cardinality(Holders(b)) \in Nat
         /\ IsFiniteSet(Makers(b)) /\ Cardinality(Makers(b)) \in Nat
<1>1. Holders(b) \in SUBSET Threads /\ Makers(b) \in SUBSET Threads
  BY DEF Holders, Makers
<1>2. QED
  BY <1>1, PbufPoolAssumption, FS_Subset, FS_CardinalityType

\* A buffer that is some thread's pb is not being made by any thread.
LEMMA Settled ==
  ASSUME PoolInv, NEW t \in Threads, pb[t] # NoBuf
  PROVE  /\ pb[t] \in Bufs /\ Makers(pb[t]) = {}
         /\ refcount[pb[t]] = Cardinality(Holders(pb[t]))
<1> USE DEF PoolInv
<1>1. pb[t] \in Bufs /\ Makers(pb[t]) = {}
  BY DEF TypeOK, Makers, Exclusive, PtrInv
<1>2. refcount[pb[t]] = Cardinality(Holders(pb[t])) + Cardinality(Makers(pb[t]))
  BY <1>1 DEF RefsCounted
<1>3. QED
  BY <1>1, <1>2, Finite, FS_EmptySet

\* A buffer that a thread is making is nobody else's.
LEMMA Made ==
  ASSUME PoolInv, NEW t \in Threads, new[t] # NoBuf, pc[t] # "move"
  PROVE  /\ new[t] \in Bufs /\ Holders(new[t]) = {} /\ Makers(new[t]) = {t}
         /\ pc[t] # "set_one" => refcount[new[t]] = 1
<1> USE DEF PoolInv
<1>1. new[t] \in Bufs /\ Holders(new[t]) = {} /\ Makers(new[t]) = {t}
  BY DEF TypeOK, Makers, Holders, Exclusive, PtrInv
<1>2. ASSUME pc[t] # "set_one"
      PROVE  refcount[new[t]] = Cardinality(Holders(new[t])) + Cardinality(Makers(new[t]))
  BY <1>1, <1>2 DEF RefsCounted
<1>3. Cardinality({}) = 0 /\ Cardinality({t}) = 1
  BY FS_EmptySet, FS_Singleton
<1>4. QED
  BY <1>1, <1>2, <1>3

LEMMA AllocEnterStep ==
  ASSUME PoolInv, NEW t \in Threads, AllocEnter(t)
  PROVE  PoolInv'
<1> USE PbufPoolAssumption DEF AllocEnter, Goto, PoolInv
<1>1. TypeOK'
  BY DEF TypeOK, Labels
<1>2. MutexInv'
  BY DEF TypeOK, MutexInv
<1>3. PtrInv'
  BY DEF TypeOK, PtrInv, ListInv, Exclusive, Freeing
<1>4. Exclusive'
  BY DEF TypeOK, Exclusive, PtrInv
<1>5. ListInv'
  BY DEF TypeOK, ListInv, PtrInv, Exclusive
<1>6. ReturnInv'
  BY DEF TypeOK, ReturnInv, PtrInv, Freeing
<1>7. RefsCounted'
  <2> SUFFICES ASSUME NEW x \in Bufs
               PROVE  (\/ \E v \in Makers(x) : pc[v] = "set_one"
                       \/ refcount[x] = Cardinality(Holders(x)) + Cardinality(Makers(x)))'
    BY DEF RefsCounted
  <2>1. Holders(x)' = Holders(x) /\ Makers(x)' = Makers(x)
    BY DEF TypeOK, Holders, Makers, Freeing
  <2>2. refcount'[x] = refcount[x] /\ \A v \in Makers(x) : pc[v] = "set_one" => pc'[v] = "set_one"
    BY DEF TypeOK, Makers
  <2>3. QED
    BY <2>1, <2>2 DEF RefsCounted
<1>8. QED
  BY <1>1, <1>2, <1>3, <1>4, <1>5, <1>6, <1>7

LEMMA AllocLockStep ==
  ASSUME PoolInv, NEW t \in Threads, AllocLock(t)
  PROVE  PoolInv'
<1> USE PbufPoolAssumption DEF AllocLock, Lock, MutexFree, Goto, PoolInv
<1>1. TypeOK'
  BY DEF TypeOK, Labels
<1>2. MutexInv'
  BY DEF TypeOK, MutexInv
<1>3. PtrInv'
  BY DEF TypeOK, PtrInv, ListInv, Exclusive, Freeing
<1>4. Exclusive'
  BY DEF TypeOK, Exclusive, PtrInv
<1>5. ListInv'
  BY DEF TypeOK, ListInv, PtrInv, Exclusive
<1>6. ReturnInv'
  BY DEF TypeOK, ReturnInv, PtrInv, Freeing
<1>7. RefsCounted'
  <2> SUFFICES ASSUME NEW x \in Bufs
               PROVE  (\/ \E v \in Makers(x) : pc[v] = "set_one"
                       \/ refcount[x] = Cardinality(Holders(x)) + Cardinality(Makers(x)))'
    BY DEF RefsCounted
  <2>1. Holders(x)' = Holders(x) /\ Makers(x)' = Makers(x)
    BY DEF TypeOK, Holders, Makers, Freeing
  <2>2. refcount'[x] = refcount[x] /\ \A v \in Makers(x) : pc[v] = "set_one" => pc'[v] = "set_one"
    BY DEF TypeOK, Makers
  <2>3. QED
    BY <2>1, <2>2 DEF RefsCounted
<1>8. QED
  BY <1>1, <1>2, <1>3, <1>4, <1>5, <1>6, <1>7

LEMMA FreeLockStep ==
  ASSUME PoolInv, NEW t \in Threads, FreeLock(t)
  PROVE  PoolInv'
<1> USE PbufPoolAssumption DEF FreeLock, Lock, MutexFree, Goto, PoolInv
<1>1. TypeOK'
  BY DEF TypeOK, Labels
<1>2. MutexInv'
  BY DEF TypeOK, MutexInv
<1>3. PtrInv'
  BY DEF TypeOK, PtrInv, ListInv, Exclusive, Freeing
<1>4. Exclusive'
  BY DEF TypeOK, Exclusive, PtrInv
<1>5. ListInv'
  BY DEF TypeOK, ListInv, PtrInv, Exclusive
<1>6. ReturnInv'
  BY DEF TypeOK, ReturnInv, PtrInv, Freeing
<1>7. RefsCounted'
  <2> SUFFICES ASSUME NEW x \in Bufs
               PROVE  (\/ \E v \in Makers(x) : pc[v] = "set_one"
                       \/ refcount[x] = Cardinality(Holders(x)) + Cardinality(Makers(x)))'
    BY DEF RefsCounted
  <2>1. Holders(x)' = Holders(x) /\ Makers(x)' = Makers(x)
    BY DEF TypeOK, Holders, Makers, Freeing
  <2>2. refcount'[x] = refcount[x] /\ \A v \in Makers(x) : pc[v] = "set_one" => pc'[v] = "set_one"
    BY DEF TypeOK, Makers
  <2>3. QED
    BY <2>1, <2>2 DEF RefsCounted
<1>8. QED
  BY <1>1, <1>2, <1>3, <1>4, <1>5, <1>6, <1>7

LEMMA AllocTakeStep ==
  ASSUME PoolInv, NEW t \in Threads, AllocTake(t)
  PROVE  PoolInv'
<1> USE PbufPoolAssumption DEF AllocTake, Goto, PoolInv
<1>1. TypeOK'
  BY DEF TypeOK, Labels
<1>2. MutexInv'
  BY DEF TypeOK, MutexInv
<1>3. PtrInv'
  BY DEF TypeOK, PtrInv, ListInv, Exclusive, Freeing
<1>4. Exclusive'
  <2>1. CASE new' = new /\ UNCHANGED <<free_list, pb>>
    BY <2>1 DEF Exclusive
  <2>2. ASSUME NEW b \in free_list, new' = [new EXCEPT ![t] = b], UNCHANGED <<free_list, pb>>
        PROVE  Exclusive'
    <3>1. \A u \in Threads : u # t => new'[u] = new[u] /\ new[u] # b /\ pb[u] # b
      BY <2>2 DEF TypeOK, Exclusive, MutexInv, PtrInv, ListInv
    <3>2. new'[t] = b /\ pb[t] # b
      BY <2>2 DEF TypeOK, Exclusive
    <3>3. QED
      BY <2>2, <3>1, <3>2 DEF Exclusive
  <2>3. QED
    BY <2>1, <2>2
<1>5. ListInv'
  BY DEF TypeOK, ListInv, PtrInv, Exclusive
<1>6. ReturnInv'
  BY DEF TypeOK, ReturnInv, PtrInv, Freeing
<1>7. RefsCounted'
  <2> SUFFICES ASSUME NEW x \in Bufs
               PROVE  (\/ \E v \in Makers(x) : pc[v] = "set_one"
                       \/ refcount[x] = Cardinality(Holders(x)) + Cardinality(Makers(x)))'
    BY DEF RefsCounted
  <2>1. Holders(x)' = Holders(x) /\ Makers(x)' = Makers(x)
    BY DEF TypeOK, Holders, Makers, Freeing, PtrInv
  <2>2. refcount'[x] = refcount[x] /\ \A v \in Makers(x) : pc[v] = "set_one" => pc'[v] = "set_one"
    BY DEF TypeOK, Makers, PtrInv
  <2>3. QED
    BY <2>1, <2>2 DEF RefsCounted
<1>8. QED
  BY <1>1, <1>2, <1>3, <1>4, <1>5, <1>6, <1>7

LEMMA AllocMoveStep ==
  ASSUME PoolInv, NEW t \in Threads, AllocMove(t)
  PROVE  PoolInv'
<1> USE PbufPoolAssumption DEF AllocMove, Goto, PoolInv
<1>1. TypeOK'
  <2>1. new[t] \in Bufs
    BY DEF TypeOK, PtrInv
  <2>2. QED
    BY <2>1 DEF TypeOK, Labels
<1>2. MutexInv'
  BY DEF TypeOK, MutexInv
<1>3. PtrInv'
  BY DEF TypeOK, PtrInv, ListInv, Exclusive, Freeing
<1>4. Exclusive'
  BY DEF TypeOK, Exclusive, PtrInv
<1>5. ListInv'
  BY DEF TypeOK, ListInv, PtrInv, Exclusive
<1>6. ReturnInv'
  <2>1. \A v \in Threads : pc[v] \in Freeing => pb[v] # new[t]
    BY DEF Exclusive, PtrInv, Freeing
  <2>2. QED
    BY <2>1 DEF TypeOK, ReturnInv, PtrInv, Freeing
<1>7. RefsCounted'
  <2> SUFFICES ASSUME NEW x \in Bufs
               PROVE  (\/ \E v \in Makers(x) : pc[v] = "set_one"
                       \/ refcount[x] = Cardinality(Holders(x)) + Cardinality(Makers(x)))'
    BY DEF RefsCounted
  <2>c. Cardinality({}) = 0 /\ Cardinality({t}) = 1
    BY FS_EmptySet, FS_Singleton
  <2>1. CASE x # new[t]
    <3>1. Holders(x)' = Holders(x) /\ Makers(x)' = Makers(x)
      BY <2>1 DEF TypeOK, Holders, Makers, Freeing
    <3>2. refcount'[x] = refcount[x] /\ \A v \in Makers(x) : pc[v] = "set_one" => pc'[v] = "set_one"
      BY <2>1 DEF TypeOK, Makers
    <3>3. QED
      BY <3>1, <3>2 DEF RefsCounted
  <2>2. CASE x = new[t]
    <3>1. Holders(x)' = {} /\ Makers(x)' = {t}
      BY <2>2 DEF TypeOK, Holders, Makers, Exclusive, PtrInv, Freeing
    <3>2. refcount'[x] = 1
      BY <2>2 DEF TypeOK
    <3>3. QED
      BY <2>c, <3>1, <3>2
  <2>3. QED
    BY <2>1, <2>2
<1>8. QED
  BY <1>1, <1>2, <1>3, <1>4, <1>5, <1>6, <1>7

LEMMA AllocUnlockStep ==
  ASSUME PoolInv, NEW t \in Threads, AllocUnlock(t)
  PROVE  PoolInv'
<1> USE PbufPoolAssumption DEF AllocUnlock, Goto, PoolInv
<1>1. TypeOK'
  BY DEF TypeOK, Labels
<1>2. MutexInv'
  BY DEF TypeOK, MutexInv
<1>3. PtrInv'
  BY DEF TypeOK, PtrInv, ListInv, Exclusive, Freeing
<1>4. Exclusive'
  <2>1. CASE pb[t] # NoBuf
    <3>1. UNCHANGED <<pb, new, free_list, refcount>>
      BY <2>1
    <3>2. QED
      BY <3>1 DEF Exclusive
  <2>2. CASE pb[t] = NoBuf
    <3>1. /\ pb' = [pb EXCEPT ![t] = new[t]] /\ new' = [new EXCEPT ![t] = NoBuf]
          /\ pc' = [pc EXCEPT ![t] = "idle"] /\ UNCHANGED <<free_list, refcount>>
      BY <2>2
    <3>2. QED
      BY <3>1 DEF TypeOK, Exclusive, PtrInv, ListInv
  <2>3. QED
    BY <2>1, <2>2
<1>5. ListInv'
  BY DEF TypeOK, ListInv, PtrInv, Exclusive
<1>6. ReturnInv'
  <2>1. \A v \in Threads : pc[v] \in Freeing => pb[v] # new[t]
    BY DEF Exclusive, PtrInv, Freeing
  <2>2. \A v \in Threads : pc'[v] \in Freeing => v # t /\ pc[v] \in Freeing
    BY DEF TypeOK, Freeing
  <2>3. \A v \in Threads : v # t => pb'[v] = pb[v]
    BY DEF TypeOK
  <2>4. pb'[t] = pb[t] \/ pb'[t] = new[t]
    BY DEF TypeOK
  <2>5. QED
    BY <2>1, <2>2, <2>3, <2>4 DEF ReturnInv
<1>7. RefsCounted'
  <2> SUFFICES ASSUME NEW x \in Bufs
               PROVE  (\/ \E v \in Makers(x) : pc[v] = "set_one"
                       \/ refcount[x] = Cardinality(Holders(x)) + Cardinality(Makers(x)))'
    BY DEF RefsCounted
  <2>c. Cardinality({}) = 0 /\ Cardinality({t}) = 1
    BY FS_EmptySet, FS_Singleton
  <2>1. CASE pb[t] # NoBuf \/ x # new[t]
    <3>1. Holders(x)' = Holders(x) /\ Makers(x)' = Makers(x)
      BY <2>1 DEF TypeOK, Holders, Makers, Freeing
    <3>2. refcount'[x] = refcount[x] /\ \A v \in Makers(x) : pc[v] = "set_one" => pc'[v] = "set_one"
      BY <2>1 DEF TypeOK, Makers
    <3>3. QED
      BY <3>1, <3>2 DEF RefsCounted
  <2>2. CASE pb[t] = NoBuf /\ x = new[t]
    <3>1. Makers(x) = {t} /\ Holders(x) = {} /\ refcount[x] = 1
      BY <2>2, Made
    <3>2. Holders(x)' = {t} /\ Makers(x)' = {} /\ refcount'[x] = 1
      BY <2>2, <3>1 DEF TypeOK, Holders, Makers, Freeing
    <3>3. QED
      BY <2>c, <3>2
  <2>3. QED
    BY <2>1, <2>2
<1>8. QED
  BY <1>1, <1>2, <1>3, <1>4, <1>5, <1>6, <1>7

LEMMA CopyEnterStep ==
  ASSUME PoolInv, NEW t \in Threads, CopyEnter(t)
  PROVE  PoolInv'
<1> USE PbufPoolAssumption DEF CopyEnter, Goto, PoolInv
<1>1. TypeOK'
  BY DEF TypeOK, Labels
<1>2. MutexInv'
  BY DEF TypeOK, MutexInv
<1>3. PtrInv'
  BY DEF TypeOK, PtrInv, ListInv, Exclusive, Freeing
<1>4. Exclusive'
  BY DEF TypeOK, Exclusive, PtrInv
<1>5. ListInv'
  BY DEF TypeOK, ListInv, PtrInv, Exclusive
<1>6. ReturnInv'
  BY DEF TypeOK, ReturnInv, PtrInv, Freeing
<1>7. RefsCounted'
  <2> SUFFICES ASSUME NEW x \in Bufs
               PROVE  (\/ \E v \in Makers(x) : pc[v] = "set_one"
                       \/ refcount[x] = Cardinality(Holders(x)) + Cardinality(Makers(x)))'
    BY DEF RefsCounted
  <2>1. Holders(x)' = Holders(x) /\ Makers(x)' = Makers(x)
    BY DEF TypeOK, Holders, Makers, Freeing
  <2>2. refcount'[x] = refcount[x] /\ \A v \in Makers(x) : pc[v] = "set_one" => pc'[v] = "set_one"
    BY DEF TypeOK, Makers
  <2>3. QED
    BY <2>1, <2>2 DEF RefsCounted
<1>8. QED
  BY <1>1, <1>2, <1>3, <1>4, <1>5, <1>6, <1>7

LEMMA CopyBytesStep ==
  ASSUME PoolInv, NEW t \in Threads, CopyBytes(t)
  PROVE  PoolInv'
<1> USE PbufPoolAssumption DEF CopyBytes, Goto, PoolInv
<1>1. TypeOK'
  <2>1. new[t] \in Bufs /\ pb[t] \in Bufs
    BY DEF TypeOK, PtrInv
  <2>2. QED
    BY <2>1 DEF TypeOK, Labels
<1>2. MutexInv'
  BY DEF TypeOK, MutexInv
<1>3. PtrInv'
  BY DEF TypeOK, PtrInv, ListInv, Exclusive, Freeing
<1>4. Exclusive'
  BY DEF TypeOK, Exclusive, PtrInv
<1>5. ListInv'
  BY DEF TypeOK, ListInv, PtrInv, Exclusive
<1>6. ReturnInv'
  <2>1. \A v \in Threads : pc[v] \in Freeing => pb[v] # new[t]
    BY DEF Exclusive, PtrInv, Freeing
  <2>2. QED
    BY <2>1 DEF TypeOK, ReturnInv, PtrInv, Freeing
<1>7. RefsCounted'
  <2> SUFFICES ASSUME NEW x \in Bufs
               PROVE  (\/ \E v \in Makers(x) : pc[v] = "set_one"
                       \/ refcount[x] = Cardinality(Holders(x)) + Cardinality(Makers(x)))'
    BY DEF RefsCounted
  <2>c. Cardinality({}) = 0 /\ Cardinality({t}) = 1
    BY FS_EmptySet, FS_Singleton
  <2>1. CASE x # new[t]
    <3>1. Holders(x)' = Holders(x) /\ Makers(x)' = Makers(x)
      BY <2>1 DEF TypeOK, Holders, Makers, Freeing
    <3>2. refcount'[x] = refcount[x] /\ \A v \in Makers(x) : pc[v] = "set_one" => pc'[v] = "set_one"
      BY <2>1 DEF TypeOK, Makers
    <3>3. QED
      BY <3>1, <3>2 DEF RefsCounted
  <2>2. CASE x = new[t]
    <3>1. t \in Makers(x)' /\ pc'[t] = "set_one"
      BY <2>2 DEF TypeOK, Makers
    <3>2. QED
      BY <3>1
  <2>3. QED
    BY <2>1, <2>2
<1>8. QED
  BY <1>1, <1>2, <1>3, <1>4, <1>5, <1>6, <1>7

LEMMA CopySetOneStep ==
  ASSUME PoolInv, NEW t \in Threads, CopySetOne(t)
  PROVE  PoolInv'
<1> USE PbufPoolAssumption DEF CopySetOne, Goto, PoolInv
<1>1. TypeOK'
  <2>1. new[t] \in Bufs
    BY DEF TypeOK, PtrInv
  <2>2. QED
    BY <2>1 DEF TypeOK, Labels
<1>2. MutexInv'
  BY DEF TypeOK, MutexInv
<1>3. PtrInv'
  BY DEF TypeOK, PtrInv, ListInv, Exclusive, Freeing
<1>4. Exclusive'
  BY DEF TypeOK, Exclusive, PtrInv
<1>5. ListInv'
  BY DEF TypeOK, ListInv, PtrInv, Exclusive
<1>6. ReturnInv'
  <2>1. \A v \in Threads : pc[v] \in Freeing => pb[v] # new[t]
    BY DEF Exclusive, PtrInv, Freeing
  <2>2. QED
    BY <2>1 DEF TypeOK, ReturnInv, PtrInv, Freeing
<1>7. RefsCounted'
  <2> SUFFICES ASSUME NEW x \in Bufs
               PROVE  (\/ \E v \in Makers(x) : pc[v] = "set_one"
                       \/ refcount[x] = Cardinality(Holders(x)) + Cardinality(Makers(x)))'
    BY DEF RefsCounted
  <2>c. Cardinality({}) = 0 /\ Cardinality({t}) = 1
    BY FS_EmptySet, FS_Singleton
  <2>1. CASE x # new[t]
    <3>1. Holders(x)' = Holders(x) /\ Makers(x)' = Makers(x)
      BY <2>1 DEF TypeOK, Holders, Makers, Freeing
    <3>2. refcount'[x] = refcount[x] /\ \A v \in Makers(x) : pc[v] = "set_one" => pc'[v] = "set_one"
      BY <2>1 DEF TypeOK, Makers
    <3>3. QED
      BY <3>1, <3>2 DEF RefsCounted
  <2>2. CASE x = new[t]
    <3>1. Makers(x) = {t} /\ Holders(x) = {}
      BY <2>2, Made
    <3>2. Holders(x)' = {} /\ Makers(x)' = {t} /\ refcount'[x] = 1
      BY <2>2, <3>1 DEF TypeOK, Holders, Makers, Freeing
    <3>3. QED
      BY <2>c, <3>2
  <2>3. QED
    BY <2>1, <2>2
<1>8. QED
  BY <1>1, <1>2, <1>3, <1>4, <1>5, <1>6, <1>7

LEMMA FreeDecStep ==
  ASSUME PoolInv, NEW t \in Threads, FreeDec(t)
  PROVE  PoolInv'
<1> USE PbufPoolAssumption DEF FreeDec, LastRef, Replace, Goto, PoolInv
<1>1. TypeOK'
  BY DEF TypeOK, Labels
<1>2. MutexInv'
  BY DEF TypeOK, MutexInv
<1>3. PtrInv'
  BY DEF TypeOK, PtrInv, ListInv, Exclusive, Freeing
<1>4. Exclusive'
  <2>1. CASE LastRef(pb[t])
    <3>1. UNCHANGED <<pb, new, free_list, use_list>>
      BY <2>1
    <3>2. QED
      BY <3>1 DEF Exclusive
  <2>2. CASE ~LastRef(pb[t])
    <3>1. /\ pb' = [pb EXCEPT ![t] = new[t]] /\ new' = [new EXCEPT ![t] = NoBuf]
          /\ UNCHANGED <<free_list, use_list>>
      BY <2>2
    <3>2. new[t] # NoBuf => new[t] \in use_list
      BY DEF PtrInv
    <3>3. QED
      BY <3>1, <3>2 DEF TypeOK, Exclusive, ListInv
  <2>3. QED
    BY <2>1, <2>2
<1>5. ListInv'
  <2>1. CASE LastRef(pb[t])
    <3>1. UNCHANGED <<pb, new, free_list, use_list>>
      BY <2>1
    <3>2. QED
      BY <3>1 DEF ListInv
  <2>2. CASE ~LastRef(pb[t])
    <3>1. /\ pb' = [pb EXCEPT ![t] = new[t]] /\ new' = [new EXCEPT ![t] = NoBuf]
          /\ UNCHANGED <<free_list, use_list>>
      BY <2>2
    <3>2. t \in Holders(pb[t]) /\ Cardinality(Holders(pb[t])) # 1 /\ pb[t] \in Bufs
      BY <2>2, Settled DEF Holders, Freeing
    <3>p. Holders(pb[t]) # {t}
      BY <3>2, FS_Singleton
    <3>3. PICK v \in Holders(pb[t]) : v # t
      BY <3>2, <3>p
    <3>4. v \in Threads /\ pb[v] = pb[t]
      BY DEF Holders
    <3>5. pb'[v] = pb[t] /\ pb'[t] = new[t]
      BY <3>1, <3>3, <3>4 DEF TypeOK
    <3>6. \A w \in Threads : w # t => pb'[w] = pb[w] /\ new'[w] = new[w]
      BY <3>1 DEF TypeOK
    <3>7. QED
      BY <3>1, <3>4, <3>5, <3>6 DEF ListInv
  <2>3. QED
    BY <2>1, <2>2
<1>6. ReturnInv'
  <2>1. pb[t] \in Bufs /\ t \in Holders(pb[t]) /\ refcount[pb[t]] = Cardinality(Holders(pb[t]))
    BY Settled DEF Holders, Freeing
  <2>2. refcount[pb[t]] # 0
    BY <2>1, Finite, FS_EmptySet
  <2>3. \A v \in Threads : pc[v] \in Freeing => pb[v] # pb[t]
    BY <2>2 DEF ReturnInv
  <2>4. CASE refcount[pb[t]] = 1
    <3>1. PICK y : Holders(pb[t]) = {y}
      BY <2>1, <2>4, Finite, FS_Singleton
    <3>2. Holders(pb[t]) = {t}
      BY <2>1, <3>1
    <3>3. \A v \in Threads : pb[v] = pb[t] => v = t
      BY <2>3, <3>2 DEF Holders
    <3>4. /\ pc' = [pc EXCEPT ![t] = "free_lock"] /\ pb' = pb
          /\ refcount' = [refcount EXCEPT ![pb[t]] = 0]
      BY <2>1, <2>4 DEF TypeOK
    <3>5. QED
      BY <2>1, <2>3, <3>3, <3>4 DEF TypeOK, ReturnInv, Freeing, PtrInv
  <2>5. CASE refcount[pb[t]] # 1
    <3>1. /\ pc' = [pc EXCEPT ![t] = "idle"] /\ pb' = [pb EXCEPT ![t] = new[t]]
          /\ refcount' = [refcount EXCEPT ![pb[t]] = @ - 1]
      BY <2>1, <2>5
    <3>2. \A v \in Threads : pc[v] \in Freeing => pb[v] # new[t]
      BY DEF Exclusive, PtrInv, Freeing
    <3>3. QED
      BY <2>1, <2>3, <3>1, <3>2 DEF TypeOK, ReturnInv, Freeing
  <2>6. QED
    BY <2>4, <2>5
<1>7. RefsCounted'
  <2>p. pb[t] \in Bufs /\ t \in Holders(pb[t]) /\ Makers(pb[t]) = {} /\ pb[t] # new[t]
    BY Settled DEF Holders, Freeing, PtrInv
  <2> SUFFICES ASSUME NEW x \in Bufs
               PROVE  (\/ \E v \in Makers(x) : pc[v] = "set_one"
                       \/ refcount[x] = Cardinality(Holders(x)) + Cardinality(Makers(x)))'
    BY DEF RefsCounted
  <2>c. Cardinality({}) = 0 /\ Cardinality({t}) = 1
    BY FS_EmptySet, FS_Singleton
  <2>1. CASE x # pb[t] /\ (x # new[t] \/ LastRef(pb[t]))
    <3>1. Holders(x)' = Holders(x) /\ Makers(x)' = Makers(x)
      BY <2>1, <2>p DEF TypeOK, Holders, Makers, Freeing, PtrInv
    <3>2. refcount'[x] = refcount[x] /\ \A v \in Makers(x) : pc[v] = "set_one" => pc'[v] = "set_one"
      BY <2>1, <2>p DEF TypeOK, Makers, PtrInv
    <3>3. QED
      BY <3>1, <3>2 DEF RefsCounted
  <2>2. CASE x = new[t] /\ ~LastRef(pb[t])
    <3>0. pb' = [pb EXCEPT ![t] = new[t]] /\ new' = [new EXCEPT ![t] = NoBuf]
      BY <2>2
    <3>1. Makers(x) = {t} /\ Holders(x) = {} /\ refcount[x] = 1
      BY <2>2, Made DEF PtrInv, Freeing
    <3>2. Holders(x)' = {t} /\ Makers(x)' = {} /\ refcount'[x] = 1
      BY <2>2, <2>p, <3>0, <3>1 DEF TypeOK, Holders, Makers, Freeing, PtrInv
    <3>3. QED
      BY <2>c, <3>2
  <2>3. CASE x = pb[t]
    <3>1. Holders(x)' = Holders(x) \ {t} /\ Makers(x)' = Makers(x)
      BY <2>3, <2>p DEF TypeOK, Holders, Makers, Freeing
    <3>2. Makers(x) = {} /\ refcount[x] = Cardinality(Holders(x)) /\ refcount'[x] = refcount[x] - 1
      BY <2>3, Settled DEF TypeOK
    <3>3. Cardinality(Holders(x)') = Cardinality(Holders(x)) - 1 /\ Cardinality(Makers(x)') = 0
      BY <2>3, <2>p, <3>1, <3>2, Finite, FS_RemoveElement, FS_EmptySet
    <3>4. QED
      BY <3>2, <3>3, Finite
  <2>4. QED
    BY <2>1, <2>2, <2>3
<1>8. QED
  BY <1>1, <1>2, <1>3, <1>4, <1>5, <1>6, <1>7

LEMMA FreeMoveStep ==
  ASSUME PoolInv, NEW t \in Threads, FreeMove(t)
  PROVE  PoolInv'
<1> USE PbufPoolAssumption DEF FreeMove, Replace, Goto, PoolInv
<1>a. pb[t] \in Bufs /\ pb[t] # new[t] /\ (new[t] # NoBuf => new[t] \in use_list)
  BY DEF TypeOK, PtrInv, Freeing
<1>b. \A u \in Threads : u # t => pb[u] # pb[t] /\ new[u] # pb[t]
  BY <1>a DEF ReturnInv, Exclusive, Freeing
<1>c. \A u \in Threads : u # t => pb'[u] = pb[u] /\ new'[u] = new[u] /\ pc'[u] = pc[u]
  BY DEF TypeOK
<1>d. pb'[t] = new[t] /\ new'[t] = NoBuf /\ pc'[t] = "free_unlock"
  BY DEF TypeOK
<1>1. TypeOK'
  BY <1>a DEF TypeOK, Labels
<1>2. MutexInv'
  BY DEF TypeOK, MutexInv
<1>3. PtrInv'
  BY <1>a, <1>b, <1>c, <1>d DEF PtrInv, Freeing
<1>4. Exclusive'
  BY <1>a, <1>b, <1>c, <1>d DEF Exclusive, ListInv, TypeOK
<1>5. ListInv'
  BY DEF TypeOK, ListInv, PtrInv, Exclusive
<1>6. ReturnInv'
  <2>1. \A v \in Threads : v # t /\ pb[v] # NoBuf => pb[v] # new[t]
    BY DEF Exclusive
  <2>2. QED
    BY <1>a, <1>b, <1>c, <1>d, <2>1 DEF ReturnInv, PtrInv, Freeing
<1>7. RefsCounted'
  <2> SUFFICES ASSUME NEW x \in Bufs
               PROVE  (\/ \E v \in Makers(x) : pc[v] = "set_one"
                       \/ refcount[x] = Cardinality(Holders(x)) + Cardinality(Makers(x)))'
    BY DEF RefsCounted
  <2>c. Cardinality({}) = 0 /\ Cardinality({t}) = 1
    BY FS_EmptySet, FS_Singleton
  <2>1. CASE x # pb[t] /\ x # new[t]
    <3>1. Holders(x)' = Holders(x) /\ Makers(x)' = Makers(x)
      BY <2>1 DEF TypeOK, Holders, Makers, Freeing
    <3>2. refcount'[x] = refcount[x] /\ \A v \in Makers(x) : pc[v] = "set_one" => pc'[v] = "set_one"
      BY <2>1 DEF TypeOK, Makers
    <3>3. QED
      BY <3>1, <3>2 DEF RefsCounted
  <2>2. CASE x = new[t]
    <3>1. Makers(x) = {t} /\ Holders(x) = {} /\ refcount[x] = 1
      BY <2>2, Made DEF PtrInv, Freeing
    <3>2. Holders(x)' = {t} /\ Makers(x)' = {} /\ refcount'[x] = 1
      BY <2>2, <3>1 DEF TypeOK, Holders, Makers, Freeing, PtrInv
    <3>3. QED
      BY <2>c, <3>2
  <2>3. CASE x = pb[t] /\ x # new[t]
    <3>1. Holders(x) = {} /\ Makers(x) = {} /\ refcount[x] = 0
      BY <2>3, Settled DEF Holders, Freeing, ReturnInv
    <3>2. Holders(x)' = {} /\ Makers(x)' = {} /\ refcount'[x] = 0
      BY <2>3, <3>1 DEF TypeOK, Holders, Makers, Freeing
    <3>3. QED
      BY <2>c, <3>2
  <2>4. QED
    BY <2>1, <2>2, <2>3
<1>8. QED
  BY <1>1, <1>2, <1>3, <1>4, <1>5, <1>6, <1>7

LEMMA FreeUnlockStep ==
  ASSUME PoolInv, NEW t \in Threads, FreeUnlock(t)
  PROVE  PoolInv'
<1> USE PbufPoolAssumption DEF FreeUnlock, Goto, PoolInv
<1>1. TypeOK'
  BY DEF TypeOK, Labels
<1>2. MutexInv'
  BY DEF TypeOK, MutexInv
<1>3. PtrInv'
  BY DEF TypeOK, PtrInv, ListInv, Exclusive, Freeing
<1>4. Exclusive'
  BY DEF TypeOK, Exclusive, PtrInv
<1>5. ListInv'
  BY DEF TypeOK, ListInv, PtrInv, Exclusive
<1>6. ReturnInv'
  BY DEF TypeOK, ReturnInv, PtrInv, Freeing
<1>7. RefsCounted'
  <2> SUFFICES ASSUME NEW x \in Bufs
               PROVE  (\/ \E v \in Makers(x) : pc[v] = "set_one"
                       \/ refcount[x] = Cardinality(Holders(x)) + Cardinality(Makers(x)))'
    BY DEF RefsCounted
  <2>1. Holders(x)' = Holders(x) /\ Makers(x)' = Makers(x)
    BY DEF TypeOK, Holders, Makers, Freeing
  <2>2. refcount'[x] = refcount[x] /\ \A v \in Makers(x) : pc[v] = "set_one" => pc'[v] = "set_one"
    BY DEF TypeOK, Makers
  <2>3. QED
    BY <2>1, <2>2 DEF RefsCounted
<1>8. QED
  BY <1>1, <1>2, <1>3, <1>4, <1>5, <1>6, <1>7

LEMMA HoldStep ==
  ASSUME PoolInv, NEW t \in Threads, NEW u \in Threads, pbuf_hold(t, u)
  PROVE  PoolInv'
<1> USE PbufPoolAssumption DEF pbuf_hold, PoolInv
<1>1. TypeOK'
  BY DEF TypeOK, Labels
<1>2. MutexInv'
  BY DEF TypeOK, MutexInv
<1>3. PtrInv'
  BY DEF TypeOK, PtrInv, ListInv, Exclusive, Freeing
<1>4. Exclusive'
  BY DEF TypeOK, Exclusive, PtrInv
<1>5. ListInv'
  BY DEF TypeOK, ListInv, PtrInv, Exclusive
<1>6. ReturnInv'
  BY DEF TypeOK, ReturnInv, PtrInv, Freeing
<1>7. RefsCounted'
  <2> SUFFICES ASSUME NEW x \in Bufs
               PROVE  (\/ \E v \in Makers(x) : pc[v] = "set_one"
                       \/ refcount[x] = Cardinality(Holders(x)) + Cardinality(Makers(x)))'
    BY DEF RefsCounted
  <2>1. CASE x # pb[t]
    <3>1. Holders(x)' = Holders(x) /\ Makers(x)' = Makers(x)
      BY <2>1 DEF TypeOK, Holders, Makers, Freeing
    <3>2. refcount'[x] = refcount[x] /\ pc' = pc
      BY <2>1 DEF TypeOK
    <3>3. QED
      BY <3>1, <3>2 DEF RefsCounted
  <2>2. CASE x = pb[t]
    <3>1. u \notin Holders(x) /\ Holders(x)' = Holders(x) \cup {u} /\ Makers(x)' = Makers(x)
      BY <2>2 DEF TypeOK, Holders, Makers, Freeing
    <3>2. Makers(x) = {} /\ refcount[x] = Cardinality(Holders(x)) /\ refcount'[x] = refcount[x] + 1
      BY <2>2, Settled DEF TypeOK
    <3>3. Cardinality(Holders(x)') = Cardinality(Holders(x)) + 1 /\ Cardinality(Makers(x)') = 0
      BY <3>1, <3>2, Finite, FS_AddElement, FS_EmptySet
    <3>4. QED
      BY <3>2, <3>3, Finite
  <2>3. QED
    BY <2>1, <2>2
<1>8. QED
  BY <1>1, <1>2, <1>3, <1>4, <1>5, <1>6, <1>7

--------------------------------------------------------------------------------

LEMMA PoolInit == Init => PoolInv
<1> SUFFICES ASSUME Init PROVE PoolInv
  OBVIOUS
<1> USE PbufPoolAssumption DEF Init
<1>1. TypeOK /\ MutexInv /\ PtrInv /\ Exclusive /\ ListInv /\ ReturnInv
  BY DEF TypeOK, Labels, MutexInv, PtrInv, Exclusive, ListInv, ReturnInv, Freeing
<1>2. ASSUME NEW b \in Bufs PROVE Holders(b) = {} /\ Makers(b) = {}
  BY DEF Holders, Makers
<1>3. \A b \in Bufs : Cardinality(Holders(b)) = 0 /\ Cardinality(Makers(b)) = 0
  BY <1>2, FS_EmptySet
<1>4. RefsCounted
  BY <1>3 DEF RefsCounted
<1>5. QED
  BY <1>1, <1>4 DEF PoolInv

LEMMA PoolNext == PoolInv /\ [Next]_vars => PoolInv'
<1> SUFFICES ASSUME PoolInv, [Next]_vars PROVE PoolInv'
  OBVIOUS
<1>1. CASE Next
  BY <1>1, AllocEnterStep, AllocLockStep, FreeLockStep, AllocTakeStep, AllocMoveStep,
     AllocUnlockStep, CopyEnterStep, CopyBytesStep, CopySetOneStep, FreeDecStep,
     FreeMoveStep, FreeUnlockStep, HoldStep DEF Next
<1>2. CASE UNCHANGED vars
  <2> USE <1>2 DEF vars, PoolInv
  <2>1. TypeOK' /\ MutexInv' /\ PtrInv' /\ Exclusive' /\ ListInv' /\ ReturnInv'
    BY DEF TypeOK, MutexInv, PtrInv, Exclusive, ListInv, ReturnInv
  <2>2. ASSUME NEW b \in Bufs PROVE Holders(b)' = Holders(b) /\ Makers(b)' = Makers(b)
    BY DEF Holders, Makers
  <2>3. RefsCounted'
    BY <2>2 DEF RefsCounted
  <2>4. QED
    BY <2>1, <2>3
<1>3. QED
  BY <1>1, <1>2

\* The variables of the pool keep their types.
THEOREM PbufPoolTypeCorrect == Spec => []TypeOK
<1>1. PoolInv => TypeOK
  BY DEF PoolInv
<1>2. QED
  BY <1>1, PoolInit, PoolNext, PTL DEF Spec

\* The count of every buffer is the number of its references.
THEOREM PbufPoolRefsCounted == Spec => []RefsCounted
<1>1. PoolInv => RefsCounted
  BY DEF PoolInv
<1>2. QED
  BY <1>1, PoolInit, PoolNext, PTL DEF Spec

\* pbuf_alloc never hands out a buffer that somebody still refers to.
THEOREM PbufPoolExclusive == Spec => []Exclusive
<1>1. PoolInv => Exclusive
  BY DEF PoolInv
<1>2. QED
  BY <1>1, PoolInit, PoolNext, PTL DEF Spec

\* Every buffer is on one list, and a buffer in use has a reference or exactly
\* one thread that is about to return it.
THEOREM PbufPoolNoLeak == Spec => []NoLeak
<1>1. PoolInv => NoLeak
  <2> SUFFICES ASSUME PoolInv, NEW b \in Bufs
               PROVE  LET returning == {t \in Threads : pb[t] = b /\ pc[t] \in Freeing}
                      IN  /\ b \in free_list <=> b \notin use_list
                          /\ b \in use_list <=> Holders(b) \cup Makers(b) \cup returning # {}
                          /\ returning # {} => /\ Holders(b) \cup Makers(b) = {}
                                               /\ Cardinality(returning) = 1
    BY DEF NoLeak
  <2> USE DEF PoolInv
  <2> DEFINE returning == {t \in Threads : pb[t] = b /\ pc[t] \in Freeing}
  <2>1. b \in free_list <=> b \notin use_list
    BY DEF ListInv, TypeOK
  <2>2. b \in use_list => Holders(b) \cup Makers(b) \cup returning # {}
    <3>1. ASSUME b \in use_list PROVE Holders(b) \cup Makers(b) \cup returning # {}
      <4>1. PICK t \in Threads : pb[t] = b \/ new[t] = b
        BY <3>1 DEF ListInv
      <4>2. CASE pb[t] = b
        BY <4>2 DEF Holders
      <4>3. CASE new[t] = b
        BY <2>1, <3>1, <4>3 DEF Makers, PtrInv
      <4>4. QED
        BY <4>1, <4>2, <4>3
    <3>2. QED
      BY <3>1
  <2>3. Holders(b) \cup Makers(b) \cup returning # {} => b \in use_list
    BY PbufPoolAssumption DEF Holders, Makers, PtrInv
  <2>4. ASSUME returning # {} PROVE Holders(b) \cup Makers(b) = {} /\ Cardinality(returning) = 1
    <3>1. PICK t \in Threads : pb[t] = b /\ pc[t] \in Freeing
      BY <2>4
    <3>2. Holders(b) = {} /\ returning = {t}
      BY <3>1 DEF ReturnInv, Holders
    <3>3. Makers(b) = {}
      BY <3>1, Settled, PbufPoolAssumption
    <3>4. QED
      BY <3>2, <3>3, FS_Singleton
  <2>5. QED
    BY <2>1, <2>2, <2>3, <2>4
<1>2. QED
  BY <1>1, PoolInit, PoolNext, PTL DEF Spec

--------------------------------------------------------------------------------
(* The rings of include/ckit/list.h, for any set of nodes and any number of *)
(* lists among them.  Linked and Orbit say what the operations do to them.  *)

\* The memory L holds the nodes S, and its links agree in both directions.
Linked(L, S) ==
  /\ L = [next |-> L.next, prev |-> L.prev]
  /\ L.next \in [S -> S] /\ L.prev \in [S -> S]
  /\ \A n \in S : L.prev[L.next[n]] = n /\ L.next[L.prev[n]] = n

\* Node n is linked to itself alone: a node before it is added or after it was
\* deleted, or the anchor of an empty list.
Alone(L, n) == L.next[n] = n /\ L.prev[n] = n

\* The set T of nodes is not left along next.
Closed(next, T) == \A m \in T : next[m] \in T

\* The nodes of S that a walk along next meets, a among them.
Orbit(next, S, a) ==
  {n \in S : \A T \in SUBSET S : a \in T /\ Closed(next, T) => n \in T}

LEMMA OrbitClosed ==
  ASSUME NEW S, NEW next \in [S -> S], NEW a \in S
  PROVE  /\ Orbit(next, S, a) \in SUBSET S /\ a \in Orbit(next, S, a)
         /\ Closed(next, Orbit(next, S, a))
BY DEF Orbit, Closed

LEMMA OrbitLeast ==
  ASSUME NEW S, NEW next \in [S -> S], NEW a \in S,
         NEW T \in SUBSET S, a \in T, Closed(next, T)
  PROVE  Orbit(next, S, a) \subseteq T
BY DEF Orbit

\* INIT_LIST makes every node a ring of its own.
LEMMA InitLinked ==
  ASSUME NEW S
  PROVE  Linked(INIT_LIST(S), S) /\ \A n \in S : Alone(INIT_LIST(S), n)
BY DEF Linked, INIT_LIST, Alone

\* A node that is alone is all that a walk from it meets.
LEMMA AloneOrbit ==
  ASSUME NEW S, NEW L, Linked(L, S), NEW n \in S, Alone(L, n)
  PROVE  Orbit(L.next, S, n) = {n}
<1>1. Closed(L.next, {n}) /\ {n} \in SUBSET S /\ L.next \in [S -> S]
  BY DEF Closed, Alone, Linked
<1>2. QED
  BY <1>1, OrbitLeast, OrbitClosed

\* list_del leaves the deleted node alone and takes it out of every walk.
LEMMA DelLinked ==
  ASSUME NEW S, NEW L, Linked(L, S), NEW n \in S
  PROVE  Linked(list_del(L, n), S) /\ Alone(list_del(L, n), n)
<1> DEFINE D == list_del(L, n)
<1>1. /\ D.next \in [S -> S] /\ D.prev \in [S -> S]
      /\ D = [next |-> D.next, prev |-> D.prev]
      /\ Alone(D, n)
  BY DEF Linked, list_del, Alone
<1>2. ASSUME NEW m \in S
      PROVE  D.prev[D.next[m]] = m /\ D.next[D.prev[m]] = m
  BY DEF Linked, list_del
<1>3. QED
  BY <1>1, <1>2 DEF Linked

LEMMA DelOrbit ==
  ASSUME NEW S, NEW L, Linked(L, S), NEW n \in S, NEW a \in S, a # n
  PROVE  Orbit(list_del(L, n).next, S, a) = Orbit(L.next, S, a) \ {n}
<1> DEFINE O == Orbit(L.next, S, a)
           next2 == list_del(L, n).next
           T == Orbit(next2, S, a)
           p == L.prev[n]
<1>1. /\ L.next \in [S -> S] /\ next2 \in [S -> S] /\ p \in S /\ L.next[p] = n
      /\ next2[n] = n
      /\ p # n => next2[p] = L.next[n] /\ L.next[n] # n
      /\ \A m \in S \ {n, p} : next2[m] = L.next[m] /\ L.next[m] # n
  BY DEF Linked, list_del
<1> HIDE DEF next2, p
<1>2. O \in SUBSET S /\ a \in O /\ Closed(L.next, O)
  BY <1>1, OrbitClosed
<1>3. T \in SUBSET S /\ a \in T /\ Closed(next2, T)
  BY <1>1, OrbitClosed
<1>4. T \subseteq O \ {n}
  <2>1. Closed(next2, O \ {n})
    <3> SUFFICES ASSUME NEW m \in O \ {n} PROVE next2[m] \in O \ {n}
      BY DEF Closed
    <3>0. L.next[m] \in O /\ m \in S
      BY <1>2 DEF Closed
    <3>1. CASE m = p
      <4>1. n \in O
        BY <1>1, <3>0, <3>1
      <4>2. L.next[n] \in O
        BY <4>1, <1>2 DEF Closed
      <4>3. QED
        BY <1>1, <3>1, <4>2
    <3>2. CASE m # p
      BY <1>1, <3>0, <3>2
    <3>3. QED
      BY <3>1, <3>2
  <2>2. QED
    BY <1>1, <1>2, <2>1, OrbitLeast
<1>5. O \subseteq T \cup {n}
  <2>1. CASE p \in T
    <3>1. n = p \/ L.next[n] \in T
      BY <1>1, <1>3, <2>1 DEF Closed
    <3>2. Closed(L.next, T \cup {n})
      <4> SUFFICES ASSUME NEW m \in T \cup {n} PROVE L.next[m] \in T \cup {n}
        BY DEF Closed
      <4>1. CASE m = n
        BY <1>1, <3>1, <4>1
      <4>2. CASE m = p
        BY <1>1, <4>2
      <4>3. CASE m # n /\ m # p
        BY <1>1, <1>3, <4>3 DEF Closed
      <4>4. QED
        BY <4>1, <4>2, <4>3
    <3>3. QED
      BY <1>1, <1>3, <3>2, OrbitLeast
  <2>2. CASE p \notin T
    <3>1. n \notin T
      <4>1. T \subseteq O \ {n}
        BY <1>4
      <4>2. QED
        BY <4>1
    <3>2. Closed(L.next, T)
      BY <1>1, <1>3, <2>2, <3>1 DEF Closed
    <3>3. QED
      BY <1>1, <1>3, <3>2, OrbitLeast
  <2>3. QED
    BY <2>1, <2>2
<1>6. n \notin T
  BY <1>4
<1> HIDE DEF O, T
<1>7. T = O \ {n}
  BY <1>4, <1>5, <1>6
<1>8. QED
  BY <1>7 DEF T, O, next2

\* Node n, which is alone, is linked between the node p and its successor.
Inserted(L, M, S, p, n) ==
  /\ Linked(L, S) /\ Linked(M, S) /\ p \in S /\ n \in S /\ p # n /\ Alone(L, n)
  /\ M.next = [L.next EXCEPT ![n] = L.next[p], ![p] = n]

\* list_add_front links a node that is alone behind the anchor,
LEMMA AddFrontInserts ==
  ASSUME NEW S, NEW L, Linked(L, S),
         NEW anchor \in S, NEW n \in S, Alone(L, n), n # anchor
  PROVE  /\ Inserted(L, list_add_front(L, anchor, n), S, anchor, n)
         /\ list_front(list_add_front(L, anchor, n), anchor) = n
<1> DEFINE A == list_add_front(L, anchor, n)
<1>1. /\ A.next \in [S -> S] /\ A.prev \in [S -> S]
      /\ A = [next |-> A.next, prev |-> A.prev]
      /\ A.next[anchor] = n
      /\ A.next = [L.next EXCEPT ![n] = L.next[anchor], ![anchor] = n]
  BY DEF Linked, list_add_front
<1>2. ASSUME NEW m \in S
      PROVE  A.prev[A.next[m]] = m /\ A.next[A.prev[m]] = m
  BY DEF Linked, list_add_front, Alone
<1>3. QED
  BY <1>1, <1>2 DEF Linked, Inserted, list_front

\* and list_add_back behind the last node of the ring.
LEMMA AddBackInserts ==
  ASSUME NEW S, NEW L, Linked(L, S),
         NEW anchor \in S, NEW n \in S, Alone(L, n), n # anchor
  PROVE  /\ Inserted(L, list_add_back(L, anchor, n), S, L.prev[anchor], n)
         /\ list_add_back(L, anchor, n).prev[anchor] = n
<1> DEFINE A == list_add_back(L, anchor, n)
<1>1. /\ A.next \in [S -> S] /\ A.prev \in [S -> S]
      /\ A = [next |-> A.next, prev |-> A.prev]
      /\ A.prev[anchor] = n
      /\ L.prev[anchor] \in S /\ L.prev[anchor] # n /\ L.next[L.prev[anchor]] = anchor
      /\ A.next = [L.next EXCEPT ![n] = anchor, ![L.prev[anchor]] = n]
  BY DEF Linked, list_add_back, Alone
<1>2. ASSUME NEW m \in S
      PROVE  A.prev[A.next[m]] = m /\ A.next[A.prev[m]] = m
  BY DEF Linked, list_add_back, Alone
<1>3. QED
  BY <1>1, <1>2 DEF Linked, Inserted

\* The walks that met p meet n as well, and no other walk changes.
LEMMA InsertedOrbit ==
  ASSUME NEW S, NEW L, NEW M, NEW p, NEW n, Inserted(L, M, S, p, n), NEW a \in S, a # n
  PROVE  Orbit(M.next, S, a) =
           Orbit(L.next, S, a) \cup (IF p \in Orbit(L.next, S, a) THEN {n} ELSE {})
<1> DEFINE O == Orbit(L.next, S, a)
           T == Orbit(M.next, S, a)
<1>1. /\ L.next \in [S -> S] /\ M.next \in [S -> S] /\ p \in S /\ n \in S /\ p # n
      /\ L.next[n] = n /\ M.next[n] = L.next[p] /\ M.next[p] = n
      /\ \A m \in S \ {n, p} : M.next[m] = L.next[m] /\ L.next[m] # n
      /\ L.next[p] # n
  BY DEF Linked, Inserted, Alone
<1>2. O \in SUBSET S /\ a \in O /\ Closed(L.next, O)
  BY <1>1, OrbitClosed
<1>3. T \in SUBSET S /\ a \in T /\ Closed(M.next, T)
  BY <1>1, OrbitClosed
<1>4. n \notin O
  <2>1. Closed(L.next, O \ {n})
    BY <1>1, <1>2 DEF Closed
  <2>2. O \subseteq O \ {n}
    BY <1>1, <1>2, <2>1, OrbitLeast
  <2>3. QED
    BY <2>2
<1>5. T \subseteq O \cup (IF p \in O THEN {n} ELSE {})
  <2>1. CASE p \in O
    <3>1. Closed(M.next, O \cup {n})
      BY <1>1, <1>2, <2>1 DEF Closed
    <3>2. QED
      BY <1>1, <1>2, <2>1, <3>1, OrbitLeast
  <2>2. CASE p \notin O
    <3>1. Closed(M.next, O)
      BY <1>1, <1>2, <1>4, <2>2 DEF Closed
    <3>2. QED
      BY <1>1, <1>2, <2>2, <3>1, OrbitLeast
  <2>3. QED
    BY <2>1, <2>2
<1>6. O \subseteq T
  <2>1. Closed(L.next, T \ {n})
    <3> SUFFICES ASSUME NEW m \in T \ {n} PROVE L.next[m] \in T \ {n}
      BY DEF Closed
    <3>1. CASE m = p
      <4>1. n \in T
        BY <1>1, <1>3, <3>1 DEF Closed
      <4>2. L.next[p] \in T
        BY <1>1, <1>3, <4>1 DEF Closed
      <4>3. QED
        BY <1>1, <3>1, <4>2
    <3>2. CASE m # p
      BY <1>1, <1>3, <3>2 DEF Closed
    <3>3. QED
      BY <3>1, <3>2
  <2>2. O \subseteq T \ {n}
    BY <1>1, <1>3, <2>1, OrbitLeast
  <2>3. QED
    BY <2>2
<1>7. p \in O => n \in T
  BY <1>1, <1>3, <1>6 DEF Closed
<1> HIDE DEF O, T
<1>8. T = O \cup (IF p \in O THEN {n} ELSE {})
  BY <1>5, <1>6, <1>7
<1>9. QED
  BY <1>8 DEF T, O

\* From L to M node n changes to the ring of anchor: a walk from any other node
\* meets in M what it met in L, except for n, which it meets if it meets anchor.
Moved(L, M, S, n, anchor) ==
  \A a \in S \ {n} :
    Orbit(M.next, S, a) =
      (Orbit(L.next, S, a) \ {n}) \cup (IF anchor \in Orbit(L.next, S, a) THEN {n} ELSE {})

\* list_move, with which pbuf_alloc and pbuf_free pass a buffer between the
\* lists of the pool: whatever rings there are, all of them remain rings, the
\* node that is moved is the front of its new list, it is met by the walks of
\* that list only, and the walks meet every other node they met before.
THEOREM MoveKeepsRings ==
  ASSUME NEW S, NEW L, Linked(L, S), NEW anchor \in S, NEW n \in S, n # anchor
  PROVE  /\ Linked(list_move(L, n, anchor), S)
         /\ list_front(list_move(L, n, anchor), anchor) = n
         /\ Moved(L, list_move(L, n, anchor), S, n, anchor)
<1> DEFINE D == list_del(L, n)
           M == list_add_front(D, anchor, n)
<1>1. Linked(D, S) /\ Alone(D, n)
  BY DelLinked
<1> HIDE DEF D
<1>2. Inserted(D, M, S, anchor, n) /\ list_front(M, anchor) = n
  BY <1>1, AddFrontInserts
<1>3. Linked(M, S)
  BY <1>2 DEF Inserted
<1> HIDE DEF M
<1>4. ASSUME NEW a \in S \ {n}
      PROVE  Orbit(M.next, S, a) = (Orbit(L.next, S, a) \ {n})
                 \cup (IF anchor \in Orbit(L.next, S, a) THEN {n} ELSE {})
  <2>1. Orbit(D.next, S, a) = Orbit(L.next, S, a) \ {n}
    BY DelOrbit DEF D
  <2>2. Orbit(M.next, S, a) =
          Orbit(D.next, S, a) \cup (IF anchor \in Orbit(D.next, S, a) THEN {n} ELSE {})
    BY <1>2, InsertedOrbit
  <2>3. QED
    BY <2>1, <2>2
<1>5. Moved(L, M, S, n, anchor)
  BY <1>4 DEF Moved
<1>6. M = list_move(L, n, anchor)
  BY DEF M, D, list_move
<1>7. QED
  BY <1>2, <1>3, <1>5, <1>6

--------------------------------------------------------------------------------
(* pbuf_pool_init: the loop that links the entries into free_list.         *)

LEMMA Least ==
  ASSUME NEW T \in SUBSET Nat, T # {}
  PROVE  \E x \in T : \A y \in T : x <= y
<1>1. PICK x \in T : \A y \in T : ~(<<y, x>> \in OpToRel(<, Nat))
  BY NatLessThanWellFounded, WFMin
<1>2. \A y \in T : ~(y < x)
  BY <1>1 DEF OpToRel
<1>3. QED
  BY <1>2

\* The entries of the pool are numbered once each.
LEMMA Numbered ==
  /\ Cardinality(Bufs) \in Nat
  /\ objects \in [1..Cardinality(Bufs) -> Bufs]
  /\ \A i, j \in 1..Cardinality(Bufs) : objects[i] = objects[j] => i = j
  /\ \A b \in Bufs : \E i \in 1..Cardinality(Bufs) : objects[i] = b
<1> DEFINE N == Cardinality(Bufs)
           D == 1..N
           E == {objects[i] : i \in D}
<1>1. N \in Nat /\ ExistsBijection(D, Bufs) /\ IsFiniteSet(Bufs)
  BY PbufRingAssumption, FS_CardinalityType
<1>2. objects \in [D -> Bufs] /\ IsInjective(objects)
  <2>1. \E f \in [D -> Bufs] : IsInjective(f)
    BY <1>1 DEF ExistsBijection, Bijection, Injection
  <2>2. QED
    BY <2>1 DEF objects, SetToSeq
<1>3. IsFiniteSet(D) /\ Cardinality(D) = N
  BY <1>1, FS_Interval
<1> HIDE DEF N, D
<1>4. objects \in Bijection(D, E)
  BY <1>2 DEF Bijection, Injection, Surjection, IsInjective
<1>5. Cardinality(E) = N
  BY <1>3, <1>4, FS_Bijection DEF ExistsBijection
<1>6. E = Bufs
  BY <1>1, <1>2, <1>5, FS_Subset DEF N
<1>7. \A i, j \in D : objects[i] = objects[j] => i = j
  BY <1>2 DEF IsInjective
<1>8. QED
  BY <1>1, <1>2, <1>6, <1>7 DEF N, D

\* What one round makes of the links that the rounds before it have left.
Round(g, i) ==
  IF i = 0 THEN INIT_LIST(Bufs \cup Anchors)
           ELSE list_add_back(g[i - 1], "free_list", objects[i])

Rounds(g, k) == g = [i \in 0..k |-> Round(g, i)]

LEMMA RoundsExist ==
  ASSUME NEW n \in Nat
  PROVE  \E g : Rounds(g, n)
<1> DEFINE K == {k \in Nat : ~ \E g : Rounds(g, k)}
<1> SUFFICES ASSUME K # {} PROVE FALSE
  OBVIOUS
<1>1. PICK k \in K : \A j \in K : k <= j
  BY Least
<1>2. CASE k = 0
  <2> DEFINE h == [i \in 0..0 |-> INIT_LIST(Bufs \cup Anchors)]
  <2>1. Rounds(h, 0)
    BY DEF Rounds, Round
  <2>2. QED
    BY <1>2, <2>1
<1>3. CASE k # 0
  <2>1. k \in Nat /\ k - 1 \in Nat /\ ~(k <= k - 1)
    BY <1>3
  <2>2. k - 1 \notin K
    BY <1>1, <2>1
  <2>3. PICK g : Rounds(g, k - 1)
    BY <2>1, <2>2
  <2> DEFINE h == [i \in 0..k |-> IF i = k THEN Round(g, k) ELSE g[i]]
  <2>4. ASSUME NEW i \in 0..k PROVE h[i] = Round(h, i)
    <3>1. CASE i = k
      <4>1. h[i - 1] = g[i - 1] /\ i # 0
        BY <1>3, <2>1, <3>1
      <4>2. Round(h, k) = Round(g, k)
        BY <3>1, <4>1 DEF Round
      <4>3. QED
        BY <3>1, <4>2
    <3>2. CASE i # k
      <4>1. i \in 0..(k - 1)
        BY <2>1, <3>2
      <4>2. g[i] = Round(g, i)
        BY <2>3, <4>1 DEF Rounds
      <4>3. i # 0 => h[i - 1] = g[i - 1]
        BY <2>1, <3>2, <4>1
      <4>4. Round(h, i) = Round(g, i)
        BY <4>3 DEF Round
      <4>5. QED
        BY <3>2, <4>2, <4>4
    <3>3. QED
      BY <3>1, <3>2
  <2>5. h = [i \in 0..k |-> h[i]]
    OBVIOUS
  <2> HIDE DEF h
  <2>6. Rounds(h, k)
    BY <2>4, <2>5 DEF Rounds
  <2>7. QED
    BY <2>6
<1>4. QED
  BY <1>2, <1>3

LEMMA PoolInitLoopDef ==
  \A i \in 0..Cardinality(Bufs) :
    PoolInitLoop[i] = IF i = 0 THEN INIT_LIST(Bufs \cup Anchors)
                      ELSE list_add_back(PoolInitLoop[i - 1], "free_list", objects[i])
<1>1. \E g : Rounds(g, Cardinality(Bufs))
  BY Numbered, RoundsExist
<1>2. PoolInitLoop = CHOOSE g : Rounds(g, Cardinality(Bufs))
  BY DEF PoolInitLoop, Rounds, Round
<1>3. Rounds(PoolInitLoop, Cardinality(Bufs))
  BY <1>1, <1>2
<1>4. QED
  BY <1>3 DEF Rounds, Round

Nodes == Bufs \cup Anchors

\* The links after i rounds of pbuf_pool_init: a walk from free_list meets the
\* first i entries of the pool, and every other entry and use_list are alone.
LoopInv(L, i) ==
  /\ Linked(L, Nodes)
  /\ Orbit(L.next, Nodes, "free_list") = {"free_list"} \cup {objects[j] : j \in 1..i}
  /\ L.prev["free_list"] \in Orbit(L.next, Nodes, "free_list")
  /\ \A j \in 1..Cardinality(Bufs) : i < j => Alone(L, objects[j])
  /\ Alone(L, "use_list")

LEMMA LoopBase == LoopInv(INIT_LIST(Nodes), 0)
<1> DEFINE L == INIT_LIST(Nodes)
<1>1. Linked(L, Nodes) /\ \A n \in Nodes : Alone(L, n)
  BY InitLinked
<1>2. "free_list" \in Nodes /\ "use_list" \in Nodes
      /\ \A j \in 1..Cardinality(Bufs) : objects[j] \in Nodes
  BY Numbered DEF Nodes, Anchors
<1> HIDE DEF L
<1>3. Orbit(L.next, Nodes, "free_list") = {"free_list"}
  BY <1>1, <1>2, AloneOrbit
<1>4. L.prev["free_list"] = "free_list"
  BY <1>1, <1>2 DEF Alone
<1>5. {objects[j] : j \in 1..0} = {}
  OBVIOUS
<1>6. QED
  BY <1>1, <1>2, <1>3, <1>4, <1>5 DEF LoopInv, L

LEMMA LoopStep ==
  ASSUME NEW i \in 1..Cardinality(Bufs), NEW L, LoopInv(L, i - 1)
  PROVE  LoopInv(list_add_back(L, "free_list", objects[i]), i)
<1> DEFINE n == objects[i]
           M == list_add_back(L, "free_list", n)
           p == L.prev["free_list"]
<1>1. /\ "free_list" \in Nodes /\ "use_list" \in Nodes /\ n \in Nodes
      /\ n # "free_list" /\ n # "use_list"
      /\ \A j \in 1..Cardinality(Bufs) : objects[j] \in Nodes /\ objects[j] \notin Anchors
  BY Numbered, PbufRingAssumption DEF Nodes, Anchors
<1>2. Linked(L, Nodes) /\ Alone(L, n) /\ Alone(L, "use_list")
  <2>1. i - 1 < i
    BY Numbered
  <2>2. QED
    BY <2>1 DEF LoopInv
<1>3. Inserted(L, M, Nodes, p, n) /\ M.prev["free_list"] = n
  BY <1>1, <1>2, AddBackInserts
<1>4. Orbit(M.next, Nodes, "free_list") = {"free_list"} \cup {objects[j] : j \in 1..i}
  <2>1. Orbit(M.next, Nodes, "free_list") = Orbit(L.next, Nodes, "free_list") \cup {n}
    <3> HIDE DEF M, p, n
    <3>1. p \in Orbit(L.next, Nodes, "free_list")
      BY DEF LoopInv, p
    <3>2. Orbit(M.next, Nodes, "free_list") =
            Orbit(L.next, Nodes, "free_list")
              \cup (IF p \in Orbit(L.next, Nodes, "free_list") THEN {n} ELSE {})
      BY <1>1, <1>3, InsertedOrbit
    <3>3. QED
      BY <3>1, <3>2
  <2>2. 1..i = (1..(i - 1)) \cup {i}
    BY Numbered
  <2>3. {objects[j] : j \in 1..i} = {objects[j] : j \in 1..(i - 1)} \cup {n}
    BY <2>2, Zenon
  <2>4. Orbit(L.next, Nodes, "free_list") = {"free_list"} \cup {objects[j] : j \in 1..(i - 1)}
    BY DEF LoopInv
  <2> HIDE DEF M
  <2>5. QED
    BY <2>1, <2>3, <2>4
<1>5. ASSUME NEW m \in Nodes, m # n, m # "free_list", Alone(L, m) PROVE Alone(M, m)
  <2>1. m # p
    BY <1>1, <1>2, <1>5 DEF Linked, Alone
  <2>2. QED
    BY <1>1, <1>2, <1>5, <2>1 DEF Linked, Alone, list_add_back
<1>6. Alone(M, "use_list")
  BY <1>1, <1>2, <1>5 DEF Anchors
<1>7. ASSUME NEW j \in 1..Cardinality(Bufs), i < j PROVE Alone(M, objects[j])
  <2>1. i - 1 < j /\ i # j
    BY <1>7, Numbered
  <2>2. Alone(L, objects[j]) /\ objects[j] # n
    BY <2>1, Numbered DEF LoopInv
  <2>3. QED
    BY <1>1, <1>5, <2>2 DEF Anchors
<1>8. n \in {objects[j] : j \in 1..i}
  BY Numbered
<1> HIDE DEF M, n, p
<1>9. LoopInv(M, i)
  BY <1>3, <1>4, <1>6, <1>7, <1>8 DEF LoopInv, Inserted
<1>10. QED
  BY <1>9 DEF M, n

LEMMA LoopInvHolds == LoopInv(PoolInitLoop[Cardinality(Bufs)], Cardinality(Bufs))
<1> DEFINE N == Cardinality(Bufs)
           K == {k \in 0..N : ~ LoopInv(PoolInitLoop[k], k)}
<1>1. N \in Nat
  BY Numbered
<1>2. ASSUME K # {} PROVE FALSE
  <2>1. PICK k \in K : \A j \in K : k <= j
    <3>1. K \in SUBSET Nat
      BY <1>1
    <3>2. QED
      BY <1>2, <3>1, Least
  <2>2. CASE k = 0
    BY <1>1, <2>1, <2>2, LoopBase, PoolInitLoopDef DEF Nodes
  <2>3. CASE k # 0
    <3>1. k \in 1..N /\ k - 1 \in 0..N /\ ~(k <= k - 1)
      BY <1>1, <2>1, <2>3
    <3>2. LoopInv(PoolInitLoop[k - 1], k - 1)
      BY <2>1, <3>1
    <3>3. PoolInitLoop[k] = list_add_back(PoolInitLoop[k - 1], "free_list", objects[k])
      BY <1>1, <2>3, <3>1, PoolInitLoopDef
    <3>4. LoopInv(PoolInitLoop[k], k)
      BY <3>1, <3>2, <3>3, LoopStep
    <3>5. QED
      BY <3>4
  <2>4. QED
    BY <2>2, <2>3
<1>3. N \in 0..N
  BY <1>1
<1>4. QED
  BY <1>2, <1>3

--------------------------------------------------------------------------------
RingInv == PoolInv /\ Linked(lnode, Nodes) /\ RingsHold

\* Walk meets the orbit of the anchor, except for the anchor.
LEMMA WalkIsOrbit ==
  ASSUME NEW L, Linked(L, Nodes), NEW a \in Nodes, NEW B, a \notin B
  PROVE  {n \in (Bufs \cup Anchors) \ {a} :
            \A S \in SUBSET (Bufs \cup Anchors) :
              (a \in S /\ \A m \in S : L.next[m] \in S) => n \in S} = B
         <=> Orbit(L.next, Nodes, a) = B \cup {a}
<1> DEFINE W == {n \in (Bufs \cup Anchors) \ {a} :
                   \A S \in SUBSET (Bufs \cup Anchors) :
                     (a \in S /\ \A m \in S : L.next[m] \in S) => n \in S}
<1>1. W = Orbit(L.next, Nodes, a) \ {a}
  BY DEF Orbit, Closed, Nodes
<1>2. a \in Orbit(L.next, Nodes, a)
  BY OrbitClosed DEF Linked
<1> HIDE DEF W
<1>3. W = B <=> Orbit(L.next, Nodes, a) = B \cup {a}
  BY <1>1, <1>2
<1>4. QED
  BY <1>3 DEF W

RingOrbits(L, free, use) ==
  /\ Orbit(L.next, Nodes, "free_list") = free \cup {"free_list"}
  /\ Orbit(L.next, Nodes, "use_list") = use \cup {"use_list"}

LEMMA RingsByOrbit ==
  ASSUME Linked(lnode, Nodes), TypeOK
  PROVE  RingsHold <=> RingOrbits(lnode, free_list, use_list)
<1>1. /\ "free_list" \in Nodes /\ "use_list" \in Nodes
      /\ "free_list" \notin free_list /\ "use_list" \notin use_list
  BY PbufRingAssumption DEF Nodes, Anchors, TypeOK
<1>2. RingsHold <=> Walk("free_list") = free_list /\ Walk("use_list") = use_list
  BY DEF RingsHold, Linked, Nodes
<1>3. Walk("free_list") = free_list
        <=> Orbit(lnode.next, Nodes, "free_list") = free_list \cup {"free_list"}
  BY <1>1, WalkIsOrbit DEF Walk
<1>4. Walk("use_list") = use_list
        <=> Orbit(lnode.next, Nodes, "use_list") = use_list \cup {"use_list"}
  BY <1>1, WalkIsOrbit DEF Walk
<1>5. QED
  BY <1>2, <1>3, <1>4 DEF RingOrbits

LEMMA RingsByOrbitNext ==
  ASSUME Linked(lnode', Nodes), TypeOK'
  PROVE  RingsHold' <=> RingOrbits(lnode', free_list', use_list')
<1>1. /\ "free_list" \in Nodes /\ "use_list" \in Nodes
      /\ "free_list" \notin free_list' /\ "use_list" \notin use_list'
  BY PbufRingAssumption DEF Nodes, Anchors, TypeOK
<1>2. RingsHold' <=> (Walk("free_list") = free_list /\ Walk("use_list") = use_list)'
  BY DEF RingsHold, Linked, Nodes
<1>3. (Walk("free_list") = free_list)'
        <=> Orbit(lnode'.next, Nodes, "free_list") = free_list' \cup {"free_list"}
  BY <1>1, WalkIsOrbit DEF Walk
<1>4. (Walk("use_list") = use_list)'
        <=> Orbit(lnode'.next, Nodes, "use_list") = use_list' \cup {"use_list"}
  BY <1>1, WalkIsOrbit DEF Walk
<1>5. QED
  BY <1>2, <1>3, <1>4 DEF RingOrbits

\* list_move as the pool uses it: of buffer n to the list called name.
LEMMA RingMove ==
  ASSUME RingInv, NEW n \in Bufs, NEW name \in Anchors, lnode' = list_move(lnode, n, name),
         PoolInv',
         name = "use_list" => free_list' = free_list \ {n} /\ use_list' = use_list \cup {n},
         name = "free_list" => use_list' = use_list \ {n} /\ free_list' = free_list \cup {n}
  PROVE  RingInv'
<1>1. /\ n \in Nodes /\ n \notin Anchors /\ name \in Nodes /\ name # n
      /\ "free_list" \in Nodes \ {n} /\ "use_list" \in Nodes \ {n}
  BY PbufRingAssumption DEF Nodes, Anchors
<1> DEFINE free == Orbit(lnode.next, Nodes, "free_list")
           use == Orbit(lnode.next, Nodes, "use_list")
           free2 == Orbit(lnode'.next, Nodes, "free_list")
           use2 == Orbit(lnode'.next, Nodes, "use_list")
<1>2. Linked(lnode, Nodes) /\ TypeOK /\ TypeOK'
  BY DEF RingInv, PoolInv
<1>3. free = free_list \cup {"free_list"} /\ use = use_list \cup {"use_list"}
  BY <1>2, RingsByOrbit DEF RingInv, RingOrbits
<1>4. "use_list" \notin free /\ "free_list" \notin use
  BY <1>2, <1>3, PbufRingAssumption DEF TypeOK, Anchors
<1>5. Linked(lnode', Nodes)
  BY <1>1, <1>2, MoveKeepsRings
<1>6. /\ free2 = (free \ {n}) \cup (IF name \in free THEN {n} ELSE {})
      /\ use2 = (use \ {n}) \cup (IF name \in use THEN {n} ELSE {})
  <2>1. \A a \in Nodes \ {n} :
          Orbit(lnode'.next, Nodes, a) =
            (Orbit(lnode.next, Nodes, a) \ {n})
              \cup (IF name \in Orbit(lnode.next, Nodes, a) THEN {n} ELSE {})
    <3>1. Moved(lnode, lnode', Nodes, n, name)
      BY <1>1, <1>2, MoveKeepsRings
    <3>2. QED
      BY <3>1 DEF Moved
  <2>2. QED
    BY <1>1, <2>1
<1>7. free2 = free_list' \cup {"free_list"} /\ use2 = use_list' \cup {"use_list"}
  <2> HIDE DEF free, use, free2, use2
  <2>1. CASE name = "use_list"
    BY <1>1, <1>3, <1>4, <1>6, <2>1
  <2>2. CASE name = "free_list"
    BY <1>1, <1>3, <1>4, <1>6, <2>2
  <2>3. QED
    BY <2>1, <2>2 DEF Anchors
<1>8. RingsHold'
  BY <1>2, <1>5, <1>7, RingsByOrbitNext DEF RingOrbits
<1>9. QED
  BY <1>5, <1>8 DEF RingInv

LEMMA RingImplementsPool == [RingNext]_ringVars => [Next]_vars
BY DEF RingNext, RingTake, RingAllocMove, RingFreeMove, RingOther, Next, ringVars

LEMMA RingInvInit == RingInit => RingInv
<1> SUFFICES ASSUME RingInit PROVE RingInv
  OBVIOUS
<1>1. PoolInv
  BY PoolInit DEF RingInit
<1>2. LoopInv(lnode, Cardinality(Bufs))
  BY LoopInvHolds DEF RingInit
<1>3. Linked(lnode, Nodes)
  BY <1>2 DEF LoopInv
<1>4. Orbit(lnode.next, Nodes, "use_list") = {"use_list"}
  <2>1. "use_list" \in Nodes
    BY DEF Nodes, Anchors
  <2>2. QED
    BY <1>2, <1>3, <2>1, AloneOrbit DEF LoopInv
<1>5. {objects[j] : j \in 1..Cardinality(Bufs)} = Bufs
  BY Numbered
<1>6. RingOrbits(lnode, free_list, use_list)
  BY <1>2, <1>4, <1>5 DEF RingOrbits, LoopInv, RingInit, Init
<1>7. QED
  BY <1>1, <1>3, <1>6, RingsByOrbit DEF RingInv, PoolInv

LEMMA RingInvNext == RingInv /\ [RingNext]_ringVars => RingInv'
<1> SUFFICES ASSUME RingInv, [RingNext]_ringVars PROVE RingInv'
  OBVIOUS
<1>1. PoolInv'
  BY RingImplementsPool, PoolNext DEF RingInv
<1>2. ASSUME UNCHANGED <<free_list, use_list, lnode>> PROVE RingInv'
  BY <1>1, <1>2 DEF RingInv, RingsHold, Walk
<1>3. ASSUME NEW t \in Threads, RingAllocMove(t) PROVE RingInv'
  <2>1. new[t] \in Bufs
    BY <1>3 DEF RingInv, PoolInv, PtrInv, TypeOK, RingAllocMove, AllocMove
  <2>2. QED
    BY <1>1, <1>3, <2>1, RingMove DEF RingAllocMove, AllocMove, Anchors
<1>4. ASSUME NEW t \in Threads, RingFreeMove(t) PROVE RingInv'
  <2>1. pb[t] \in Bufs
    BY <1>4 DEF RingInv, PoolInv, PtrInv, TypeOK, RingFreeMove, FreeMove, Freeing
  <2>2. QED
    BY <1>1, <1>4, <2>1, RingMove DEF RingFreeMove, FreeMove, Anchors
<1>5. ASSUME NEW t \in Threads, RingTake(t) \/ RingOther(t)
      PROVE  UNCHANGED <<free_list, use_list, lnode>>
  BY <1>5 DEF RingTake, RingOther, AllocTake, AllocEnter, AllocLock, AllocUnlock, CopyEnter,
     CopyBytes, CopySetOne, pbuf_hold, FreeDec, FreeLock, FreeUnlock, Lock
<1>6. CASE UNCHANGED ringVars
  BY <1>2, <1>6 DEF ringVars, vars
<1>7. QED
  BY <1>2, <1>3, <1>4, <1>5, <1>6 DEF RingNext

\* The two rings of the pool agree in both directions, and a walk along each of
\* them meets exactly the buffers that are on that list.
THEOREM PbufRingsHold == RingSpec => []RingsHold
<1>1. RingInv => RingsHold
  BY DEF RingInv
<1>2. QED
  BY <1>1, RingInvInit, RingInvNext, PTL DEF RingSpec

\* What pbuf_alloc reads of the links is what it means to ask of the pool:
\* list_empty tells whether there is a free buffer, and if there is one, then
\* list_front is one.
FrontIsFree ==
  /\ list_empty(lnode, "free_list") <=> free_list = {}
  /\ free_list # {} => list_front(lnode, "free_list") \in free_list

\* pbuf_alloc fails when no buffer is free and only then, and takes a free one
\* otherwise, in every state of the pool over its linked lists.
THEOREM PbufRingFrontIsFree == RingSpec => []FrontIsFree
<1>1. RingInv => FrontIsFree
  <2> SUFFICES ASSUME RingInv PROVE FrontIsFree
    OBVIOUS
  <2> DEFINE O == Orbit(lnode.next, Nodes, "free_list")
  <2>1. O = free_list \cup {"free_list"} /\ "free_list" \notin free_list
    BY RingsByOrbit, PbufRingAssumption DEF RingInv, PoolInv, RingOrbits, TypeOK, Anchors
  <2>2. lnode.next \in [Nodes -> Nodes] /\ "free_list" \in Nodes
    BY DEF RingInv, Linked, Nodes, Anchors
  <2>3. lnode.next["free_list"] \in O
    BY <2>2, OrbitClosed DEF Closed
  <2>4. ASSUME lnode.next["free_list"] = "free_list" PROVE O \subseteq {"free_list"}
    <3>1. Closed(lnode.next, {"free_list"})
      BY <2>4 DEF Closed
    <3>2. QED
      BY <2>2, <3>1, OrbitLeast
  <2> HIDE DEF O
  <2>5. QED
    BY <2>1, <2>3, <2>4 DEF FrontIsFree, list_empty, list_front
<1>2. QED
  BY <1>1, RingInvInit, RingInvNext, PTL DEF RingSpec

\* The pool over its linked lists implements the pool whose lists are sets, so
\* that every theorem about PbufPool holds of it.
THEOREM PbufRingImplementsPool == RingSpec => Spec
<1>1. RingInit => Init
  BY DEF RingInit
<1>2. QED
  BY <1>1, RingImplementsPool, PTL DEF RingSpec, Spec
================================================================================
