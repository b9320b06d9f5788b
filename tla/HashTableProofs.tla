--------------------------- MODULE HashTableProofs ---------------------------
(***************************************************************************)
(* Proofs about HashTable, for any threads, elements, keys, hash function  *)
(* and number of slots, when an element is hashed and unhashed by the      *)
(* thread that created it.                                                 *)
(***************************************************************************)
EXTENDS HashTable, FiniteSetTheorems, TLAPS

\* The discipline of the clients: only the owner of an element unhashes it.
OwnersUnhash == "unhash_any" \notin Ops

(* The inductive invariant.                                                *)

Writing == {"hash_scan", "hash_link", "unhash_del", "unhash_put", "walk"}
Reading == {"lookup_scan", "lookup_hold", "walk_rd"}

LockInv ==
  /\ \A t \in Threads : pc[t] \in Writing => writer[slot[t]] = t
  /\ \A t \in Threads : pc[t] \in Reading => t \in readers[slot[t]]
  /\ \A s \in Slots : writer[s] # NoThread => readers[s] = {}

Hashing == {"hash_lock", "hash_scan", "hash_link"}
Unhashing == {"unhash_lock", "unhash_del"}

OwnerInv ==
  /\ \A t \in Threads : pc[t] \in Hashing \cup Unhashing \cup {"unhash_put"} =>
       he[t] \in Elems /\ owner[he[t]] = t
  /\ \A t \in Threads : he[t] # NoElem => owner[he[t]] # NoThread
  /\ \A e \in Linked \cup freed : owner[e] # NoThread

PlaceInv ==
  /\ \A t \in Threads : pc[t] \in Hashing =>
       he[t] \notin Linked /\ key[he[t]] \in Keys /\ slot[t] = get_slot(key[he[t]])
  /\ \A t \in Threads : pc[t] \in Unhashing =>
       he[t] \in Linked /\ slot[t] = get_slot(key[he[t]])
  /\ \A t \in Threads : pc[t] = "unhash_put" => he[t] \notin Linked
  /\ \A t \in Threads : pc[t] = "hash_link" =>
       \A e \in chain[slot[t]] : key[e] # key[he[t]]
  /\ \A t \in Threads : pc[t] = "lookup_hold" => he[t] \in chain[slot[t]]
  /\ \A t \in Threads : pc[t] \in {"lookup_lock", "lookup_scan"} => he[t] = NoElem
  /\ \A t \in Threads : pc[t] # "free_locked"
  /\ table # "up" => \A t \in Threads : pc[t] \in {"idle", "free"}

FreeInv ==
  /\ \A e \in freed : refcount[e] = 0
  /\ \A t \in Threads : pc[t] = "free" => he[t] \in Elems \ freed /\ refcount[he[t]] = 0
  /\ \A t, u \in Threads : pc[t] = "free" /\ pc[u] = "free" /\ he[t] = he[u] => t = u

TableInv ==
  TypeOK /\ LockInv /\ OwnerInv /\ PlaceInv /\ KeysUnique /\ FreeInv /\ RefsCounted

--------------------------------------------------------------------------------

LEMMA Consts ==
  /\ mask \in Nat /\ 0 \in Slots
  /\ \A k \in Keys : get_slot(k) \in Slots
  /\ NoElem \notin Elems \cup Keys /\ NoThread \notin Threads
BY HashTableAssumption DEF Slots, get_slot

\* What the counts say of a single element.
LEMMA Counted ==
  ASSUME RefsCounted, NEW e \in Elems
  PROVE  /\ IsFiniteSet(Holders(e)) /\ Cardinality(Holders(e)) \in Nat
         /\ refcount[e] = Cardinality(Holders(e)) + (IF InTable(e) THEN 1 ELSE 0)
         /\ Holders(e) # {} => refcount[e] >= 1
         /\ InTable(e) => refcount[e] >= 1
         /\ InTable(e) /\ Holders(e) # {} => refcount[e] >= 2
<1>1. Holders(e) \in SUBSET Threads
  BY DEF Holders
<1>2. IsFiniteSet(Holders(e)) /\ Cardinality(Holders(e)) \in Nat
  BY <1>1, HashTableAssumption, FS_Subset, FS_CardinalityType
<1>3. Holders(e) # {} => Cardinality(Holders(e)) >= 1
  BY <1>2, FS_EmptySet
<1>4. QED
  BY <1>2, <1>3 DEF RefsCounted

LEMMA InitStep ==
  ASSUME TableInv, OwnersUnhash, NEW t \in Threads, NEW e \in Elems, hashelm_init(t, e)
  PROVE  TableInv'
<1> USE Consts DEF hashelm_init, tableVars, lockVars, walkVars, TableInv
<1>1. TypeOK'
  BY DEF TypeOK, Labels
<1>2. LockInv'
  BY DEF TypeOK, LockInv, Writing, Reading
<1>3. OwnerInv'
  BY DEF TypeOK, OwnerInv, Hashing, Unhashing, Linked
<1>4. PlaceInv'
  BY DEF TypeOK, PlaceInv, Hashing, Unhashing, Linked, get_slot
<1>5. KeysUnique'
  BY DEF TypeOK, KeysUnique, Linked, get_slot
<1>6. FreeInv'
  BY DEF TypeOK, FreeInv, OwnerInv
<1>7. RefsCounted'
  <2> SUFFICES ASSUME NEW x \in Elems
               PROVE  (refcount[x] = Cardinality(Holders(x)) + (IF InTable(x) THEN 1 ELSE 0))'
    BY DEF RefsCounted
  <2>1. CASE x # e
    <3>1. Holders(x)' = Holders(x)
      BY <2>1 DEF TypeOK, Holders
    <3>2. InTable(x)' <=> InTable(x)
      BY <2>1 DEF TypeOK, InTable, Linked
    <3>3. refcount'[x] = refcount[x]
      BY <2>1 DEF TypeOK
    <3>4. QED
      BY <3>1, <3>2, <3>3 DEF RefsCounted
  <2>2. CASE x = e
    <3>1. Holders(x)' = {t}
      BY <2>2 DEF TypeOK, Holders, OwnerInv
    <3>2. ~InTable(x)'
      BY <2>2 DEF TypeOK, InTable, Linked, OwnerInv, Hashing, Unhashing
    <3>3. refcount'[x] = 1
      BY <2>2 DEF TypeOK
    <3>4. Cardinality(Holders(x)') = 1
      BY <3>1, FS_Singleton
    <3>5. QED
      BY <3>2, <3>3, <3>4
  <2>3. QED
    BY <2>1, <2>2
<1>8. QED
  BY <1>1, <1>2, <1>3, <1>4, <1>5, <1>6, <1>7

LEMMA HoldStep ==
  ASSUME TableInv, OwnersUnhash, NEW t \in Threads, NEW u \in Threads, hashelm_hold(t, u)
  PROVE  TableInv'
<1> USE Consts DEF hashelm_hold, tableVars, lockVars, walkVars, TableInv
<1>1. TypeOK'
  BY DEF TypeOK, Labels
<1>2. LockInv'
  BY DEF TypeOK, LockInv, Writing, Reading
<1>3. OwnerInv'
  BY DEF TypeOK, OwnerInv, Hashing, Unhashing, Linked
<1>4. PlaceInv'
  BY DEF TypeOK, PlaceInv, Hashing, Unhashing, Linked, get_slot
<1>5. KeysUnique'
  BY DEF TypeOK, KeysUnique, Linked, get_slot
<1>6. FreeInv'
  <2>1. he[t] \in Elems /\ t \in Holders(he[t])
    BY DEF TypeOK, Holders
  <2>2. refcount[he[t]] >= 1
    BY <2>1, Counted
  <2>3. QED
    BY <2>1, <2>2 DEF TypeOK, FreeInv
<1>7. RefsCounted'
  <2> SUFFICES ASSUME NEW x \in Elems
               PROVE  (refcount[x] = Cardinality(Holders(x)) + (IF InTable(x) THEN 1 ELSE 0))'
    BY DEF RefsCounted
  <2>1. CASE x # he[t]
    <3>1. Holders(x)' = Holders(x)
      BY <2>1 DEF TypeOK, Holders
    <3>2. InTable(x)' <=> InTable(x)
      BY <2>1 DEF TypeOK, InTable, Linked
    <3>3. refcount'[x] = refcount[x]
      BY <2>1 DEF TypeOK
    <3>4. QED
      BY <3>1, <3>2, <3>3 DEF RefsCounted
  <2>2. CASE x = he[t]
    <3>1. u \notin Holders(x) /\ Holders(x)' = Holders(x) \cup {u}
      BY <2>2 DEF TypeOK, Holders
    <3>2. InTable(x)' <=> InTable(x)
      BY <2>2 DEF TypeOK, InTable, Linked
    <3>3. refcount'[x] = refcount[x] + 1
      BY <2>2 DEF TypeOK
    <3>4. Cardinality(Holders(x)') = Cardinality(Holders(x)) + 1
      BY <3>1, Counted, FS_AddElement
    <3>5. QED
      BY <3>2, <3>3, <3>4, Counted
  <2>3. QED
    BY <2>1, <2>2
<1>8. QED
  BY <1>1, <1>2, <1>3, <1>4, <1>5, <1>6, <1>7

LEMMA LookupEnterStep ==
  ASSUME TableInv, OwnersUnhash, NEW t \in Threads, NEW k \in Keys, LookupEnter(t, k)
  PROVE  TableInv'
<1> USE Consts DEF LookupEnter, Goto, elemVars, tableVars, lockVars, walkVars, TableInv
<1>1. TypeOK'
  BY DEF TypeOK, Labels
<1>2. LockInv'
  BY DEF TypeOK, LockInv, Writing, Reading
<1>3. OwnerInv'
  BY DEF TypeOK, OwnerInv, Hashing, Unhashing, Linked
<1>4. PlaceInv'
  BY DEF TypeOK, PlaceInv, Hashing, Unhashing, Linked, get_slot
<1>5. KeysUnique'
  BY DEF TypeOK, KeysUnique, Linked, get_slot
<1>6. FreeInv'
  BY DEF TypeOK, FreeInv
<1>7. RefsCounted'
  BY SMTT(20) DEF TypeOK, RefsCounted, Holders, InTable, Linked
<1>8. QED
  BY <1>1, <1>2, <1>3, <1>4, <1>5, <1>6, <1>7

LEMMA FiniBeginStep ==
  ASSUME TableInv, OwnersUnhash, FiniBegin
  PROVE  TableInv'
<1> USE Consts DEF FiniBegin, elemVars, lockVars, walkVars, TableInv
<1>1. TypeOK'
  BY DEF TypeOK, Labels
<1>2. LockInv'
  BY DEF TypeOK, LockInv, Writing, Reading
<1>3. OwnerInv'
  BY DEF TypeOK, OwnerInv, Hashing, Unhashing, Linked
<1>4. PlaceInv'
  BY DEF TypeOK, PlaceInv, Hashing, Unhashing, Linked, get_slot
<1>5. KeysUnique'
  BY DEF TypeOK, KeysUnique, Linked, get_slot
<1>6. FreeInv'
  BY DEF TypeOK, FreeInv
<1>7. RefsCounted'
  BY DEF TypeOK, RefsCounted, Holders, InTable, Linked
<1>8. QED
  BY <1>1, <1>2, <1>3, <1>4, <1>5, <1>6, <1>7

LEMMA FiniEndStep ==
  ASSUME TableInv, OwnersUnhash, FiniEnd
  PROVE  TableInv'
<1> USE Consts DEF FiniEnd, elemVars, lockVars, walkVars, TableInv
<1>1. TypeOK'
  BY DEF TypeOK, Labels
<1>2. LockInv'
  BY DEF TypeOK, LockInv, Writing, Reading
<1>3. OwnerInv'
  BY DEF TypeOK, OwnerInv, Hashing, Unhashing, Linked
<1>4. PlaceInv'
  BY DEF TypeOK, PlaceInv, Hashing, Unhashing, Linked, get_slot
<1>5. KeysUnique'
  BY DEF TypeOK, KeysUnique, Linked, get_slot
<1>6. FreeInv'
  BY DEF TypeOK, FreeInv
<1>7. RefsCounted'
  BY DEF TypeOK, RefsCounted, Holders, InTable, Linked
<1>8. QED
  BY <1>1, <1>2, <1>3, <1>4, <1>5, <1>6, <1>7

LEMMA FiniElemStep ==
  ASSUME TableInv, OwnersUnhash, NEW s \in Slots, FiniElem(s)
  PROVE  TableInv'
<1> USE Consts DEF FiniElem, lockVars, walkVars, TableInv
<1>1. TypeOK'
  BY DEF TypeOK, Labels
<1>2. LockInv'
  BY DEF TypeOK, LockInv, Writing, Reading
<1>3. OwnerInv'
  BY DEF TypeOK, OwnerInv, Hashing, Unhashing, Linked
<1>4. PlaceInv'
  BY DEF TypeOK, PlaceInv, Hashing, Unhashing, Linked, get_slot
<1>5. KeysUnique'
  BY DEF TypeOK, KeysUnique, Linked, get_slot
<1>6. FreeInv'
  <2> PICK e \in chain[s] : FiniElem(s)!2!(e)
    OBVIOUS
  <2>1. e \in Elems /\ InTable(e)
    BY DEF TypeOK, InTable, Linked
  <2>2. refcount[e] >= 1
    BY <2>1, Counted
  <2>3. QED
    BY <2>1, <2>2 DEF TypeOK, FreeInv
<1>7. RefsCounted'
  <2> PICK e \in chain[s] : FiniElem(s)!2!(e)
    OBVIOUS
  <2>e. e \in Elems /\ InTable(e)
    BY DEF TypeOK, InTable, Linked
  <2> SUFFICES ASSUME NEW x \in Elems
               PROVE  (refcount[x] = Cardinality(Holders(x)) + (IF InTable(x) THEN 1 ELSE 0))'
    BY DEF RefsCounted
  <2>1. CASE x # e
    <3>1. Holders(x)' = Holders(x)
      BY <2>1 DEF TypeOK, Holders
    <3>2. InTable(x)' <=> InTable(x)
      BY <2>1 DEF TypeOK, InTable, Linked
    <3>3. refcount'[x] = refcount[x]
      BY <2>1 DEF TypeOK
    <3>4. QED
      BY <3>1, <3>2, <3>3 DEF RefsCounted
  <2>2. CASE x = e
    <3>1. Holders(x)' = Holders(x)
      BY <2>2 DEF TypeOK, Holders
    <3>2. ~InTable(x)'
      BY <2>2, <2>e DEF TypeOK, InTable, Linked, KeysUnique, PlaceInv
    <3>3. refcount'[x] = refcount[x] - 1
      BY <2>2 DEF TypeOK
    <3>4. QED
      BY <2>2, <3>1, <3>2, <3>3, Counted, <2>e DEF RefsCounted
  <2>3. QED
    BY <2>1, <2>2
<1>8. QED
  BY <1>1, <1>2, <1>3, <1>4, <1>5, <1>6, <1>7

LEMMA WrLockStep ==
  ASSUME TableInv, OwnersUnhash, NEW t \in Threads, WrLock(t)
  PROVE  TableInv'
<1> USE Consts DEF WrLock, WrLocks, Walk, Goto, elemVars, tableVars, TableInv
<1>1. TypeOK'
  BY DEF TypeOK, Labels
<1>2. LockInv'
  BY DEF TypeOK, LockInv, Writing, Reading
<1>3. OwnerInv'
  BY DEF TypeOK, OwnerInv, Hashing, Unhashing, Linked
<1>4. PlaceInv'
  BY DEF TypeOK, PlaceInv, Hashing, Unhashing, Linked, get_slot
<1>5. KeysUnique'
  BY DEF TypeOK, KeysUnique, Linked, get_slot
<1>6. FreeInv'
  BY DEF TypeOK, FreeInv
<1>7. RefsCounted'
  <2> SUFFICES ASSUME NEW x \in Elems
               PROVE  (refcount[x] = Cardinality(Holders(x)) + (IF InTable(x) THEN 1 ELSE 0))'
    BY DEF RefsCounted
  <2>1. Holders(x)' = Holders(x)
    BY DEF TypeOK, Holders
  <2>2. InTable(x)' <=> InTable(x)
    BY DEF TypeOK, InTable, Linked
  <2>3. QED
    BY <2>1, <2>2 DEF RefsCounted
<1>8. QED
  BY <1>1, <1>2, <1>3, <1>4, <1>5, <1>6, <1>7

LEMMA RdLockStep ==
  ASSUME TableInv, OwnersUnhash, NEW t \in Threads, RdLock(t)
  PROVE  TableInv'
<1> USE Consts DEF RdLock, RdLocks, Walk, Goto, elemVars, tableVars, TableInv
<1>1. TypeOK'
  BY DEF TypeOK, Labels
<1>2. LockInv'
  BY DEF TypeOK, LockInv, Writing, Reading
<1>3. OwnerInv'
  BY DEF TypeOK, OwnerInv, Hashing, Unhashing, Linked
<1>4. PlaceInv'
  BY DEF TypeOK, PlaceInv, Hashing, Unhashing, Linked, get_slot
<1>5. KeysUnique'
  BY DEF TypeOK, KeysUnique, Linked, get_slot
<1>6. FreeInv'
  BY DEF TypeOK, FreeInv
<1>7. RefsCounted'
  <2> SUFFICES ASSUME NEW x \in Elems
               PROVE  (refcount[x] = Cardinality(Holders(x)) + (IF InTable(x) THEN 1 ELSE 0))'
    BY DEF RefsCounted
  <2>1. Holders(x)' = Holders(x)
    BY DEF TypeOK, Holders
  <2>2. InTable(x)' <=> InTable(x)
    BY DEF TypeOK, InTable, Linked
  <2>3. QED
    BY <2>1, <2>2 DEF RefsCounted
<1>8. QED
  BY <1>1, <1>2, <1>3, <1>4, <1>5, <1>6, <1>7

LEMMA UnlockStep ==
  ASSUME TableInv, OwnersUnhash, NEW t \in Threads, Unlock(t)
  PROVE  TableInv'
<1> USE Consts DEF Unlock, Release, Goto, elemVars, tableVars, walkVars, TableInv
<1>1. TypeOK'
  BY DEF TypeOK, Labels
<1>2. LockInv'
  BY DEF TypeOK, LockInv, Writing, Reading
<1>3. OwnerInv'
  BY DEF TypeOK, OwnerInv, Hashing, Unhashing, Linked
<1>4. PlaceInv'
  BY DEF TypeOK, PlaceInv, Hashing, Unhashing, Linked, get_slot
<1>5. KeysUnique'
  BY DEF TypeOK, KeysUnique, Linked, get_slot
<1>6. FreeInv'
  BY DEF TypeOK, FreeInv
<1>7. RefsCounted'
  <2> SUFFICES ASSUME NEW x \in Elems
               PROVE  (refcount[x] = Cardinality(Holders(x)) + (IF InTable(x) THEN 1 ELSE 0))'
    BY DEF RefsCounted
  <2>1. Holders(x)' = Holders(x)
    BY DEF TypeOK, Holders
  <2>2. InTable(x)' <=> InTable(x)
    BY DEF TypeOK, InTable, Linked
  <2>3. QED
    BY <2>1, <2>2 DEF RefsCounted
<1>8. QED
  BY <1>1, <1>2, <1>3, <1>4, <1>5, <1>6, <1>7

LEMMA PutStep ==
  ASSUME TableInv, OwnersUnhash, NEW t \in Threads, hashelm_put(t)
  PROVE  TableInv'
<1> USE Consts DEF hashelm_put, Goto, tableVars, lockVars, walkVars, TableInv
<1>1. TypeOK'
  <2>0. he[t] \in Elems /\ refcount' \in [Elems -> Int]
    BY DEF TypeOK
  <2>1. CASE refcount[he[t]] = 1
    BY <2>0, <2>1 DEF TypeOK, Labels
  <2>2. CASE refcount[he[t]] # 1
    BY <2>0, <2>2 DEF TypeOK, Labels
  <2>3. QED
    BY <2>1, <2>2
<1>2. LockInv'
  BY DEF TypeOK, LockInv, Writing, Reading
<1>3. OwnerInv'
  BY SMTT(20) DEF TypeOK, OwnerInv, Hashing, Unhashing, Linked
<1>4. PlaceInv'
  <2> UNCHANGED <<chain, key, slot, table>> /\ pc[t] = "idle"
    OBVIOUS
  <2>1. CASE refcount[he[t]] = 1
    <3>1. pc' = [pc EXCEPT ![t] = "free"] /\ he' = he
      BY <2>1
    <3>2. QED
      BY <3>1 DEF TypeOK, PlaceInv, Hashing, Unhashing, Linked, get_slot
  <2>2. CASE refcount[he[t]] # 1
    <3>1. pc' = pc /\ he' = [he EXCEPT ![t] = NoElem]
      BY <2>2
    <3>2. QED
      BY <3>1 DEF TypeOK, PlaceInv, Hashing, Unhashing, Linked, get_slot
  <2>3. QED
    BY <2>1, <2>2
<1>5. KeysUnique'
  BY DEF TypeOK, KeysUnique, Linked, get_slot
<1>6. FreeInv'
  <2>0. he[t] \in Elems /\ t \in Holders(he[t])
    BY DEF TypeOK, Holders
  <2>1. refcount[he[t]] >= 1
    BY <2>0, Counted
  <2>2. he[t] \notin freed /\ \A u \in Threads : pc[u] = "free" => he[u] # he[t]
    BY <2>0, <2>1 DEF TypeOK, FreeInv
  <2>3. refcount' = [refcount EXCEPT ![he[t]] = @ - 1] /\ freed' = freed
    OBVIOUS
  <2>4. CASE refcount[he[t]] = 1
    BY <2>0, <2>2, <2>3, <2>4 DEF TypeOK, FreeInv
  <2>5. CASE refcount[he[t]] # 1
    BY <2>0, <2>2, <2>3, <2>5, SMTT(20) DEF TypeOK, FreeInv
  <2>6. QED
    BY <2>4, <2>5
<1>7. RefsCounted'
  <2> SUFFICES ASSUME NEW x \in Elems
               PROVE  (refcount[x] = Cardinality(Holders(x)) + (IF InTable(x) THEN 1 ELSE 0))'
    BY DEF RefsCounted
  <2>1. CASE x # he[t]
    <3>1. Holders(x)' = Holders(x)
      BY <2>1 DEF TypeOK, Holders
    <3>2. InTable(x)' <=> InTable(x)
      BY <2>1 DEF TypeOK, InTable, Linked
    <3>3. refcount'[x] = refcount[x]
      BY <2>1 DEF TypeOK
    <3>4. QED
      BY <3>1, <3>2, <3>3 DEF RefsCounted
  <2>2. CASE x = he[t]
    <3>1. t \in Holders(x) /\ Holders(x)' = Holders(x) \ {t}
      BY <2>2 DEF TypeOK, Holders
    <3>2. InTable(x)' <=> InTable(x)
      BY <2>2 DEF TypeOK, InTable, Linked
    <3>3. refcount'[x] = refcount[x] - 1
      BY <2>2 DEF TypeOK
    <3>4. Cardinality(Holders(x)') = Cardinality(Holders(x)) - 1
      BY <3>1, Counted, FS_RemoveElement
    <3>5. QED
      BY <3>2, <3>3, <3>4, Counted
  <2>3. QED
    BY <2>1, <2>2
<1>8. QED
  BY <1>1, <1>2, <1>3, <1>4, <1>5, <1>6, <1>7

LEMMA FreefnStep ==
  ASSUME TableInv, OwnersUnhash, NEW t \in Threads, freefn(t)
  PROVE  TableInv'
<1> USE Consts DEF freefn, Goto, tableVars, lockVars, walkVars, TableInv
<1>1. TypeOK'
  <2>1. pc[t] = "free" /\ he[t] \in Elems
    BY DEF PlaceInv, FreeInv
  <2>2. pc' = [pc EXCEPT ![t] = "idle"] /\ he' = [he EXCEPT ![t] = NoElem]
    BY <2>1
  <2>3. QED
    BY <2>1, <2>2 DEF TypeOK, Labels
<1>2. LockInv'
  BY DEF TypeOK, LockInv, Writing, Reading
<1>3. OwnerInv'
  BY DEF TypeOK, OwnerInv, Hashing, Unhashing, Linked, PlaceInv, FreeInv
<1>4. PlaceInv'
  <2>1. pc[t] = "free" /\ he[t] \in Elems
    BY DEF PlaceInv, FreeInv
  <2>2. pc' = [pc EXCEPT ![t] = "idle"] /\ he' = [he EXCEPT ![t] = NoElem]
    BY <2>1
  <2>3. QED
    BY <2>1, <2>2 DEF TypeOK, PlaceInv, Hashing, Unhashing, Linked, get_slot
<1>5. KeysUnique'
  BY DEF TypeOK, KeysUnique, Linked, get_slot
<1>6. FreeInv'
  BY DEF TypeOK, FreeInv, PlaceInv
<1>7. RefsCounted'
  BY SMTT(20) DEF TypeOK, RefsCounted, Holders, InTable, Linked
<1>8. QED
  BY <1>1, <1>2, <1>3, <1>4, <1>5, <1>6, <1>7

LEMMA HashEnterStep ==
  ASSUME TableInv, OwnersUnhash, NEW t \in Threads, HashEnter(t)
  PROVE  TableInv'
<1> USE Consts DEF HashEnter, hashelm_hashed, Goto, tableVars, lockVars, walkVars, TableInv
<1>1. TypeOK'
  BY DEF TypeOK, Labels
<1>2. LockInv'
  BY DEF TypeOK, LockInv, Writing, Reading
<1>3. OwnerInv'
  BY DEF TypeOK, OwnerInv, Hashing, Unhashing, Linked
<1>4. PlaceInv'
  BY DEF TypeOK, PlaceInv, OwnerInv, Hashing, Unhashing, Linked, get_slot
<1>5. KeysUnique'
  BY DEF TypeOK, KeysUnique, Linked, get_slot
<1>6. FreeInv'
  BY DEF TypeOK, FreeInv
<1>7. RefsCounted'
  BY DEF TypeOK, RefsCounted, Holders, InTable, Linked
<1>8. QED
  BY <1>1, <1>2, <1>3, <1>4, <1>5, <1>6, <1>7

LEMMA HashScanStep ==
  ASSUME TableInv, OwnersUnhash, NEW t \in Threads, HashScan(t)
  PROVE  TableInv'
<1> USE Consts DEF HashScan, Duplicate, Goto, elemVars, tableVars, lockVars, walkVars, TableInv
<1>1. TypeOK'
  BY DEF TypeOK, Labels
<1>2. LockInv'
  BY DEF TypeOK, LockInv, Writing, Reading
<1>3. OwnerInv'
  BY DEF TypeOK, OwnerInv, Hashing, Unhashing, Linked
<1>4. PlaceInv'
  BY DEF TypeOK, PlaceInv, Hashing, Unhashing, Linked, get_slot
<1>5. KeysUnique'
  BY DEF TypeOK, KeysUnique, Linked, get_slot
<1>6. FreeInv'
  BY DEF TypeOK, FreeInv
<1>7. RefsCounted'
  BY DEF TypeOK, RefsCounted, Holders, InTable, Linked
<1>8. QED
  BY <1>1, <1>2, <1>3, <1>4, <1>5, <1>6, <1>7

LEMMA HashLinkStep ==
  ASSUME TableInv, OwnersUnhash, NEW t \in Threads, HashLink(t)
  PROVE  TableInv'
<1> USE Consts DEF HashLink, Link, Goto, lockVars, walkVars, TableInv
<1>1. TypeOK'
  BY DEF TypeOK, Labels, OwnerInv, Hashing
<1>2. LockInv'
  BY DEF TypeOK, LockInv, Writing, Reading
<1>3. OwnerInv'
  BY DEF TypeOK, OwnerInv, Hashing, Unhashing, Linked
<1>4. PlaceInv'
  BY DEF TypeOK, PlaceInv, OwnerInv, LockInv, Writing, Hashing, Unhashing, Linked, get_slot
<1>5. KeysUnique'
  <2>0. /\ he[t] \in Elems /\ key[he[t]] # NoElem /\ slot[t] = get_slot(key[he[t]])
        /\ \A e \in chain[slot[t]] : key[e] # key[he[t]]
    BY DEF TypeOK, PlaceInv, OwnerInv, Hashing, Linked
  <2>1. Linked' = Linked \cup {he[t]}
    BY <2>0 DEF TypeOK, Linked
  <2>2. \A s \in Slots : \A e \in chain'[s] : key[e] # NoElem /\ s = get_slot(key[e])
    BY <2>0 DEF TypeOK, KeysUnique
  <2>3. \A e \in Linked : key[e] # key[he[t]]
    BY <2>0 DEF KeysUnique, Linked
  <2>4. \A e1, e2 \in Linked' : key[e1] = key[e2] => e1 = e2
    BY <2>1, <2>3 DEF KeysUnique
  <2>5. QED
    BY <2>2, <2>4 DEF KeysUnique, get_slot
<1>6. FreeInv'
  <2>0. he[t] \in Elems /\ t \in Holders(he[t])
    BY DEF TypeOK, Holders, OwnerInv, Hashing
  <2>1. refcount[he[t]] >= 1
    BY <2>0, Counted
  <2>2. QED
    BY <2>0, <2>1 DEF TypeOK, FreeInv
<1>7. RefsCounted'
  <2>0. he[t] \in Elems /\ owner[he[t]] = t
    BY DEF TypeOK, OwnerInv, Hashing
  <2> SUFFICES ASSUME NEW x \in Elems
               PROVE  (refcount[x] = Cardinality(Holders(x)) + (IF InTable(x) THEN 1 ELSE 0))'
    BY DEF RefsCounted
  <2>1. CASE x # he[t]
    <3>1. Holders(x)' = Holders(x)
      BY <2>1 DEF TypeOK, Holders
    <3>2. InTable(x)' <=> InTable(x)
      BY <2>1 DEF TypeOK, InTable, Linked
    <3>3. refcount'[x] = refcount[x]
      BY <2>1 DEF TypeOK
    <3>4. QED
      BY <3>1, <3>2, <3>3 DEF RefsCounted
  <2>2. CASE x = he[t]
    <3>1. Holders(x)' = Holders(x)
      BY <2>2 DEF TypeOK, Holders
    <3>2. ~InTable(x) /\ InTable(x)'
      BY <2>0, <2>2 DEF TypeOK, InTable, Linked, PlaceInv, OwnerInv, Hashing, Unhashing
    <3>3. refcount'[x] = refcount[x] + 1
      BY <2>2 DEF TypeOK
    <3>4. QED
      BY <2>2, <3>1, <3>2, <3>3, Counted, <2>0 DEF RefsCounted
  <2>3. QED
    BY <2>1, <2>2
<1>8. QED
  BY <1>1, <1>2, <1>3, <1>4, <1>5, <1>6, <1>7

LEMMA UnhashEnterStep ==
  ASSUME TableInv, OwnersUnhash, NEW t \in Threads, UnhashEnter(t)
  PROVE  TableInv'
<1> USE Consts DEF UnhashEnter, hashelm_hashed, Goto, elemVars, tableVars, lockVars, walkVars, TableInv
<1>1. TypeOK'
  <2>1. key[he[t]] \in Keys
    BY DEF TypeOK, KeysUnique, Linked
  <2>2. QED
    BY <2>1 DEF TypeOK, Labels
<1>2. LockInv'
  BY DEF TypeOK, LockInv, Writing, Reading
<1>3. OwnerInv'
  BY DEF TypeOK, OwnerInv, Hashing, Unhashing, Linked, OwnersUnhash
<1>4. PlaceInv'
  BY DEF TypeOK, PlaceInv, Hashing, Unhashing, Linked, get_slot
<1>5. KeysUnique'
  BY DEF TypeOK, KeysUnique, Linked, get_slot
<1>6. FreeInv'
  BY DEF TypeOK, FreeInv
<1>7. RefsCounted'
  BY DEF TypeOK, RefsCounted, Holders, InTable, Linked
<1>8. QED
  BY <1>1, <1>2, <1>3, <1>4, <1>5, <1>6, <1>7

LEMMA UnhashDelStep ==
  ASSUME TableInv, OwnersUnhash, NEW t \in Threads, UnhashDel(t)
  PROVE  TableInv'
<1> USE Consts DEF UnhashDel, Unlink, Goto, elemVars, lockVars, TableInv
<1>1. TypeOK'
  BY DEF TypeOK, Labels
<1>2. LockInv'
  BY DEF TypeOK, LockInv, Writing, Reading
<1>3. OwnerInv'
  BY DEF TypeOK, OwnerInv, Hashing, Unhashing, Linked
<1>4. PlaceInv'
  BY DEF TypeOK, PlaceInv, OwnerInv, KeysUnique, LockInv, Writing, Reading, Hashing, Unhashing, Linked, get_slot
<1>5. KeysUnique'
  BY DEF TypeOK, KeysUnique, Linked, get_slot
<1>6. FreeInv'
  BY DEF TypeOK, FreeInv
<1>7. RefsCounted'
  <2>0. he[t] \in Elems /\ owner[he[t]] = t /\ he[t] \in Linked
    BY DEF TypeOK, OwnerInv, PlaceInv, Unhashing
  <2> SUFFICES ASSUME NEW x \in Elems
               PROVE  (refcount[x] = Cardinality(Holders(x)) + (IF InTable(x) THEN 1 ELSE 0))'
    BY DEF RefsCounted
  <2>1. Holders(x)' = Holders(x)
    BY DEF TypeOK, Holders
  <2>2. InTable(x)' <=> InTable(x)
    BY <2>0 DEF TypeOK, InTable, Linked
  <2>3. QED
    BY <2>1, <2>2 DEF RefsCounted
<1>8. QED
  BY <1>1, <1>2, <1>3, <1>4, <1>5, <1>6, <1>7

LEMMA UnhashPutStep ==
  ASSUME TableInv, OwnersUnhash, NEW t \in Threads, UnhashPut(t)
  PROVE  TableInv'
<1> USE Consts DEF UnhashPut, Goto, tableVars, lockVars, walkVars, TableInv
<1>1. TypeOK'
  BY DEF TypeOK, Labels, OwnerInv
<1>2. LockInv'
  BY DEF TypeOK, LockInv, Writing, Reading
<1>3. OwnerInv'
  BY DEF TypeOK, OwnerInv, Hashing, Unhashing, Linked
<1>4. PlaceInv'
  <2>0. he[t] \in Elems /\ t \in Holders(he[t]) /\ InTable(he[t])
    BY DEF TypeOK, Holders, InTable, OwnerInv, Unhashing
  <2>1. refcount[he[t]] >= 2
    BY <2>0, Counted
  <2>2. refcount[he[t]] # 1
    BY <2>0, <2>1 DEF TypeOK
  <2>3. pc' = [pc EXCEPT ![t] = "unlock"]
    BY <2>2
  <2>4. QED
    BY <2>3 DEF TypeOK, PlaceInv, Hashing, Unhashing, Linked, get_slot
<1>5. KeysUnique'
  BY DEF TypeOK, KeysUnique, Linked, get_slot
<1>6. FreeInv'
  <2>0. he[t] \in Elems /\ t \in Holders(he[t]) /\ InTable(he[t])
    BY DEF TypeOK, Holders, InTable, OwnerInv, Unhashing
  <2>1. refcount[he[t]] >= 2
    BY <2>0, Counted
  <2>2. QED
    BY <2>0, <2>1 DEF TypeOK, FreeInv
<1>7. RefsCounted'
  <2>0. he[t] \in Elems /\ owner[he[t]] = t /\ InTable(he[t])
    BY DEF TypeOK, InTable, OwnerInv, Unhashing
  <2> SUFFICES ASSUME NEW x \in Elems
               PROVE  (refcount[x] = Cardinality(Holders(x)) + (IF InTable(x) THEN 1 ELSE 0))'
    BY DEF RefsCounted
  <2>1. CASE x # he[t]
    <3>1. Holders(x)' = Holders(x)
      BY <2>1 DEF TypeOK, Holders
    <3>2. InTable(x)' <=> InTable(x)
      BY <2>1 DEF TypeOK, InTable, Linked
    <3>3. refcount'[x] = refcount[x]
      BY <2>1 DEF TypeOK
    <3>4. QED
      BY <3>1, <3>2, <3>3 DEF RefsCounted
  <2>2. CASE x = he[t]
    <3>1. Holders(x)' = Holders(x)
      BY <2>2 DEF TypeOK, Holders
    <3>2. ~InTable(x)'
      BY <2>0, <2>2 DEF TypeOK, InTable, Linked, PlaceInv, OwnerInv
    <3>3. refcount'[x] = refcount[x] - 1
      BY <2>2 DEF TypeOK
    <3>4. QED
      BY <2>2, <3>1, <3>2, <3>3, Counted, <2>0 DEF RefsCounted
  <2>3. QED
    BY <2>1, <2>2
<1>8. QED
  BY <1>1, <1>2, <1>3, <1>4, <1>5, <1>6, <1>7

LEMMA LookupScanStep ==
  ASSUME TableInv, OwnersUnhash, NEW t \in Threads, LookupScan(t)
  PROVE  TableInv'
<1> USE Consts DEF LookupScan, Matches, Goto, elemVars, tableVars, lockVars, walkVars, TableInv
<1>1. TypeOK'
  BY DEF TypeOK, Labels
<1>2. LockInv'
  BY DEF TypeOK, LockInv, Writing, Reading
<1>3. OwnerInv'
  BY SMTT(20) DEF TypeOK, OwnerInv, Hashing, Unhashing, Linked
<1>4. PlaceInv'
  <2>1. CASE pc' = [pc EXCEPT ![t] = "unlock"] /\ he' = he
    BY <2>1 DEF TypeOK, PlaceInv, Hashing, Unhashing, Linked, get_slot
  <2>2. ASSUME NEW e \in chain[slot[t]],
               he' = [he EXCEPT ![t] = e], pc' = [pc EXCEPT ![t] = "lookup_hold"]
        PROVE  PlaceInv'
    <3>1. UNCHANGED <<chain, key, slot, table>> /\ table = "up"
      BY DEF PlaceInv
    <3>2. \A u \in Threads \ {t} : pc'[u] = pc[u] /\ he'[u] = he[u]
      BY <2>2 DEF TypeOK
    <3>3. pc'[t] = "lookup_hold" /\ he'[t] = e
      BY <2>2 DEF TypeOK
    <3>4. QED
      BY <3>1, <3>2, <3>3 DEF PlaceInv, Hashing, Unhashing, Linked, get_slot
  <2>3. QED
    BY <2>1, <2>2
<1>5. KeysUnique'
  BY DEF TypeOK, KeysUnique, Linked, get_slot
<1>6. FreeInv'
  BY DEF TypeOK, FreeInv
<1>7. RefsCounted'
  <2> SUFFICES ASSUME NEW x \in Elems
               PROVE  (refcount[x] = Cardinality(Holders(x)) + (IF InTable(x) THEN 1 ELSE 0))'
    BY DEF RefsCounted
  <2>1. Holders(x)' = Holders(x)
    BY DEF TypeOK, Holders, PlaceInv
  <2>2. InTable(x)' <=> InTable(x)
    BY DEF TypeOK, InTable, Linked
  <2>3. QED
    BY <2>1, <2>2 DEF RefsCounted
<1>8. QED
  BY <1>1, <1>2, <1>3, <1>4, <1>5, <1>6, <1>7

LEMMA LookupHoldStep ==
  ASSUME TableInv, OwnersUnhash, NEW t \in Threads, LookupHold(t)
  PROVE  TableInv'
<1> USE Consts DEF LookupHold, Goto, tableVars, lockVars, walkVars, TableInv
<1>1. TypeOK'
  <2>1. he[t] \in Elems
    BY DEF TypeOK, PlaceInv
  <2>2. QED
    BY <2>1 DEF TypeOK, Labels
<1>2. LockInv'
  BY DEF TypeOK, LockInv, Writing, Reading
<1>3. OwnerInv'
  BY DEF TypeOK, OwnerInv, Hashing, Unhashing, Linked
<1>4. PlaceInv'
  BY DEF TypeOK, PlaceInv, Hashing, Unhashing, Linked, get_slot
<1>5. KeysUnique'
  BY DEF TypeOK, KeysUnique, Linked, get_slot
<1>6. FreeInv'
  <2>0. he[t] \in Elems /\ InTable(he[t])
    BY DEF TypeOK, InTable, Linked, PlaceInv
  <2>1. refcount[he[t]] >= 1
    BY <2>0, Counted
  <2>2. QED
    BY <2>0, <2>1 DEF TypeOK, FreeInv
<1>7. RefsCounted'
  <2>0. he[t] \in Elems
    BY DEF TypeOK, PlaceInv
  <2> SUFFICES ASSUME NEW x \in Elems
               PROVE  (refcount[x] = Cardinality(Holders(x)) + (IF InTable(x) THEN 1 ELSE 0))'
    BY DEF RefsCounted
  <2>1. CASE x # he[t]
    <3>1. Holders(x)' = Holders(x)
      BY <2>1 DEF TypeOK, Holders
    <3>2. InTable(x)' <=> InTable(x)
      BY <2>1 DEF TypeOK, InTable, Linked
    <3>3. refcount'[x] = refcount[x]
      BY <2>1 DEF TypeOK
    <3>4. QED
      BY <3>1, <3>2, <3>3 DEF RefsCounted
  <2>2. CASE x = he[t]
    <3>1. t \notin Holders(x) /\ Holders(x)' = Holders(x) \cup {t}
      BY <2>0, <2>2 DEF TypeOK, Holders
    <3>2. InTable(x)' <=> InTable(x)
      BY <2>2 DEF TypeOK, InTable, Linked
    <3>3. refcount'[x] = refcount[x] + 1
      BY <2>2 DEF TypeOK
    <3>4. Cardinality(Holders(x)') = Cardinality(Holders(x)) + 1
      BY <3>1, Counted, FS_AddElement
    <3>5. QED
      BY <3>2, <3>3, <3>4, Counted
  <2>3. QED
    BY <2>1, <2>2
<1>8. QED
  BY <1>1, <1>2, <1>3, <1>4, <1>5, <1>6, <1>7

LEMMA ForeachEnterStep ==
  ASSUME TableInv, OwnersUnhash, NEW t \in Threads, ForeachEnter(t)
  PROVE  TableInv'
<1> USE Consts DEF ForeachEnter, Goto, elemVars, tableVars, lockVars, TableInv
<1>1. TypeOK'
  <2>1. Linked \subseteq Elems
    BY DEF Linked
  <2>2. QED
    BY <2>1, SMTT(20) DEF TypeOK, Labels
<1>2. LockInv'
  BY DEF TypeOK, LockInv, Writing, Reading
<1>3. OwnerInv'
  BY DEF TypeOK, OwnerInv, Hashing, Unhashing, Linked
<1>4. PlaceInv'
  BY DEF TypeOK, PlaceInv, Hashing, Unhashing, Linked, get_slot
<1>5. KeysUnique'
  BY DEF TypeOK, KeysUnique, Linked, get_slot
<1>6. FreeInv'
  BY SMTT(20) DEF TypeOK, FreeInv
<1>7. RefsCounted'
  <2> SUFFICES ASSUME NEW x \in Elems
               PROVE  (refcount[x] = Cardinality(Holders(x)) + (IF InTable(x) THEN 1 ELSE 0))'
    BY DEF RefsCounted
  <2>1. Holders(x)' = Holders(x)
    BY DEF TypeOK, Holders
  <2>2. InTable(x)' <=> InTable(x)
    BY DEF TypeOK, InTable, Linked
  <2>3. QED
    BY <2>1, <2>2 DEF RefsCounted
<1>8. QED
  BY <1>1, <1>2, <1>3, <1>4, <1>5, <1>6, <1>7

LEMMA VisitStep ==
  ASSUME TableInv, OwnersUnhash, NEW t \in Threads, Visit(t)
  PROVE  TableInv'
<1> USE Consts DEF Visit, elemVars, tableVars, lockVars, TableInv
<1>1. TypeOK'
  BY DEF TypeOK, Labels
<1>2. LockInv'
  BY DEF TypeOK, LockInv, Writing, Reading
<1>3. OwnerInv'
  BY DEF TypeOK, OwnerInv, Hashing, Unhashing, Linked
<1>4. PlaceInv'
  BY DEF TypeOK, PlaceInv, Hashing, Unhashing, Linked, get_slot
<1>5. KeysUnique'
  BY DEF TypeOK, KeysUnique, Linked, get_slot
<1>6. FreeInv'
  BY DEF TypeOK, FreeInv
<1>7. RefsCounted'
  BY SMTT(20) DEF TypeOK, RefsCounted, Holders, InTable, Linked
<1>8. QED
  BY <1>1, <1>2, <1>3, <1>4, <1>5, <1>6, <1>7

LEMMA NextSlotStep ==
  ASSUME TableInv, OwnersUnhash, NEW t \in Threads, NextSlot(t)
  PROVE  TableInv'
<1> USE Consts DEF NextSlot, Release, LastSlot, Goto, elemVars, tableVars, walkVars, TableInv
<1>1. TypeOK'
  <2>1. slot[t] < mask => slot[t] + 1 \in Slots
    BY DEF TypeOK, Slots
  <2>2. slot' \in [Threads -> Slots]
    <3>1. CASE slot[t] < mask
      BY <2>1, <3>1 DEF TypeOK
    <3>2. CASE ~(slot[t] < mask)
      BY <3>2 DEF TypeOK
    <3>3. QED
      BY <3>1, <3>2
  <2>3. pc' \in [Threads -> Labels]
    BY DEF TypeOK, Labels
  <2>4. QED
    BY <2>2, <2>3 DEF TypeOK
<1>2. LockInv'
  BY DEF TypeOK, LockInv, Writing, Reading
<1>3. OwnerInv'
  BY DEF TypeOK, OwnerInv, Hashing, Unhashing, Linked
<1>4. PlaceInv'
  <2>1. UNCHANGED <<chain, key, he, table>> /\ table = "up"
    BY DEF PlaceInv
  <2>2. \A u \in Threads \ {t} : pc'[u] = pc[u] /\ slot'[u] = slot[u]
    BY DEF TypeOK
  <2>3. pc'[t] \in {"foreach_lock", "foreach_rdlock", "foreach_ret"}
    BY DEF TypeOK
  <2>4. QED
    BY <2>1, <2>2, <2>3 DEF PlaceInv, Hashing, Unhashing, Linked, get_slot
<1>5. KeysUnique'
  BY DEF TypeOK, KeysUnique, Linked, get_slot
<1>6. FreeInv'
  BY SMTT(20) DEF TypeOK, FreeInv
<1>7. RefsCounted'
  <2> SUFFICES ASSUME NEW x \in Elems
               PROVE  (refcount[x] = Cardinality(Holders(x)) + (IF InTable(x) THEN 1 ELSE 0))'
    BY DEF RefsCounted
  <2>1. Holders(x)' = Holders(x)
    BY DEF TypeOK, Holders
  <2>2. InTable(x)' <=> InTable(x)
    BY DEF TypeOK, InTable, Linked
  <2>3. QED
    BY <2>1, <2>2 DEF RefsCounted
<1>8. QED
  BY <1>1, <1>2, <1>3, <1>4, <1>5, <1>6, <1>7

LEMMA ForeachReturnStep ==
  ASSUME TableInv, OwnersUnhash, NEW t \in Threads, ForeachReturn(t)
  PROVE  TableInv'
<1> USE Consts DEF ForeachReturn, Goto, elemVars, tableVars, lockVars, TableInv
<1>1. TypeOK'
  BY DEF TypeOK, Labels
<1>2. LockInv'
  BY DEF TypeOK, LockInv, Writing, Reading
<1>3. OwnerInv'
  BY DEF TypeOK, OwnerInv, Hashing, Unhashing, Linked
<1>4. PlaceInv'
  BY DEF TypeOK, PlaceInv, Hashing, Unhashing, Linked, get_slot
<1>5. KeysUnique'
  BY DEF TypeOK, KeysUnique, Linked, get_slot
<1>6. FreeInv'
  BY DEF TypeOK, FreeInv
<1>7. RefsCounted'
  BY DEF TypeOK, RefsCounted, Holders, InTable, Linked
<1>8. QED
  BY <1>1, <1>2, <1>3, <1>4, <1>5, <1>6, <1>7

--------------------------------------------------------------------------------

LEMMA TableInit == Init => TableInv
<1> SUFFICES ASSUME Init PROVE TableInv
  OBVIOUS
<1> USE Consts DEF Init
<1>1. TypeOK
  BY DEF TypeOK, Labels
<1>2. LockInv /\ OwnerInv /\ PlaceInv /\ KeysUnique /\ FreeInv
  BY DEF LockInv, OwnerInv, PlaceInv, KeysUnique, FreeInv, Linked, Writing,
         Reading, Hashing, Unhashing
<1>3. \A e \in Elems : Holders(e) = {} /\ ~InTable(e)
  BY DEF Holders, InTable, Linked
<1>4. RefsCounted
  <2>1. \A e \in Elems : Cardinality(Holders(e)) = 0
    BY <1>3, FS_EmptySet
  <2>2. QED
    BY <1>3, <2>1 DEF RefsCounted
<1>5. QED
  BY <1>1, <1>2, <1>4 DEF TableInv

LEMMA TableNext == ASSUME OwnersUnhash PROVE TableInv /\ [Next]_vars => TableInv'
<1> SUFFICES ASSUME TableInv, [Next]_vars PROVE TableInv'
  OBVIOUS
<1>1. ASSUME NEW t \in Threads, Thread(t) PROVE TableInv'
  BY <1>1, OwnersUnhash, WrLockStep, RdLockStep, UnlockStep, InitStep,
       HoldStep, PutStep, FreefnStep, HashEnterStep, HashScanStep, HashLinkStep,
       UnhashEnterStep, UnhashDelStep, UnhashPutStep, LookupEnterStep,
       LookupScanStep, LookupHoldStep, ForeachEnterStep, VisitStep,
       NextSlotStep, ForeachReturnStep
       DEF Thread
<1>2. CASE FiniBegin \/ FiniEnd \/ \E s \in Slots : FiniElem(s)
  BY <1>2, OwnersUnhash, FiniBeginStep, FiniEndStep, FiniElemStep
<1>3. CASE UNCHANGED vars
  <2> USE <1>3 DEF vars, elemVars, tableVars, lockVars, walkVars, TableInv
  <2>1. TypeOK' /\ LockInv' /\ FreeInv'
    BY DEF TypeOK, LockInv, FreeInv
  <2>2. OwnerInv' /\ PlaceInv' /\ KeysUnique'
    BY DEF OwnerInv, PlaceInv, KeysUnique, Linked, get_slot
  <2>3. \A e \in Elems : Holders(e)' = Holders(e) /\ (InTable(e)' <=> InTable(e))
    BY DEF Holders, InTable, Linked
  <2>4. RefsCounted'
    BY <2>3 DEF RefsCounted
  <2>5. QED
    BY <2>1, <2>2, <2>4
<1>4. QED
  BY <1>1, <1>2, <1>3 DEF Next

\* The variables keep their types, whatever owners and other threads do.
THEOREM HashTableTypeCorrect == ASSUME OwnersUnhash PROVE Spec => []TypeOK
<1>1. TableInv => TypeOK
  BY DEF TableInv
<1>2. QED
  BY <1>1, TableInit, TableNext, OwnersUnhash, PTL DEF Spec

\* Reference counts are exact: he->refcount is the number of references that
\* threads and the table have, in every interleaving of the operations.
THEOREM HashTableRefsCounted == ASSUME OwnersUnhash PROVE Spec => []RefsCounted
<1>1. TableInv => RefsCounted
  BY DEF TableInv
<1>2. QED
  BY <1>1, TableInit, TableNext, OwnersUnhash, PTL DEF Spec

\* One element per key, in the slot of its hash, although hashtable_hash writes
\* he->key before it takes the lock of the slot.
THEOREM HashTableKeysUnique == ASSUME OwnersUnhash PROVE Spec => []KeysUnique
<1>1. TableInv => KeysUnique
  BY DEF TableInv
<1>2. QED
  BY <1>1, TableInit, TableNext, OwnersUnhash, PTL DEF Spec

\* No element is freed while the table or a thread refers to it, a lookup that
\* has found it and not yet held it included, and none is freed twice.
THEOREM HashTableNoUseAfterFree == ASSUME OwnersUnhash PROVE Spec => []NoUseAfterFree
<1>1. TableInv => NoUseAfterFree
  <2> SUFFICES ASSUME TableInv PROVE NoUseAfterFree
    OBVIOUS
  <2> USE DEF TableInv
  <2>1. ASSUME NEW e \in Elems, refcount[e] = 0
        PROVE  Holders(e) = {} /\ ~InTable(e)
    BY <2>1, Counted
  <2>2. ASSUME NEW e \in Elems, refcount[e] = 0, NEW t \in Threads, he[t] = e
        PROVE  pc[t] = "free"
    <3>1. pc[t] # "lookup_hold"
      BY <2>1, <2>2 DEF InTable, Linked, PlaceInv, TypeOK
    <3>2. QED
      BY <2>1, <2>2, <3>1 DEF Holders
  <2>3. \A e \in freed : e \notin Linked /\ \A t \in Threads : he[t] # e
    BY <2>1, <2>2 DEF FreeInv, TypeOK, InTable
  <2>4. \A t, u \in Threads : pc[t] = "free" /\ he[u] = he[t] => u = t
    BY <2>2 DEF FreeInv
  <2>5. QED
    BY <2>3, <2>4 DEF NoUseAfterFree
<1>2. QED
  BY <1>1, TableInit, TableNext, OwnersUnhash, PTL DEF Spec

--------------------------------------------------------------------------------
(* What hashtable_foreach sees, and the counts.                            *)

Locking == {"foreach_lock", "foreach_rdlock"}
Walking == {"walk", "walk_rd"}

\* What has been in the table since a walk began is still there; it is in a
\* slot that the walk has not reached yet, or has been visited, or is to be.
ForeachInv ==
  /\ \A t \in Threads : pc[t] \in Locking \cup Walking =>
       \A e \in stay[t] : e \in Linked /\ (get_slot(key[e]) < slot[t] => e \in seen[t])
  /\ \A t \in Threads : pc[t] \in Walking =>
       \A e \in stay[t] : get_slot(key[e]) = slot[t] => e \in todo[t] \cup seen[t]

WalkInv == TableInv /\ WalkInChain /\ ForeachInv /\ ForeachComplete

\* A step that leaves the threads inside a foreach alone, unlinks nothing and
\* changes no key that is in the table.
LEMMA WalkFrame ==
  ASSUME TypeOK, WalkInv, UNCHANGED <<todo, seen, stay>>,
         \A s \in Slots : chain[s] \subseteq chain'[s],
         \A e \in Linked : key'[e] = key[e],
         \A t \in Threads : pc'[t] \in Locking \cup Walking \cup {"foreach_ret"} =>
                              pc'[t] = pc[t] /\ slot'[t] = slot[t]
  PROVE  WalkInChain' /\ ForeachInv' /\ ForeachComplete'
<1>1. Linked \subseteq Linked'
  BY DEF Linked
<1>2. WalkInChain'
  BY DEF WalkInv, WalkInChain, Walking, TypeOK
<1>3. ForeachInv'
  BY <1>1 DEF WalkInv, ForeachInv, get_slot
<1>4. ForeachComplete'
  BY DEF WalkInv, ForeachComplete
<1>5. QED
  BY <1>2, <1>3, <1>4

\* The operations on elements and the lookups.
LEMMA WalkElsewhere ==
  ASSUME WalkInv, NEW t \in Threads,
         \/ Unlock(t)
         \/ \E e \in Elems : hashelm_init(t, e)
         \/ \E u \in Threads : hashelm_hold(t, u)
         \/ hashelm_put(t) \/ freefn(t)
         \/ HashEnter(t) \/ HashScan(t) \/ HashLink(t)
         \/ UnhashEnter(t) \/ UnhashPut(t)
         \/ \E k \in Keys : LookupEnter(t, k)
         \/ LookupScan(t) \/ LookupHold(t)
  PROVE  WalkInChain' /\ ForeachInv' /\ ForeachComplete'
<1> USE DEF WalkInv, TableInv, Locking, Walking
<1>1. CASE Unlock(t)
  BY <1>1, WalkFrame DEF Unlock, Goto, TypeOK, elemVars, tableVars, walkVars
<1>2. ASSUME NEW e \in Elems, hashelm_init(t, e) PROVE WalkInChain' /\ ForeachInv' /\ ForeachComplete'
  BY <1>2, WalkFrame DEF hashelm_init, tableVars, walkVars
<1>3. ASSUME NEW u \in Threads, hashelm_hold(t, u) PROVE WalkInChain' /\ ForeachInv' /\ ForeachComplete'
  BY <1>3, WalkFrame DEF hashelm_hold, tableVars, walkVars
<1>4. CASE hashelm_put(t)
  BY <1>4, WalkFrame DEF hashelm_put, Goto, TypeOK, tableVars, walkVars
<1>5. CASE freefn(t)
  BY <1>5, WalkFrame DEF freefn, Goto, TypeOK, tableVars, walkVars
<1>6. CASE HashEnter(t)
  BY <1>6, WalkFrame DEF HashEnter, hashelm_hashed, Goto, TypeOK, tableVars, walkVars
<1>7. CASE HashScan(t)
  BY <1>7, WalkFrame DEF HashScan, Goto, TypeOK, elemVars, tableVars, walkVars
<1>8. CASE HashLink(t)
  BY <1>8, WalkFrame DEF HashLink, Link, Goto, TypeOK, walkVars
<1>9. CASE UnhashEnter(t)
  BY <1>9, WalkFrame DEF UnhashEnter, Goto, TypeOK, elemVars, tableVars, walkVars
<1>10. CASE UnhashPut(t)
  BY <1>10, WalkFrame DEF UnhashPut, Goto, TypeOK, tableVars, walkVars
<1>11. ASSUME NEW k \in Keys, LookupEnter(t, k) PROVE WalkInChain' /\ ForeachInv' /\ ForeachComplete'
  BY <1>11, WalkFrame DEF LookupEnter, Goto, TypeOK, elemVars, tableVars, walkVars
<1>12. CASE LookupScan(t)
  BY <1>12, WalkFrame DEF LookupScan, Goto, TypeOK, elemVars, tableVars, walkVars
<1>13. CASE LookupHold(t)
  BY <1>13, WalkFrame DEF LookupHold, Goto, TypeOK, tableVars, walkVars
<1>14. QED
  BY <1>1, <1>2, <1>3, <1>4, <1>5, <1>6, <1>7, <1>8, <1>9, <1>10, <1>11, <1>12, <1>13

\* The lock of the slot keeps walkers out of the chain that an unhash changes.
LEMMA WalkUnhashDel ==
  ASSUME WalkInv, NEW t \in Threads, UnhashDel(t)
  PROVE  WalkInChain' /\ ForeachInv' /\ ForeachComplete'
<1> USE DEF WalkInv, TableInv, UnhashDel, Unlink, Goto, elemVars, lockVars
<1>1. \A u \in Threads : pc'[u] \in Locking \cup Walking \cup {"foreach_ret"} =>
        pc'[u] = pc[u] /\ pc[u] # "unhash_del"
  BY DEF TypeOK, Locking, Walking
<1>2. he[t] \in Elems /\ he[t] \in Linked /\ slot[t] = get_slot(key[he[t]])
  BY DEF OwnerInv, PlaceInv, Unhashing
<1>3. \A u \in Threads : stay'[u] = stay[u] \ {he[t]}
  OBVIOUS
<1>4. Linked' = Linked \ {he[t]}
  BY DEF Linked
<1>5. WalkInChain'
  <2> SUFFICES ASSUME NEW u \in Threads, pc'[u] \in Walking
               PROVE  todo[u] \subseteq chain'[slot[u]]
    BY DEF WalkInChain, Walking
  <2>1. pc[u] \in Walking /\ u # t
    BY <1>1 DEF Walking
  <2>2. slot[u] # slot[t]
    <3>1. slot[t] \in Slots /\ writer[slot[t]] = t /\ readers[slot[t]] = {}
      BY Consts DEF LockInv, Writing, TypeOK
    <3>2. writer[slot[u]] = u \/ u \in readers[slot[u]]
      BY <2>1 DEF LockInv, Writing, Reading, Walking
    <3>3. QED
      BY <2>1, <3>1, <3>2
  <2>3. he[t] \notin chain[slot[u]]
    BY <1>2, <2>2 DEF KeysUnique, TypeOK
  <2>4. todo[u] \subseteq chain[slot[u]]
    BY <2>1 DEF WalkInChain, Walking
  <2>5. QED
    BY <2>3, <2>4 DEF TypeOK
<1>6. ForeachInv'
  BY <1>1, <1>3, <1>4 DEF ForeachInv, Locking, Walking, get_slot
<1>7. ForeachComplete'
  BY <1>1, <1>3 DEF ForeachComplete
<1>8. QED
  BY <1>5, <1>6, <1>7

\* A walk that takes the lock of a slot finds there what belongs there.
LEMMA WalkLock ==
  ASSUME WalkInv, NEW t \in Threads, WrLock(t) \/ RdLock(t)
  PROVE  WalkInChain' /\ ForeachInv' /\ ForeachComplete'
<1> USE DEF WalkInv, TableInv
<1>1. /\ UNCHANGED <<chain, key, slot, seen, stay>>
      /\ \A u \in Threads \ {t} : pc'[u] = pc[u] /\ todo'[u] = todo[u]
      /\ pc'[t] \in Walking => pc[t] \in Locking /\ todo'[t] = chain[slot[t]]
      /\ pc'[t] \notin Locking \cup {"foreach_ret"}
  BY DEF WrLock, RdLock, WrLocks, RdLocks, Walk, Goto, elemVars, tableVars, TypeOK, Locking, Walking
<1>2. Linked' = Linked
  BY <1>1 DEF Linked
<1>3. WalkInChain'
  BY <1>1 DEF WalkInChain, Walking
<1>4. \A e \in Linked : get_slot(key[e]) = slot[t] => e \in chain[slot[t]]
  BY DEF KeysUnique, Linked
<1>5. ForeachInv'
  BY <1>1, <1>2, <1>4 DEF ForeachInv, Locking, Walking, get_slot
<1>6. ForeachComplete'
  BY <1>1 DEF ForeachComplete
<1>7. QED
  BY <1>3, <1>5, <1>6

\* The steps of a foreach.
LEMMA WalkForeach ==
  ASSUME WalkInv, NEW t \in Threads,
         ForeachEnter(t) \/ Visit(t) \/ NextSlot(t) \/ ForeachReturn(t)
  PROVE  WalkInChain' /\ ForeachInv' /\ ForeachComplete'
<1> USE DEF WalkInv, TableInv
<1>0. /\ UNCHANGED <<chain, key>> /\ Linked' = Linked
      /\ \A u \in Threads \ {t} : /\ pc'[u] = pc[u] /\ todo'[u] = todo[u] /\ slot'[u] = slot[u]
                                  /\ seen'[u] = seen[u] /\ stay'[u] = stay[u]
  <2>1. UNCHANGED <<chain, key>>
    BY DEF ForeachEnter, Visit, NextSlot, ForeachReturn, elemVars, tableVars
  <2>2. QED
    BY <2>1 DEF ForeachEnter, Visit, NextSlot, ForeachReturn, Goto, walkVars, Linked, TypeOK
<1> DEFINE P(u) == /\ pc'[u] \in Walking => todo'[u] \subseteq chain[slot'[u]]
                   /\ pc'[u] \in Locking \cup Walking =>
                        \A e \in stay'[u] : e \in Linked /\ (get_slot(key[e]) < slot'[u] => e \in seen'[u])
                   /\ pc'[u] \in Walking =>
                        \A e \in stay'[u] : get_slot(key[e]) = slot'[u] => e \in todo'[u] \cup seen'[u]
                   /\ pc'[u] = "foreach_ret" => stay'[u] \subseteq seen'[u]
<1>1. \A u \in Threads \ {t} : P(u)
  BY <1>0 DEF WalkInChain, ForeachInv, ForeachComplete, Walking, Locking
<1>2. \A e \in Linked : key[e] \in Keys /\ get_slot(key[e]) \in Slots
  BY Consts DEF KeysUnique, Linked, TypeOK
<1>3. ASSUME ForeachEnter(t) PROVE P(t)
  <2>1. /\ pc'[t] \in Locking /\ slot'[t] = 0 /\ stay'[t] = Linked
    BY <1>3 DEF ForeachEnter, Goto, TypeOK, Locking
  <2>2. \A e \in Linked : ~(get_slot(key[e]) < 0)
    BY <1>2 DEF Slots
  <2>3. QED
    BY <2>1, <2>2, <1>3 DEF Locking, Walking
<1>4. ASSUME Visit(t) PROVE P(t)
  <2>1. PICK e \in todo[t] : todo' = [todo EXCEPT ![t] = @ \ {e}] /\ seen' = [seen EXCEPT ![t] = @ \cup {e}]
    BY <1>4 DEF Visit
  <2>2. /\ pc'[t] = pc[t] /\ pc[t] \in Walking /\ slot'[t] = slot[t] /\ stay'[t] = stay[t]
        /\ todo'[t] = todo[t] \ {e} /\ seen'[t] = seen[t] \cup {e}
    BY <1>4, <2>1 DEF Visit, TypeOK, Walking
  <2>3. QED
    BY <2>2 DEF WalkInChain, ForeachInv, Locking, Walking
<1>5. ASSUME NextSlot(t) PROVE P(t)
  <2>1. /\ pc[t] \in Walking /\ todo[t] = {} /\ stay'[t] = stay[t] /\ seen'[t] = seen[t]
        /\ IF slot[t] < mask THEN slot'[t] = slot[t] + 1 /\ pc'[t] \in Locking
                             ELSE pc'[t] = "foreach_ret"
    BY <1>5 DEF NextSlot, LastSlot, Goto, walkVars, TypeOK, Walking, Locking
  <2>2. \A e \in stay[t] : /\ e \in Linked
                           /\ get_slot(key[e]) < slot[t] \/ get_slot(key[e]) = slot[t] => e \in seen[t]
    BY <2>1 DEF ForeachInv
  <2>3. slot[t] \in Nat /\ slot[t] <= mask /\ \A e \in Linked : get_slot(key[e]) \in Nat /\ get_slot(key[e]) <= mask
    BY <1>2, Consts DEF TypeOK, Slots
  <2>4. CASE slot[t] < mask
    BY <2>1, <2>2, <2>3, <2>4 DEF Locking, Walking
  <2>5. CASE ~(slot[t] < mask)
    <3>1. \A e \in stay[t] : e \in seen[t]
      BY <2>2, <2>3, <2>5, Consts
    <3>2. QED
      BY <2>1, <2>5, <3>1 DEF Locking, Walking
  <2>6. QED
    BY <2>4, <2>5
<1>6. ASSUME ForeachReturn(t) PROVE P(t)
  <2>1. pc'[t] = "idle"
    BY <1>6 DEF ForeachReturn, Goto, TypeOK
  <2>2. QED
    BY <2>1 DEF Locking, Walking
<1>7. \A u \in Threads : P(u)
  BY <1>1, <1>3, <1>4, <1>5, <1>6
<1>8. WalkInChain'
  BY <1>0, <1>7 DEF WalkInChain, Walking
<1>9. ForeachInv'
  BY <1>0, <1>7 DEF ForeachInv, get_slot
<1>10. ForeachComplete'
  BY <1>7 DEF ForeachComplete
<1>11. QED
  BY <1>8, <1>9, <1>10

LEMMA WalkNext == ASSUME OwnersUnhash PROVE WalkInv /\ [Next]_vars => WalkInv'
<1> SUFFICES ASSUME WalkInv, [Next]_vars PROVE WalkInv'
  OBVIOUS
<1>1. TableInv'
  BY OwnersUnhash, TableNext DEF WalkInv
<1>2. ASSUME NEW t \in Threads, Thread(t) PROVE WalkInChain' /\ ForeachInv' /\ ForeachComplete'
  BY <1>2, WalkElsewhere, WalkUnhashDel, WalkLock, WalkForeach DEF Thread
<1>3. ASSUME FiniBegin \/ FiniEnd \/ UNCHANGED vars
      PROVE  WalkInChain' /\ ForeachInv' /\ ForeachComplete'
  <2>1. UNCHANGED <<todo, seen, stay, chain, key, pc, slot>>
    BY <1>3 DEF FiniBegin, FiniEnd, vars, elemVars, tableVars, walkVars
  <2>2. TypeOK
    BY DEF WalkInv, TableInv
  <2>3. QED
    BY <2>1, <2>2, WalkFrame
<1>4. ASSUME NEW s \in Slots, FiniElem(s) PROVE WalkInChain' /\ ForeachInv' /\ ForeachComplete'
  <2>1. pc' = pc /\ \A t \in Threads : pc[t] \in {"idle", "free"}
    BY <1>4 DEF FiniElem, WalkInv, TableInv, PlaceInv
  <2>2. QED
    BY <2>1 DEF WalkInChain, ForeachInv, ForeachComplete, Locking, Walking
<1>5. QED
  BY <1>1, <1>2, <1>3, <1>4 DEF Next, WalkInv

LEMMA WalkInit == Init => WalkInv
<1> SUFFICES ASSUME Init PROVE WalkInv
  OBVIOUS
<1>1. \A t \in Threads : pc[t] = "idle"
  BY DEF Init
<1>2. QED
  BY <1>1, TableInit DEF WalkInv, WalkInChain, ForeachInv, ForeachComplete, Locking, Walking

\* Whoever walks a chain finds only elements linked there: hashtable_unhash
\* cannot take the element on which another thread's foreach stands.
THEOREM HashTableWalkInChain == ASSUME OwnersUnhash PROVE Spec => []WalkInChain
<1>1. WalkInv => WalkInChain
  BY DEF WalkInv
<1>2. QED
  BY <1>1, WalkInit, WalkNext, OwnersUnhash, PTL DEF Spec

\* A foreach has visited everything that was in the table all the time, for
\* any number of slots, although it locks only one at a time.
THEOREM HashTableForeachComplete == ASSUME OwnersUnhash PROVE Spec => []ForeachComplete
<1>1. WalkInv => ForeachComplete
  BY DEF WalkInv
<1>2. QED
  BY <1>1, WalkInit, WalkNext, OwnersUnhash, PTL DEF Spec

--------------------------------------------------------------------------------

\* What the counts are, the 1 of hashtable_init included.
CountsExact ==
  table = "up" =>
    /\ count = Cardinality(Linked) + 1
    /\ \A s \in Slots : slotcount[s] = Cardinality(chain[s])

CountInv == TableInv /\ CountsExact

LEMMA ChainsFinite ==
  ASSUME TypeOK
  PROVE  /\ IsFiniteSet(Linked) /\ Cardinality(Linked) \in Nat
         /\ \A s \in Slots : IsFiniteSet(chain[s]) /\ Cardinality(chain[s]) \in Nat
<1>1. Linked \in SUBSET Elems /\ \A s \in Slots : chain[s] \in SUBSET Elems
  BY DEF TypeOK, Linked
<1>2. QED
  BY <1>1, HashTableAssumption, FS_Subset, FS_CardinalityType

LEMMA CountHashLink ==
  ASSUME CountInv, NEW t \in Threads, HashLink(t)
  PROVE  CountsExact'
<1> USE DEF CountInv, TableInv
<1>1. he[t] \in Elems /\ he[t] \notin Linked /\ slot[t] \in Slots
  BY DEF HashLink, OwnerInv, PlaceInv, Hashing, TypeOK
<1>2. /\ chain' = [chain EXCEPT ![slot[t]] = @ \cup {he[t]}]
      /\ slotcount' = [slotcount EXCEPT ![slot[t]] = @ + 1]
      /\ count' = count + 1 /\ table' = table
  BY DEF HashLink, Link
<1>3. Linked' = Linked \cup {he[t]} /\ he[t] \notin chain[slot[t]]
  BY <1>1, <1>2 DEF Linked, TypeOK
<1>4. Cardinality(Linked') = Cardinality(Linked) + 1
  BY <1>1, <1>3, ChainsFinite, FS_AddElement
<1>5. Cardinality(chain'[slot[t]]) = Cardinality(chain[slot[t]]) + 1
  <2>1. chain'[slot[t]] = chain[slot[t]] \cup {he[t]}
    BY <1>1, <1>2 DEF TypeOK
  <2>2. QED
    BY <1>1, <1>3, <2>1, ChainsFinite, FS_AddElement
<1>6. SUFFICES ASSUME table = "up"
               PROVE  /\ count' = Cardinality(Linked') + 1
                      /\ \A s \in Slots : slotcount'[s] = Cardinality(chain'[s])
  BY <1>2 DEF CountsExact
<1>7. count = Cardinality(Linked) + 1 /\ \A s \in Slots : slotcount[s] = Cardinality(chain[s])
  BY <1>6 DEF CountsExact
<1>8. count' = Cardinality(Linked') + 1
  BY <1>2, <1>4, <1>7, ChainsFinite
<1>9. ASSUME NEW s \in Slots PROVE slotcount'[s] = Cardinality(chain'[s])
  <2>1. CASE s = slot[t]
    BY <1>2, <1>5, <1>7, <2>1 DEF TypeOK
  <2>2. CASE s # slot[t]
    BY <1>2, <1>7, <2>2 DEF TypeOK
  <2>3. QED
    BY <2>1, <2>2
<1>10. QED
  BY <1>8, <1>9

LEMMA CountUnhashDel ==
  ASSUME CountInv, NEW t \in Threads, UnhashDel(t)
  PROVE  CountsExact'
<1> USE DEF CountInv, TableInv
<1>1. he[t] \in Elems /\ he[t] \in Linked /\ slot[t] \in Slots /\ slot[t] = get_slot(key[he[t]])
  BY DEF UnhashDel, OwnerInv, PlaceInv, Unhashing, TypeOK
<1>2. /\ chain' = [x \in Slots |-> chain[x] \ {he[t]}]
      /\ slotcount' = [slotcount EXCEPT ![slot[t]] = @ - 1]
      /\ count' = count - 1 /\ table' = table
  BY DEF UnhashDel, Unlink
<1>3. Linked' = Linked \ {he[t]}
  BY <1>2 DEF Linked
<1>4. he[t] \in chain[slot[t]] /\ \A s \in Slots \ {slot[t]} : he[t] \notin chain[s]
  BY <1>1 DEF KeysUnique, Linked
<1>5. Cardinality(Linked') = Cardinality(Linked) - 1
  BY <1>1, <1>3, ChainsFinite, FS_RemoveElement
<1>6. Cardinality(chain'[slot[t]]) = Cardinality(chain[slot[t]]) - 1
  BY <1>1, <1>2, <1>4, ChainsFinite, FS_RemoveElement
<1>7. SUFFICES ASSUME table = "up"
               PROVE  /\ count' = Cardinality(Linked') + 1
                      /\ \A s \in Slots : slotcount'[s] = Cardinality(chain'[s])
  BY <1>2 DEF CountsExact
<1>8. count = Cardinality(Linked) + 1 /\ \A s \in Slots : slotcount[s] = Cardinality(chain[s])
  BY <1>7 DEF CountsExact
<1>9. count' = Cardinality(Linked') + 1
  BY <1>2, <1>5, <1>8, ChainsFinite
<1>10. ASSUME NEW s \in Slots PROVE slotcount'[s] = Cardinality(chain'[s])
  <2>1. CASE s = slot[t]
    BY <1>2, <1>6, <1>8, <2>1 DEF TypeOK
  <2>2. CASE s # slot[t]
    <3>1. chain'[s] = chain[s] /\ slotcount'[s] = slotcount[s]
      BY <1>2, <1>4, <2>2 DEF TypeOK
    <3>2. QED
      BY <1>8, <3>1
  <2>3. QED
    BY <2>1, <2>2
<1>11. QED
  BY <1>9, <1>10

LEMMA CountNext == ASSUME OwnersUnhash PROVE CountInv /\ [Next]_vars => CountInv'
<1> SUFFICES ASSUME CountInv, [Next]_vars PROVE CountInv'
  OBVIOUS
<1>1. TableInv'
  BY OwnersUnhash, TableNext DEF CountInv
<1>2. ASSUME UNCHANGED tableVars PROVE CountsExact'
  BY <1>2 DEF CountInv, CountsExact, Linked, tableVars
<1>3. ASSUME NEW t \in Threads, Thread(t) PROVE CountsExact'
  <2>1. HashLink(t) \/ UnhashDel(t) \/ UNCHANGED tableVars
    BY <1>3 DEF Thread, WrLock, RdLock, Unlock, hashelm_init, hashelm_hold, hashelm_put, freefn,
         HashEnter, HashScan, UnhashEnter, UnhashPut, LookupEnter, LookupScan, LookupHold,
         ForeachEnter, Visit, NextSlot, ForeachReturn
  <2>2. QED
    BY <1>2, <2>1, CountHashLink, CountUnhashDel
<1>4. ASSUME FiniBegin \/ FiniEnd \/ \E s \in Slots : FiniElem(s) PROVE CountsExact'
  BY <1>4 DEF FiniBegin, FiniEnd, FiniElem, CountsExact
<1>5. ASSUME UNCHANGED vars PROVE CountsExact'
  BY <1>2, <1>5 DEF vars
<1>6. QED
  BY <1>1, <1>3, <1>4, <1>5 DEF Next, CountInv

LEMMA CountInit == Init => CountInv
<1> SUFFICES ASSUME Init PROVE CountInv
  OBVIOUS
<1>1. Linked = {} /\ \A s \in Slots : chain[s] = {} /\ slotcount[s] = 0
  BY DEF Init, Linked
<1>2. Cardinality({}) = 0
  BY FS_EmptySet
<1>3. CountsExact
  BY <1>1, <1>2 DEF Init, CountsExact
<1>4. QED
  BY <1>3, TableInit DEF CountInv

\* A table that is up after a step was up before it.
LEMMA StaysUp == Next /\ table' = "up" => table = "up"
<1>1. ASSUME NEW t \in Threads, Thread(t) PROVE table' = table
  BY <1>1 DEF Thread, WrLock, RdLock, Unlock, hashelm_init, hashelm_hold, hashelm_put, freefn,
       HashEnter, HashScan, HashLink, UnhashEnter, UnhashDel, UnhashPut, LookupEnter, LookupScan,
       LookupHold, ForeachEnter, Visit, NextSlot, ForeachReturn, tableVars
<1>2. QED
  BY <1>1 DEF Next, FiniBegin, FiniEnd, FiniElem

\* slot->count is exact and ht->count follows the number of elements, under any
\* interleaving of the threads that insert and remove.
THEOREM HashTableCountTracks == ASSUME OwnersUnhash PROVE Spec => CountTracks
<1>1. CountInv => (table = "up" => \A s \in Slots : slotcount[s] = Cardinality(chain[s]))
  BY DEF CountInv, CountsExact
<1>2. CountInv /\ CountInv' /\ [Next]_vars =>
        [table' = "up" => count' - count = Cardinality(Linked') - Cardinality(Linked)]_vars
  <2> SUFFICES ASSUME CountInv, CountInv', Next, table' = "up"
               PROVE  count' - count = Cardinality(Linked') - Cardinality(Linked)
    OBVIOUS
  <2>1. table = "up"
    BY StaysUp
  <2>2. IsFiniteSet(Linked) /\ IsFiniteSet(Linked')
    <3>1. Linked \subseteq Elems /\ Linked' \subseteq Elems
      BY DEF Linked
    <3>2. QED
      BY <3>1, HashTableAssumption, FS_Subset
  <2>3. Cardinality(Linked) \in Nat /\ Cardinality(Linked') \in Nat
    BY <2>2, FS_CardinalityType
  <2>4. count = Cardinality(Linked) + 1
    BY <2>1 DEF CountInv, CountsExact
  <2>5. count' = Cardinality(Linked') + 1
    BY DEF CountInv, CountsExact
  <2>6. QED
    BY <2>3, <2>4, <2>5
<1>3. QED
  BY <1>1, <1>2, CountInit, CountNext, OwnersUnhash, PTL DEF Spec, CountTracks
================================================================================
