------------------------------- MODULE HashTable -------------------------------
(***************************************************************************)
(* src/hashtable.c: a chained hash table with one reader-writer lock per   *)
(* slot and reference-counted elements.                                    *)
(*                                                                         *)
(* The table is used by threads.  Each thread has one pointer variable he, *)
(* which carries one reference when it is not NoElem (a thread with two    *)
(* pointers is two threads of the model, one of them resting).  A chain is *)
(* the set of its elements: no operation depends on their order.  Taking a *)
(* lock, scanning the chain, changing it, an atomic refcount operation and *)
(* a call of freefn are separate steps.                                    *)
(***************************************************************************)
EXTENDS Integers, FiniteSets

CONSTANTS
  Threads, Elems, Keys,
  mask,      \* ht->mask: the slots are 0..mask
  hashfn,    \* ht->hashfn, a function from keys to hash values
  band(_, _),  \* & of unsigned integers
  Ops,       \* what the threads do (see the guards of the operations)
  NoElem, NoThread

ASSUME HashTableAssumption ==
  /\ mask \in Nat /\ hashfn \in [Keys -> Nat]
  /\ \A k \in Keys : band(hashfn[k], mask) \in 0..mask
  /\ IsFiniteSet(Threads) /\ IsFiniteSet(Elems)
  /\ NoElem \notin Elems \cup Keys /\ NoThread \notin Threads

VARIABLES
  table,      \* "up" from hashtable_init to hashtable_fini, then "closing", "down"
  chain,      \* slot -> the elements linked from slot->head
  slotcount,  \* slot->count
  writer,     \* slot -> the thread that has slot->lock for writing
  readers,    \* slot -> the threads that have slot->lock for reading
  count,      \* ht->count
  key,        \* he->key (and with it he->hash); NoElem before the first
              \* hashtable_hash, which also sets he->ht
  refcount,   \* he->refcount
  freed,      \* the elements freefn was called for
  owner,      \* the thread that created an element with hashelm_init
  pc, he,     \* where a thread is, the element it refers to,
  arg,        \* the key of its hashtable_lookup,
  slot,       \* and the slot it works on
  todo, seen, \* hashtable_foreach: still to visit in the slot, visited so far
  stay        \* and what has been in the table since it began (auxiliary)

elemVars == <<key, refcount, freed, owner>>
tableVars == <<table, chain, slotcount, count>>
lockVars == <<writer, readers>>
walkVars == <<todo, seen, stay>>
vars == <<elemVars, tableVars, lockVars, walkVars, pc, he, arg, slot>>

Slots == 0..mask
Linked == {e \in Elems : \E s \in Slots : e \in chain[s]}

Goto(t, label) == pc' = [pc EXCEPT ![t] = label]

\* The slip of masking with the size of the table.
get_slot_Wide(k) == band(hashfn[k], mask + 1)

\* The mask is size - 1 for any size: when that is not a power of two some
\* slots are never used.
get_slot(k) == band(hashfn[k], mask)

hashelm_hashed(e) == e \in Linked

Labels ==
  {"idle", "free", "hash_lock", "hash_scan", "hash_link", "unhash_lock",
   "unhash_del", "unhash_put", "free_locked", "lookup_lock", "lookup_scan",
   "lookup_hold", "foreach_lock", "foreach_rdlock", "walk", "walk_rd",
   "foreach_ret", "unlock"}

TypeOK ==
  /\ table \in {"up", "closing", "down"}
  /\ chain \in [Slots -> SUBSET Elems]
  /\ slotcount \in [Slots -> Int]
  /\ writer \in [Slots -> Threads \cup {NoThread}]
  /\ readers \in [Slots -> SUBSET Threads]
  /\ count \in Int
  /\ key \in [Elems -> Keys \cup {NoElem}]
  /\ refcount \in [Elems -> Int]
  /\ freed \subseteq Elems
  /\ owner \in [Elems -> Threads \cup {NoThread}]
  /\ pc \in [Threads -> Labels]
  /\ he \in [Threads -> Elems \cup {NoElem}]
  /\ arg \in [Threads -> Keys \cup {NoElem}]
  /\ slot \in [Threads -> Slots]
  /\ todo \in [Threads -> SUBSET Elems]
  /\ seen \in [Threads -> SUBSET Elems]
  /\ stay \in [Threads -> SUBSET Elems]

\* hashtable_init: ht->count starts at 1.
Init ==
  /\ table = "up"
  /\ chain = [s \in Slots |-> {}]
  /\ slotcount = [s \in Slots |-> 0]
  /\ writer = [s \in Slots |-> NoThread]
  /\ readers = [s \in Slots |-> {}]
  /\ count = 1
  /\ key = [e \in Elems |-> NoElem]
  /\ refcount = [e \in Elems |-> 0]
  /\ freed = {}
  /\ owner = [e \in Elems |-> NoThread]
  /\ pc = [t \in Threads |-> "idle"]
  /\ he = [t \in Threads |-> NoElem]
  /\ arg = [t \in Threads |-> NoElem]
  /\ slot = [t \in Threads |-> 0]
  /\ todo = [t \in Threads |-> {}]
  /\ seen = [t \in Threads |-> {}]
  /\ stay = [t \in Threads |-> {}]

--------------------------------------------------------------------------------
(* The slot locks.                                                         *)

WrLocks == [hash_lock |-> "hash_scan", unhash_lock |-> "unhash_del",
            foreach_lock |-> "walk"]
RdLocks == [lookup_lock |-> "lookup_scan", foreach_rdlock |-> "walk_rd"]

\* What the lock of a slot opens to a thread that walks its chain.
Walk(t, label) ==
  todo' = IF label \in {"walk", "walk_rd"}
          THEN [todo EXCEPT ![t] = chain[slot[t]]] ELSE todo

WrLock(t) ==
  /\ pc[t] \in DOMAIN WrLocks
  /\ writer[slot[t]] = NoThread
  /\ readers[slot[t]] = {}
  /\ writer' = [writer EXCEPT ![slot[t]] = t]
  /\ Goto(t, WrLocks[pc[t]])
  /\ Walk(t, WrLocks[pc[t]])
  /\ UNCHANGED <<elemVars, tableVars, readers, seen, stay, he, arg, slot>>

\* The slip of a lookup or a walk that does not wait for the writer.
RdLock_Barging(t) ==
  /\ pc[t] \in DOMAIN RdLocks
  /\ readers' = [readers EXCEPT ![slot[t]] = @ \cup {t}]
  /\ Goto(t, RdLocks[pc[t]]) /\ Walk(t, RdLocks[pc[t]])
  /\ UNCHANGED <<elemVars, tableVars, writer, seen, stay, he, arg, slot>>

RdLock(t) ==
  /\ pc[t] \in DOMAIN RdLocks
  /\ writer[slot[t]] = NoThread
  /\ readers' = [readers EXCEPT ![slot[t]] = @ \cup {t}]
  /\ Goto(t, RdLocks[pc[t]])
  /\ Walk(t, RdLocks[pc[t]])
  /\ UNCHANGED <<elemVars, tableVars, writer, seen, stay, he, arg, slot>>

\* pthread_rwlock_unlock by the thread that has the lock.
Release(t) ==
  /\ writer' = [writer EXCEPT ![slot[t]] = IF @ = t THEN NoThread ELSE @]
  /\ readers' = [readers EXCEPT ![slot[t]] = @ \ {t}]

Unlock(t) ==
  /\ pc[t] = "unlock"
  /\ Release(t)
  /\ Goto(t, "idle")
  /\ slot' = [slot EXCEPT ![t] = 0]
  /\ UNCHANGED <<elemVars, tableVars, walkVars, he, arg>>

--------------------------------------------------------------------------------
(* Elements and their references.                                          *)

\* hashelm_init, of an element the thread has just allocated.
hashelm_init(t, e) ==
  /\ pc[t] = "idle" /\ he[t] = NoElem
  /\ owner[e] = NoThread
  /\ owner' = [owner EXCEPT ![e] = t]
  /\ refcount' = [refcount EXCEPT ![e] = 1]
  /\ he' = [he EXCEPT ![t] = e]
  /\ UNCHANGED <<key, freed, tableVars, lockVars, walkVars, pc, arg, slot>>

\* hashelm_hold, and the new reference handed to thread u.
hashelm_hold(t, u) ==
  /\ "hold" \in Ops
  /\ pc[t] = "idle" /\ he[t] # NoElem
  /\ pc[u] = "idle" /\ he[u] = NoElem
  /\ refcount' = [refcount EXCEPT ![he[t]] = @ + 1]
  /\ he' = [he EXCEPT ![u] = he[t]]
  /\ UNCHANGED <<key, freed, owner, tableVars, lockVars, walkVars, pc, arg, slot>>

\* hashelm_put of a thread's reference to an element that was given to
\* hashtable_hash once: the last put follows he->ht, which is set there.
hashelm_put(t) ==
  /\ pc[t] = "idle" /\ he[t] # NoElem
  /\ key[he[t]] # NoElem
  /\ refcount' = [refcount EXCEPT ![he[t]] = @ - 1]
  /\ IF refcount[he[t]] = 1
     THEN Goto(t, "free") /\ UNCHANGED he
     ELSE he' = [he EXCEPT ![t] = NoElem] /\ UNCHANGED pc
  /\ UNCHANGED <<key, freed, owner, tableVars, lockVars, walkVars, arg, slot>>

\* he->ht->freefn(he), by the thread whose decrement reached zero.
freefn(t) ==
  /\ pc[t] \in {"free", "free_locked"}
  /\ freed' = freed \cup {he[t]}
  /\ IF pc[t] = "free"
     THEN Goto(t, "idle") /\ he' = [he EXCEPT ![t] = NoElem]
     ELSE Goto(t, "unlock") /\ UNCHANGED he
  /\ UNCHANGED <<key, refcount, owner, tableVars, lockVars, walkVars, arg, slot>>

--------------------------------------------------------------------------------
(* hashtable_hash.  The element belongs to the thread that created it.     *)

HashEnter(t) ==
  /\ "hash" \in Ops /\ table = "up"
  /\ pc[t] = "idle" /\ he[t] # NoElem /\ owner[he[t]] = t
  /\ ~hashelm_hashed(he[t])
  /\ \E k \in Keys :
       /\ key' = [key EXCEPT ![he[t]] = k]
       /\ slot' = [slot EXCEPT ![t] = get_slot(k)]
  /\ Goto(t, "hash_lock")
  /\ UNCHANGED <<refcount, freed, owner, tableVars, lockVars, walkVars, he, arg>>

\* The slip of linking without looking for the key.
Duplicate_Never(t) == FALSE

Duplicate(t) == \E e2 \in chain[slot[t]] : key[e2] = key[he[t]]

\* The slip of linking without a reference of the table's own.
Link_Unheld(t) ==
  /\ slotcount' = [slotcount EXCEPT ![slot[t]] = @ + 1] /\ count' = count + 1
  /\ chain' = [chain EXCEPT ![slot[t]] = @ \cup {he[t]}] /\ UNCHANGED refcount

Link(t) ==
  /\ slotcount' = [slotcount EXCEPT ![slot[t]] = @ + 1]
  /\ count' = count + 1
  /\ chain' = [chain EXCEPT ![slot[t]] = @ \cup {he[t]}]
  /\ refcount' = [refcount EXCEPT ![he[t]] = @ + 1]

\* The slip of returning -1 with the slot locked.
HashScan_Locked(t) ==
  /\ pc[t] = "hash_scan" /\ Goto(t, IF Duplicate(t) THEN "idle" ELSE "hash_link")
  /\ UNCHANGED <<elemVars, tableVars, lockVars, walkVars, he, arg, slot>>

HashScan(t) ==
  /\ pc[t] = "hash_scan"
  /\ Goto(t, IF Duplicate(t) THEN "unlock" ELSE "hash_link")
  /\ UNCHANGED <<elemVars, tableVars, lockVars, walkVars, he, arg, slot>>

HashLink(t) ==
  /\ pc[t] = "hash_link"
  /\ Link(t)
  /\ Goto(t, "unlock")
  /\ UNCHANGED <<table, key, freed, owner, lockVars, walkVars, he, arg, slot>>

--------------------------------------------------------------------------------
(* hashtable_unhash.                                                       *)

\* Clients check hashelm_hashed first: the element's owner or, with
\* "unhash_any", every thread that refers to it.
UnhashEnter(t) ==
  /\ "unhash" \in Ops /\ table = "up"
  /\ pc[t] = "idle" /\ he[t] # NoElem
  /\ owner[he[t]] = t \/ "unhash_any" \in Ops
  /\ hashelm_hashed(he[t])
  /\ slot' = [slot EXCEPT ![t] = get_slot(key[he[t]])]
  /\ Goto(t, "unhash_lock")
  /\ UNCHANGED <<elemVars, tableVars, lockVars, walkVars, he, arg>>

\* The slip of leaving ht->count alone.
Unlink_Uncounted(s, e) ==
  /\ chain' = [x \in Slots |-> chain[x] \ {e}]
  /\ slotcount' = [slotcount EXCEPT ![s] = @ - 1] /\ UNCHANGED count
  /\ stay' = [u \in Threads |-> stay[u] \ {e}]

\* list_del and the two counts, from __unhash.
Unlink(s, e) ==
  /\ chain' = [x \in Slots |-> chain[x] \ {e}]
  /\ slotcount' = [slotcount EXCEPT ![s] = @ - 1]
  /\ count' = count - 1
  /\ stay' = [u \in Threads |-> stay[u] \ {e}]

UnhashDel(t) ==
  /\ pc[t] = "unhash_del"
  /\ Unlink(slot[t], he[t])
  /\ Goto(t, "unhash_put")
  /\ UNCHANGED <<elemVars, table, lockVars, todo, seen, he, arg, slot>>

\* The hashelm_put that ends __unhash.
UnhashPut(t) ==
  /\ pc[t] = "unhash_put"
  /\ refcount' = [refcount EXCEPT ![he[t]] = @ - 1]
  /\ Goto(t, IF refcount[he[t]] = 1 THEN "free_locked" ELSE "unlock")
  /\ UNCHANGED <<key, freed, owner, tableVars, lockVars, walkVars, he, arg, slot>>

--------------------------------------------------------------------------------
(* hashtable_lookup.                                                       *)

LookupEnter(t, k) ==
  /\ "lookup" \in Ops /\ table = "up"
  /\ pc[t] = "idle" /\ he[t] = NoElem
  /\ arg' = [arg EXCEPT ![t] = k]
  /\ slot' = [slot EXCEPT ![t] = get_slot(k)]
  /\ Goto(t, "lookup_lock")
  /\ UNCHANGED <<elemVars, tableVars, lockVars, walkVars, he>>

Matches(t) == {e \in chain[slot[t]] : key[e] = arg[t]}

\* The slip of giving up the lock before the reference is taken.
LookupScan_Unlocked(t) ==
  /\ pc[t] = "lookup_scan" /\ Release(t) /\ arg' = [arg EXCEPT ![t] = NoElem]
  /\ \/ Matches(t) = {} /\ Goto(t, "unlock") /\ UNCHANGED he
     \/ \E e \in Matches(t) : he' = [he EXCEPT ![t] = e] /\ Goto(t, "lookup_hold")
  /\ UNCHANGED <<elemVars, tableVars, walkVars, slot>>

LookupScan(t) ==
  /\ pc[t] = "lookup_scan"
  /\ \/ Matches(t) = {} /\ Goto(t, "unlock") /\ UNCHANGED he
     \/ \E e \in Matches(t) : he' = [he EXCEPT ![t] = e] /\ Goto(t, "lookup_hold")
  /\ arg' = [arg EXCEPT ![t] = NoElem]
  /\ UNCHANGED <<elemVars, tableVars, lockVars, walkVars, slot>>

LookupHold(t) ==
  /\ pc[t] = "lookup_hold"
  /\ refcount' = [refcount EXCEPT ![he[t]] = @ + 1]
  /\ Goto(t, "unlock")
  /\ UNCHANGED <<key, freed, owner, tableVars, lockVars, walkVars, he, arg, slot>>

--------------------------------------------------------------------------------
(* hashtable_foreach and hashtable_foreach_read, with a callback that only *)
(* reads the element it is given.                                          *)

ForeachEnter(t) ==
  /\ table = "up" /\ pc[t] = "idle"
  /\ \/ "foreach" \in Ops /\ Goto(t, "foreach_lock")
     \/ "foreach_read" \in Ops /\ Goto(t, "foreach_rdlock")
  /\ slot' = [slot EXCEPT ![t] = 0]
  /\ stay' = [stay EXCEPT ![t] = Linked]
  /\ UNCHANGED <<elemVars, tableVars, lockVars, todo, seen, he, arg>>

Visit(t) ==
  /\ pc[t] \in {"walk", "walk_rd"}
  /\ \E e \in todo[t] :
       /\ todo' = [todo EXCEPT ![t] = @ \ {e}]
       /\ seen' = [seen EXCEPT ![t] = @ \cup {e}]
  /\ UNCHANGED <<elemVars, tableVars, lockVars, stay, pc, he, arg, slot>>

\* The slip of stopping one slot short of the mask.
LastSlot_Short == IF mask = 0 THEN 0 ELSE mask - 1

LastSlot == mask

NextSlot(t) ==
  /\ pc[t] \in {"walk", "walk_rd"} /\ todo[t] = {}
  /\ Release(t)
  /\ IF slot[t] < LastSlot
     THEN /\ slot' = [slot EXCEPT ![t] = @ + 1]
          /\ Goto(t, IF pc[t] = "walk" THEN "foreach_lock" ELSE "foreach_rdlock")
     ELSE Goto(t, "foreach_ret") /\ slot' = [slot EXCEPT ![t] = 0]
  /\ UNCHANGED <<elemVars, tableVars, walkVars, he, arg>>

ForeachReturn(t) ==
  /\ pc[t] = "foreach_ret"
  /\ Goto(t, "idle")
  /\ seen' = [seen EXCEPT ![t] = {}]
  /\ stay' = [stay EXCEPT ![t] = {}]
  /\ UNCHANGED <<elemVars, tableVars, lockVars, todo, he, arg, slot>>

--------------------------------------------------------------------------------
(* hashtable_fini, called when no thread is inside the table.  Threads may *)
(* keep their references and drop them during and after it.                *)

FiniBegin ==
  /\ "fini" \in Ops /\ table = "up"
  /\ \A t \in Threads : pc[t] \in {"idle", "free"}
  /\ table' = "closing"
  /\ UNCHANGED <<elemVars, chain, slotcount, count, lockVars, walkVars, pc, he, arg, slot>>

\* list_del and hashelm_put of one element, with the freefn it may call.
FiniElem(s) ==
  /\ table = "closing"
  /\ \E e \in chain[s] :
       /\ chain' = [chain EXCEPT ![s] = @ \ {e}]
       /\ refcount' = [refcount EXCEPT ![e] = @ - 1]
       /\ freed' = IF refcount[e] = 1 THEN freed \cup {e} ELSE freed
  /\ UNCHANGED <<table, slotcount, count, key, owner, lockVars, walkVars, pc, he, arg, slot>>

FiniEnd ==
  /\ table = "closing" /\ Linked = {}
  /\ table' = "down"
  /\ slotcount' = [s \in Slots |-> 0]
  /\ count' = 0
  /\ UNCHANGED <<elemVars, chain, lockVars, walkVars, pc, he, arg, slot>>

--------------------------------------------------------------------------------

Thread(t) ==
  \/ WrLock(t) \/ RdLock(t) \/ Unlock(t)
  \/ \E e \in Elems : hashelm_init(t, e)
  \/ \E u \in Threads : hashelm_hold(t, u)
  \/ hashelm_put(t) \/ freefn(t)
  \/ HashEnter(t) \/ HashScan(t) \/ HashLink(t)
  \/ UnhashEnter(t) \/ UnhashDel(t) \/ UnhashPut(t)
  \/ \E k \in Keys : LookupEnter(t, k)
  \/ LookupScan(t) \/ LookupHold(t)
  \/ ForeachEnter(t) \/ Visit(t) \/ NextSlot(t) \/ ForeachReturn(t)

Next ==
  \/ \E t \in Threads : Thread(t)
  \/ FiniBegin \/ FiniEnd
  \/ \E s \in Slots : FiniElem(s)

Spec == Init /\ [][Next]_vars

\* A thread that has a slot locked keeps running: nothing it does there waits
\* for another thread.  Nobody has to begin a call, and a lock need not be fair.
Runs(t) ==
  \/ HashScan(t) \/ HashLink(t) \/ UnhashDel(t) \/ UnhashPut(t) \/ freefn(t)
  \/ LookupScan(t) \/ LookupHold(t) \/ Visit(t) \/ NextSlot(t) \/ Unlock(t)

FairSpec == Spec /\ \A t \in Threads : WF_vars(Runs(t))

--------------------------------------------------------------------------------
(* Properties.                                                             *)

\* The references that keep an element alive: the threads' and the table's,
\* which an unhash drops one step after it has unlinked the element.
Holders(e) == {t \in Threads : he[t] = e /\ pc[t] \notin {"free", "lookup_hold"}}
InTable(e) == e \in Linked \/ \E t \in Threads : he[t] = e /\ pc[t] = "unhash_put"

\* he->refcount is the number of references in existence, through every
\* interleaving of hash, unhash, lookup, hold and put.
RefsCounted ==
  \A e \in Elems :
    refcount[e] = Cardinality(Holders(e)) + (IF InTable(e) THEN 1 ELSE 0)

\* freefn is never called for an element that the table links or a thread
\* still refers to, and not by two threads.
NoUseAfterFree ==
  /\ \A e \in freed : e \notin Linked /\ \A t \in Threads : he[t] # e
  /\ \A t, u \in Threads : pc[t] = "free" /\ he[u] = he[t] => u = t

\* The table holds one element per key, in the slot of its hash: hashing the
\* same key twice at the same time links only one of the elements, and
\* he->key, written before the lock is taken, is stable while linked.
KeysUnique ==
  /\ \A s \in Slots : \A e \in chain[s] : key[e] # NoElem /\ s = get_slot(key[e])
  /\ \A e1, e2 \in Linked : key[e1] = key[e2] => e1 = e2

\* While the table is up slot->count is the length of the slot's chain, and
\* ht->count rises and falls with the number of elements, whichever threads
\* insert and remove at the same time.  That number it is not: hashtable_init
\* starts it at 1, so hashtable_count returns one more than "the number of
\* elementes in the hash table" (hashtable.h); the difference never grows.
CountTracks ==
  /\ [](table = "up" => \A s \in Slots : slotcount[s] = Cardinality(chain[s]))
  /\ [][table' = "up" => count' - count = Cardinality(Linked') - Cardinality(Linked)]_vars

\* Whoever walks a chain finds only elements that are linked there: the slot
\* lock keeps out those that unlink.
WalkInChain ==
  \A t \in Threads : pc[t] \in {"walk", "walk_rd"} => todo[t] \subseteq chain[slot[t]]

\* A foreach has visited everything that was in the table all the time,
\* although it has only one slot locked at a time.
ForeachComplete ==
  \A t \in Threads : pc[t] = "foreach_ret" => stay[t] \subseteq seen[t]

\* Every way out of a call gives back the lock of the slot, that of an element
\* that was hashed before, was not found or was freed under the lock included.
LocksReleased ==
  \A t \in Threads, s \in Slots :
    (writer[s] = t \/ t \in readers[s]) ~> (writer[s] # t /\ t \notin readers[s])
================================================================================
