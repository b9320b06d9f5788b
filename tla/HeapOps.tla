-------------------------------- MODULE HeapOps --------------------------------
(***************************************************************************)
(* src/heap.c: the operations of the array heap, as functions of its       *)
(* state, a record                                                         *)
(*                                                                         *)
(*   map       the items at positions 0, 1, ... (Len(map) is h->size)      *)
(*   max_size  the positions that are allocated                            *)
(*   index     item->index of every item                                   *)
(*   active    item->active of every item                                  *)
(*   key       what h->cmp compares, of every item                         *)
(*                                                                         *)
(* Both loops of heap.c go from position to position, moving up by one     *)
(* place what they find there, and store an item where they stop; next is  *)
(* the function that says where they go from each position.                *)
(***************************************************************************)
EXTENDS Integers, Sequences

CONSTANTS HEAP_DEFAULT_INCREASE_SIZE,
          cmp(_, _)  \* h->cmp, of the keys of two items

\* heap_init with max_size positions, of items whose keys are key.
heap_init(max_size, key) ==
  [map |-> <<>>, max_size |-> max_size, key |-> key,
   index |-> [x \in DOMAIN key |-> 0], active |-> [x \in DOMAIN key |-> FALSE]]

heap_empty(h) == Len(h.map) = 0
heap_full(h) == Len(h.map) >= h.max_size
heap_front(h) == h.map[1]
At(h, i) == h.map[i + 1]
Parent(i) == (i - 1) \div 2

\* The positions that a loop goes through from i until next[j] = j: the least
\* set that holds i and, with each position, the next one.
Path(next, i) ==
  {k \in DOMAIN next :
     \A S \in SUBSET DOMAIN next : (i \in S /\ \A j \in S : next[j] \in S) => k \in S}

\* The item that arrives at a position of the path.
Arrives(h, next, item, j) == IF next[j] = j THEN item ELSE At(h, next[j])

\* h->map, of the given size, after the move.
Shifted(h, size, next, i, item) ==
  LET path == Path(next, i)
  IN  [j \in 1..size |-> IF j - 1 \in path THEN Arrives(h, next, item, j - 1) ELSE h.map[j]]

\* The index fields are written in the order of the path: the last one counts
\* for an item that is in the map twice.
Indexed(h, next, i, item) ==
  LET path == Path(next, i)
  IN  [x \in DOMAIN h.index |->
         LET at == {j \in path : Arrives(h, next, item, j) = x}
         IN  IF at = {} THEN h.index[x]
             ELSE CHOOSE j \in at : \A k \in at : j \in Path(next, k)]

--------------------------------------------------------------------------------
(* heap_insert.                                                            *)

\* From the first free position up while the parent is less than the item.
Up(h, item) ==
  [i \in 0..Len(h.map) |->
     IF i > 0 /\ cmp(h.key[At(h, Parent(i))], h.key[item]) THEN Parent(i) ELSE i]

Place(h, item) ==
  LET size == Len(h.map)
  IN  [h EXCEPT !.map = Shifted(h, size + 1, Up(h, item), size, item),
                !.index = Indexed(h, Up(h, item), size, item),
                !.active = [@ EXCEPT ![item] = TRUE]]

Grow(h) == [h EXCEPT !.max_size = @ + HEAP_DEFAULT_INCREASE_SIZE]

\* The possible results: a full heap grows, or malloc() fails and the heap is
\* returned as it was.
heap_insert(h, item) ==
  IF heap_full(h) THEN {h, Place(Grow(h), item)} ELSE {Place(h, item)}

--------------------------------------------------------------------------------
(* heap_remove.                                                            *)

\* heap_heapify for item at position i of a heap of the given size: the least
\* of the item and the children of its position.
Smallest(h, size, item, i) ==
  LET l == 2 * i + 1
      r == l + 1
      left == l < size /\ cmp(h.key[At(h, l)], h.key[item])
      least == IF left THEN h.key[At(h, l)] ELSE h.key[item]
  IN  IF r < size /\ cmp(h.key[At(h, r)], least) THEN r ELSE IF left THEN l ELSE i

Down(h, size, item) == [j \in 0..size |-> Smallest(h, size, item, j)]

Retired(h, item) ==
  [h EXCEPT !.index = [@ EXCEPT ![item] = 0], !.active = [@ EXCEPT ![item] = FALSE]]

\* The last item takes the place of the removed one and moves down; when it
\* stays there its index field is left as it was.
heap_remove(h, i) ==
  LET size == Len(h.map) - 1
      last == At(h, size)
      next == Down(h, size, last)
  IN  IF i > size THEN h
      ELSE Retired([h EXCEPT !.map = Shifted(h, size, next, i, last),
                             !.index = IF next[i] # i THEN Indexed(h, next, i, last) ELSE @],
                   At(h, i))
================================================================================
