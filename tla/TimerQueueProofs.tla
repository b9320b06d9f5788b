--------------------------- MODULE TimerQueueProofs ---------------------------
(***************************************************************************)
(* The timer queue, for any threads, timers, clocks and sizes of the heap. *)
(***************************************************************************)
EXTENDS TimerQueue, TLAPS, FiniteSetTheorems, WellFoundedInduction

TimespecProofs == INSTANCE TimeProofs WITH PER_SEC <- NSEC_PER_SEC

--------------------------------------------------------------------------------
(* The paths of heap.c.                                                    *)

\* A loop goes one way: towards position 0, or away from it.
OneWay(next, D) == (\A j \in D : next[j] <= j) \/ (\A j \in D : next[j] >= j)

\* A path starts where it starts and goes on to the next position.
LEMMA PathGoesOn ==
  ASSUME NEW D, NEW next \in [D -> D], NEW i \in D
  PROVE  /\ Path(next, i) \subseteq D
         /\ i \in Path(next, i)
         /\ \A j \in Path(next, i) : next[j] \in Path(next, i)
<1>1. DOMAIN next = D
  OBVIOUS
<1>2. QED
  BY <1>1 DEF Path

\* It holds nothing else: the induction along a path.
LEMMA PathInduction ==
  ASSUME NEW D, NEW next \in [D -> D], NEW i \in D,
         NEW S \in SUBSET D, i \in S, \A j \in S : next[j] \in S
  PROVE  Path(next, i) \subseteq S
<1>1. DOMAIN next = D
  OBVIOUS
<1>2. QED
  BY <1>1 DEF Path

\* What a path meets is where it starts or on the path from there on.
LEMMA PathUnfolds ==
  ASSUME NEW D, NEW next \in [D -> D], NEW i \in D, NEW k \in Path(next, i), k # i
  PROVE  k \in Path(next, next[i])
<1> DEFINE S == {i} \cup Path(next, next[i])
<1>1. next[i] \in D
  OBVIOUS
<1>2. /\ Path(next, next[i]) \subseteq D
      /\ next[i] \in Path(next, next[i])
      /\ \A j \in Path(next, next[i]) : next[j] \in Path(next, next[i])
  BY <1>1, PathGoesOn
<1>3. S \in SUBSET D /\ i \in S /\ \A j \in S : next[j] \in S
  BY <1>2
<1> HIDE DEF S
<1>4. Path(next, i) \subseteq S
  BY <1>3, PathInduction
<1>5. QED
  BY <1>4 DEF S

\* Of two positions of a path one comes before the other.
LEMMA PathLinear ==
  ASSUME NEW D, NEW next \in [D -> D], NEW i \in D,
         NEW a \in Path(next, i), NEW b \in Path(next, i)
  PROVE  a \in Path(next, b) \/ b \in Path(next, a)
<1>1. Path(next, i) \subseteq D
  BY PathGoesOn
<1> DEFINE S == {x \in D : b \in Path(next, x) \/ x \in Path(next, b)}
<1>2. ASSUME NEW j \in S PROVE next[j] \in S
  <2>1. CASE b \in Path(next, j) /\ b # j
    BY <2>1, PathUnfolds
  <2>2. CASE j \in Path(next, b)
    BY <1>1, <2>2, PathGoesOn
  <2>3. CASE b = j
    BY <2>3, PathGoesOn
  <2>4. QED
    BY <2>1, <2>2, <2>3
<1>3. S \in SUBSET D /\ i \in S
  OBVIOUS
<1>4. Path(next, i) \subseteq S
  BY <1>2, <1>3, PathInduction
<1>5. QED
  BY <1>4

\* Every position of a path but its start is the next one of another.
HasBefore(next, i, a) == \E k \in Path(next, i) : next[k] = a /\ k # a

LEMMA PathBefore ==
  ASSUME NEW D, NEW next \in [D -> D], NEW i \in D, NEW a \in Path(next, i), a # i
  PROVE  HasBefore(next, i, a)
<1> SUFFICES ASSUME \A k \in Path(next, i) : next[k] = a => k = a PROVE FALSE
  BY DEF HasBefore
<1> DEFINE S == Path(next, i) \ {a}
<1>1. S \in SUBSET D /\ i \in S /\ \A j \in S : next[j] \in S
  BY PathGoesOn
<1>2. Path(next, i) \subseteq S
  BY <1>1, PathInduction
<1>3. QED
  BY <1>2

\* A path ends at a position that has no next one.
LEMMA PathEnd ==
  ASSUME NEW D, NEW next \in [D -> D], NEW e \in D, next[e] = e
  PROVE  Path(next, e) = {e}
<1> DEFINE S == {e}
<1>1. S \in SUBSET D /\ e \in S /\ \A j \in S : next[j] \in S
  OBVIOUS
<1> HIDE DEF S
<1>2. Path(next, e) \subseteq S
  BY <1>1, PathInduction
<1>3. QED
  BY <1>2, PathGoesOn DEF S

\* So there is at most one such position on a path.
LEMMA PathOneEnd ==
  ASSUME NEW D, NEW next \in [D -> D], NEW i \in D,
         NEW a \in Path(next, i), NEW b \in Path(next, i), next[a] = a, next[b] = b
  PROVE  a = b
<1>1. a \in D /\ b \in D
  BY PathGoesOn
<1>2. Path(next, a) = {a} /\ Path(next, b) = {b}
  BY <1>1, PathEnd
<1>3. QED
  BY <1>2, PathLinear

LEMMA Least ==
  ASSUME NEW T \in SUBSET Nat, T # {}
  PROVE  \E x \in T : \A y \in T : x <= y
<1>1. PICK x \in T : \A y \in T : ~(<<y, x>> \in OpToRel(<, Nat))
  BY NatLessThanWellFounded, WFMin
<1>2. \A y \in T : ~(y < x)
  BY <1>1 DEF OpToRel
<1>3. QED
  BY <1>2

LEMMA Greatest ==
  ASSUME NEW m \in Nat, NEW T \in SUBSET (0..m), T # {}
  PROVE  \E x \in T : \A y \in T : y <= x
<1> DEFINE U == {m - x : x \in T}
<1>1. U \in SUBSET Nat /\ U # {}
  <2>1. \A x \in T : m - x \in Nat
    OBVIOUS
  <2>2. QED
    BY <2>1, Zenon
<1>2. PICK u \in U : \A v \in U : u <= v
  BY <1>1, Least
<1>3. PICK x \in T : u = m - x
  OBVIOUS
<1>4. ASSUME NEW y \in T PROVE y <= x
  <2>1. m - x <= m - y
    BY <1>2, <1>3
  <2>2. QED
    BY <2>1
<1>5. QED
  BY <1>4

\* Positions of a path lie on the side to which the loop goes.
LEMMA PathUpwards ==
  ASSUME NEW m \in Nat, NEW next \in [0..m -> 0..m], NEW i \in 0..m,
         \A j \in 0..m : next[j] <= j
  PROVE  \A k \in Path(next, i) : k <= i
<1> DEFINE S == {k \in 0..m : k <= i}
<1>1. S \in SUBSET (0..m) /\ i \in S /\ \A j \in S : next[j] \in S
  OBVIOUS
<1> HIDE DEF S
<1>2. Path(next, i) \subseteq S
  BY <1>1, PathInduction
<1>3. QED
  BY <1>2 DEF S

LEMMA PathDownwards ==
  ASSUME NEW m \in Nat, NEW next \in [0..m -> 0..m], NEW i \in 0..m,
         \A j \in 0..m : next[j] >= j
  PROVE  \A k \in Path(next, i) : i <= k
<1> DEFINE S == {k \in 0..m : i <= k}
<1>1. S \in SUBSET (0..m) /\ i \in S /\ \A j \in S : next[j] \in S
  OBVIOUS
<1> HIDE DEF S
<1>2. Path(next, i) \subseteq S
  BY <1>1, PathInduction
<1>3. QED
  BY <1>2 DEF S

\* Any positions of a path have a last one.
LEMMA PathLast ==
  ASSUME NEW m \in Nat, NEW next \in [0..m -> 0..m], OneWay(next, 0..m),
         NEW i \in 0..m, NEW T \in SUBSET Path(next, i), T # {}
  PROVE  \E x \in T : \A y \in T : x \in Path(next, y)
<1>1. T \in SUBSET (0..m) /\ T \in SUBSET Nat
  <2>1. Path(next, i) \subseteq 0..m
    BY PathGoesOn
  <2>2. QED
    BY <2>1
<1>2. \A x, y \in T : x \in Path(next, y) \/ y \in Path(next, x)
  BY PathLinear
<1>3. CASE \A j \in 0..m : next[j] <= j
  <2>1. PICK x \in T : \A y \in T : x <= y
    BY <1>1, Least
  <2>2. ASSUME NEW y \in T, y \in Path(next, x) PROVE x \in Path(next, y)
    <3>1. y <= x
      BY <1>1, <1>3, <2>2, PathUpwards
    <3>2. y = x
      BY <1>1, <2>1, <3>1
    <3>3. QED
      BY <2>2, <3>2
  <2>3. QED
    BY <1>2, <2>2
<1>4. CASE \A j \in 0..m : next[j] >= j
  <2>1. PICK x \in T : \A y \in T : y <= x
    BY <1>1, Greatest
  <2>2. ASSUME NEW y \in T, y \in Path(next, x) PROVE x \in Path(next, y)
    <3>1. x <= y
      BY <1>1, <1>4, <2>2, PathDownwards
    <3>2. y = x
      BY <1>1, <2>1, <3>1
    <3>3. QED
      BY <2>2, <3>2
  <2>3. QED
    BY <1>2, <2>2
<1>5. QED
  BY <1>3, <1>4 DEF OneWay

\* A path has an end.
LEMMA PathEnds ==
  ASSUME NEW m \in Nat, NEW next \in [0..m -> 0..m], OneWay(next, 0..m), NEW i \in 0..m
  PROVE  \E e \in Path(next, i) : next[e] = e
<1>1. Path(next, i) \subseteq 0..m /\ Path(next, i) # {}
  BY PathGoesOn
<1>2. PICK e \in Path(next, i) : \A y \in Path(next, i) : e \in Path(next, y)
  BY <1>1, PathLast
<1>3. next[e] \in Path(next, i) /\ e \in 0..m
  BY <1>1, PathGoesOn
<1>4. e \in Path(next, next[e])
  BY <1>2, <1>3
<1>5. CASE \A j \in 0..m : next[j] <= j
  <2>1. e <= next[e]
    BY <1>3, <1>4, <1>5, PathUpwards
  <2>2. QED
    BY <1>3, <1>5, <2>1
<1>6. CASE \A j \in 0..m : next[j] >= j
  <2>1. next[e] <= e
    BY <1>3, <1>4, <1>6, PathDownwards
  <2>2. QED
    BY <1>3, <1>6, <2>1
<1>7. QED
  BY <1>5, <1>6 DEF OneWay

\* No position of a path is the next one of two others.
LEMMA PathInjective ==
  ASSUME NEW m \in Nat, NEW next \in [0..m -> 0..m], OneWay(next, 0..m), NEW i \in 0..m,
         NEW a \in Path(next, i), NEW b \in Path(next, i),
         next[a] = next[b], next[a] # a, next[b] # b
  PROVE  a = b
<1>1. a \in 0..m /\ b \in 0..m /\ next[a] \in 0..m
  BY PathGoesOn
<1>2. a \notin Path(next, next[a]) /\ b \notin Path(next, next[a])
  <2>1. CASE \A j \in 0..m : next[j] <= j
    <3>1. \A k \in Path(next, next[a]) : k <= next[a]
      BY <1>1, <2>1, PathUpwards
    <3>2. QED
      BY <1>1, <2>1, <3>1
  <2>2. CASE \A j \in 0..m : next[j] >= j
    <3>1. \A k \in Path(next, next[a]) : next[a] <= k
      BY <1>1, <2>2, PathDownwards
    <3>2. QED
      BY <1>1, <2>2, <3>1
  <2>3. QED
    BY <2>1, <2>2 DEF OneWay
<1>3. a \in Path(next, b) \/ b \in Path(next, a)
  BY PathLinear
<1>4. QED
  BY <1>1, <1>2, <1>3, PathUnfolds

--------------------------------------------------------------------------------
(* heap_insert and heap_remove: what happens to the items of the heap.     *)

HeapType ==
  [map : Seq(Timers), max_size : Nat, key : [Timers -> timespec!Time],
   index : [Timers -> Nat], active : [Timers -> BOOLEAN]]

\* The map from position 0 on.
Cells(map) == [p \in 0..(Len(map) - 1) |-> map[p + 1]]

\* An item is in the cells at one position, or at none.
Once(cells, x) == \E p \in DOMAIN cells : \A k \in DOMAIN cells : cells[k] = x <=> k = p
Absent(cells, x) == \A k \in DOMAIN cells : cells[k] # x

\* Where the loop of heap_insert goes.
LEMMA UpType ==
  ASSUME NEW h \in HeapType, NEW item \in Timers
  PROVE  /\ Len(h.map) \in Nat
         /\ Up(h, item) \in [0..Len(h.map) -> 0..Len(h.map)]
         /\ \A j \in 0..Len(h.map) : Up(h, item)[j] <= j
         /\ Up(h, item)[0] = 0
<1>1. Len(h.map) \in Nat
  BY DEF HeapType
<1>2. ASSUME NEW j \in 0..Len(h.map), j > 0 PROVE Parent(j) \in 0..(j - 1)
  BY <1>1, <1>2 DEF Parent
<1>3. QED
  BY <1>1, <1>2 DEF Up

\* Where heap_heapify goes: to children below the size, which it leaves alone.
LEMMA DownType ==
  ASSUME NEW h \in HeapType, NEW size \in Nat, NEW item \in Timers
  PROVE  /\ Down(h, size, item) \in [0..size -> 0..size]
         /\ \A j \in 0..size : Down(h, size, item)[j] >= j
         /\ \A j \in 0..size : Down(h, size, item)[j] # j => Down(h, size, item)[j] < size
<1>1. ASSUME NEW j \in 0..size
      PROVE  LET s == Smallest(h, size, item, j)
             IN  s \in Nat /\ (s = j \/ (s > j /\ s < size))
  BY <1>1 DEF Smallest
<1>2. QED
  BY <1>1 DEF Down

LEMMA Successor == \A n \in Nat : \A q \in 0..(n - 1) : q + 1 \in 1..n
OBVIOUS

\* The index fields stay positions.
LEMMA IndexedType ==
  ASSUME NEW h \in HeapType, NEW m \in Nat, NEW item \in Timers,
         NEW next \in [0..m -> 0..m], OneWay(next, 0..m), NEW i \in 0..m
  PROVE  /\ Indexed(h, next, i, item) \in [Timers -> Nat]
         /\ \A e \in Path(next, i) : next[e] = e => Indexed(h, next, i, item)[item] = e
<1> DEFINE At_(x) == {j \in Path(next, i) : Arrives(h, next, item, j) = x}
           Last(x) == CHOOSE j \in At_(x) : \A k \in At_(x) : j \in Path(next, k)
<1>1. Path(next, i) \subseteq 0..m
  BY PathGoesOn
<1>2. ASSUME NEW x, At_(x) # {}
      PROVE  Last(x) \in At_(x) /\ \A k \in At_(x) : Last(x) \in Path(next, k)
  <2>1. At_(x) \in SUBSET Path(next, i)
    OBVIOUS
  <2> HIDE DEF At_
  <2>2. \E j \in At_(x) : \A k \in At_(x) : j \in Path(next, k)
    BY <1>2, <2>1, PathLast
  <2>3. QED
    BY <2>2
<1>3. \A x : At_(x) # {} => Last(x) \in 0..m
  BY <1>1, <1>2
<1>4. DOMAIN h.index = Timers /\ h.index \in [Timers -> Nat]
  BY DEF HeapType
<1>5. Indexed(h, next, i, item) =
        [x \in Timers |-> IF At_(x) = {} THEN h.index[x] ELSE Last(x)]
  BY <1>4 DEF Indexed
<1>6. ASSUME NEW e \in Path(next, i), next[e] = e PROVE At_(item) # {} /\ Last(item) = e
  <2>1. e \in At_(item)
    BY <1>6 DEF Arrives
  <2>2. e \in 0..m
    BY <1>1
  <2> HIDE DEF At_, Last
  <2>3. Last(item) \in Path(next, e)
    BY <1>2, <2>1
  <2>4. QED
    BY <1>6, <2>1, <2>2, <2>3, PathEnd, SMTT(20)
<1> HIDE DEF At_, Last
<1>7. QED
  BY <1>3, <1>4, <1>5, <1>6, SMTT(20)

LEMMA MapFcn ==
  ASSUME NEW h \in HeapType
  PROVE  Len(h.map) \in Nat /\ h.map \in [1..Len(h.map) -> Timers]
BY DEF HeapType

\* What a move does to the cells: next takes them along the path P, and item
\* arrives where it stops.
Moved(old, new, P, next, item) ==
  /\ \A k \in DOMAIN new : k \in P /\ next[k] = k => new[k] = item
  /\ \A k \in DOMAIN new : k \in P /\ next[k] # k =>
       next[k] \in DOMAIN old /\ next[k] \in P /\ new[k] = old[next[k]]
  /\ \A k \in DOMAIN new : k \notin P => k \in DOMAIN old /\ new[k] = old[k]

\* Wherever x is, it stays or moves to the position before.
Kept(old, new, P, next, x) ==
  /\ \A a, b \in P : next[a] = next[b] /\ next[a] # a /\ next[b] # b => a = b
  /\ \A p \in DOMAIN old : old[p] = x /\ p \notin P => p \in DOMAIN new
  /\ \A p \in DOMAIN old : old[p] = x /\ p \in P =>
       \E q \in P : q \in DOMAIN new /\ next[q] = p /\ q # p

\* The path ends at e in the new cells, and x was at no other place of them.
Ends(old, new, P, next, x, e) ==
  /\ e \in P /\ e \in DOMAIN new /\ next[e] = e
  /\ \A k \in P : next[k] = k => k = e
  /\ \A k \in DOMAIN new : k \notin P => old[k] # x
  /\ \A k \in DOMAIN new : k \in P /\ next[k] # k => old[next[k]] # x

\* An item that does not fall off the ends stays as often in the cells as it is.
LEMMA MoveKeeps ==
  ASSUME NEW old, NEW new, NEW P, NEW next, NEW item, NEW x, x # item,
         Moved(old, new, P, next, item), Kept(old, new, P, next, x)
  PROVE  (Once(old, x) => Once(new, x)) /\ (Absent(old, x) => Absent(new, x))
<1>1. ASSUME Once(old, x) PROVE Once(new, x)
  <2>1. PICK p \in DOMAIN old : \A k \in DOMAIN old : old[k] = x <=> k = p
    BY <1>1 DEF Once
  <2>2. CASE p \notin P
    <3>1. p \in DOMAIN new
      BY <2>1, <2>2 DEF Kept
    <3>2. ASSUME NEW k \in DOMAIN new PROVE new[k] = x <=> k = p
      BY <2>1, <2>2, <3>2 DEF Moved
    <3>3. QED
      BY <3>1, <3>2 DEF Once
  <2>3. CASE p \in P
    <3>1. PICK q \in P : q \in DOMAIN new /\ next[q] = p /\ q # p
      BY <2>1, <2>3 DEF Kept
    <3>2. ASSUME NEW k \in DOMAIN new PROVE new[k] = x <=> k = q
      <4>1. CASE k \notin P
        BY <2>1, <2>3, <3>1, <4>1 DEF Moved
      <4>2. CASE k \in P /\ next[k] = k
        BY <3>1, <4>2 DEF Moved
      <4>3. CASE k \in P /\ next[k] # k
        <5>1. next[k] \in DOMAIN old /\ new[k] = old[next[k]]
          BY <4>3 DEF Moved
        <5>2. new[k] = x <=> next[k] = p
          BY <2>1, <5>1
        <5>3. next[k] = p => k = q
          BY <3>1, <4>3 DEF Kept
        <5>4. QED
          BY <3>1, <5>2, <5>3
      <4>4. QED
        BY <4>1, <4>2, <4>3
    <3>3. QED
      BY <3>1, <3>2 DEF Once
  <2>4. QED
    BY <2>2, <2>3
<1>2. ASSUME Absent(old, x) PROVE Absent(new, x)
  BY <1>2 DEF Absent, Moved
<1>3. QED
  BY <1>1, <1>2

\* The item that moves is where its path ends, when it is nowhere else.
LEMMA MovePuts ==
  ASSUME NEW old, NEW new, NEW P, NEW next, NEW item,
         NEW e, Moved(old, new, P, next, item), Ends(old, new, P, next, item, e)
  PROVE  Once(new, item)
<1>1. ASSUME NEW k \in DOMAIN new PROVE new[k] = item <=> k = e
  BY DEF Moved, Ends
<1>2. e \in DOMAIN new
  BY DEF Ends
<1>3. QED
  BY <1>1, <1>2 DEF Once

\* A loop over positions of a map of n items, after which it has size items:
\* no position but the first free one is written that does not exist.
Within(map, n, next, m, i, size) ==
  /\ next \in [0..m -> 0..m] /\ i \in 0..m /\ map \in [1..n -> Timers]
  /\ size <= n + 1 /\ (n < size => n \in Path(next, i))
  /\ \A j \in 0..m : next[j] # j => next[j] < n

IsMap(map, size) == map \in Seq(Timers) /\ Len(map) = size

\* The cells after a move of heap.c.
LEMMA ShiftedMoves ==
  ASSUME NEW h, NEW m \in Nat, NEW size \in Nat, NEW item \in Timers, NEW next, NEW i,
         NEW n \in Nat, Within(h.map, n, next, m, i, size)
  PROVE  /\ IsMap(Shifted(h, size, next, i, item), size)
         /\ Moved([p \in 0..(n - 1) |-> h.map[p + 1]],
                  Cells(Shifted(h, size, next, i, item)), Path(next, i), next, item)
<1>0. /\ next \in [0..m -> 0..m] /\ i \in 0..m /\ h.map \in [1..n -> Timers]
      /\ size <= n + 1 /\ (n < size => n \in Path(next, i))
      /\ \A j \in 0..m : next[j] # j => next[j] < n
  BY DEF Within
<1> DEFINE map == Shifted(h, size, next, i, item)
           old == [p \in 0..(n - 1) |-> h.map[p + 1]]
<1>1. /\ map \in Seq(Timers) /\ Len(map) = size
      /\ \A p \in 0..(size - 1) :
           map[p + 1] = IF p \in Path(next, i)
                        THEN IF next[p] = p THEN item ELSE h.map[next[p] + 1]
                        ELSE h.map[p + 1]
  <2> DEFINE f(j) == IF j - 1 \in Path(next, i) THEN Arrives(h, next, item, j - 1) ELSE h.map[j]
  <2>0. Path(next, i) \subseteq 0..m
    BY <1>0, PathGoesOn
  <2>1. map = [j \in 1..size |-> f(j)]
    BY DEF Shifted
  <2>2. ASSUME NEW p \in 0..(size - 1)
        PROVE  /\ f(p + 1) = IF p \in Path(next, i)
                             THEN IF next[p] = p THEN item ELSE h.map[next[p] + 1]
                             ELSE h.map[p + 1]
               /\ f(p + 1) \in Timers
    <3>1. (p + 1) - 1 = p
      OBVIOUS
    <3>3. p \in Path(next, i) => p \in 0..m /\ next[p] \in 0..m
      BY <1>0, <2>0
    <3>4. CASE p \notin Path(next, i)
      <4>1. p # n
        BY <1>0, <3>4
      <4>2. p + 1 \in 1..n
        BY <1>0, <4>1
      <4>3. h.map[p + 1] \in Timers
        BY <1>0, <4>2
      <4>4. f(p + 1) = h.map[p + 1]
        BY <3>1, <3>4
      <4> HIDE DEF f
      <4>5. QED
        BY <3>4, <4>3, <4>4
    <3>5. CASE p \in Path(next, i) /\ next[p] = p
      BY <3>1, <3>5 DEF Arrives
    <3>6. CASE p \in Path(next, i) /\ next[p] # p
      <4>1. f(p + 1) = h.map[next[p] + 1]
        BY <3>1, <3>6 DEF Arrives, At
      <4> HIDE DEF f
      <4>2. PICK q \in 0..(n - 1) : q = next[p]
        BY <1>0, <3>3, <3>6
      <4>3. q + 1 \in 1..n
        BY Successor, Zenon
      <4>4. h.map[q + 1] \in Timers
        BY <1>0, <4>3
      <4>5. h.map[next[p] + 1] \in Timers
        BY <4>2, <4>4
      <4>6. QED
        BY <3>6, <4>1, <4>5
    <3>7. QED
      BY <3>4, <3>5, <3>6
  <2>3. \A j \in 1..size : f(j) \in Timers
    <3> SUFFICES ASSUME NEW j \in 1..size PROVE f(j) \in Timers
      OBVIOUS
    <3>1. j - 1 \in 0..(size - 1) /\ (j - 1) + 1 = j
      OBVIOUS
    <3> HIDE DEF f
    <3>2. QED
      BY <2>2, <3>1
  <2> HIDE DEF f, map
  <2>4. map \in Seq(Timers) /\ Len(map) = size
    BY <2>1, <2>3
  <2>5. \A p \in 0..(size - 1) : map[p + 1] = f(p + 1)
    BY <2>1
  <2>6. QED
    BY <2>2, <2>4, <2>5 DEF map
<1> HIDE DEF map
<1>2. Cells(map) = [p \in 0..(size - 1) |-> map[p + 1]]
  BY <1>1 DEF Cells
<1>3. Path(next, i) \subseteq 0..m /\ \A j \in Path(next, i) : next[j] \in Path(next, i)
  BY <1>0, PathGoesOn
<1>4. ASSUME NEW j \in Path(next, i), next[j] # j PROVE next[j] \in 0..(n - 1)
  <2>1. j \in 0..m /\ next[j] \in 0..m
    BY <1>0, <1>3
  <2>2. next[j] < n
    BY <1>0, <1>4, <2>1
  <2>3. QED
    BY <2>1, <2>2
<1>5. ASSUME NEW k \in 0..(size - 1), k \notin Path(next, i) PROVE k \in 0..(n - 1)
  <2>1. k # n
    BY <1>0, <1>5
  <2>2. QED
    BY <1>0, <2>1
<1>6. ASSUME NEW k \in 0..(size - 1)
      PROVE  /\ k \in Path(next, i) /\ next[k] = k => Cells(map)[k] = item
             /\ k \in Path(next, i) /\ next[k] # k =>
                  next[k] \in 0..(n - 1) /\ next[k] \in Path(next, i) /\ Cells(map)[k] = old[next[k]]
             /\ k \notin Path(next, i) => k \in 0..(n - 1) /\ Cells(map)[k] = old[k]
  <2>1. Cells(map)[k] = map[k + 1]
    BY <1>2
  <2>2. \A p \in 0..(n - 1) : old[p] = h.map[p + 1]
    OBVIOUS
  <2> HIDE DEF old
  <2>3. CASE k \in Path(next, i) /\ next[k] = k
    BY <1>1, <2>1, <2>3
  <2>4. CASE k \in Path(next, i) /\ next[k] # k
    <3>1. next[k] \in 0..(n - 1) /\ next[k] \in Path(next, i)
      BY <1>3, <1>4, <2>4
    <3>2. map[k + 1] = h.map[next[k] + 1]
      BY <1>1, <2>4
    <3>3. QED
      BY <2>1, <2>2, <2>4, <3>1, <3>2
  <2>5. CASE k \notin Path(next, i)
    <3>1. k \in 0..(n - 1)
      BY <1>5, <2>5
    <3>2. map[k + 1] = h.map[k + 1]
      BY <1>1, <2>5
    <3>3. QED
      BY <2>1, <2>2, <2>5, <3>1, <3>2
  <2>6. QED
    BY <2>3, <2>4, <2>5
<1>7. DOMAIN Cells(map) = 0..(size - 1) /\ DOMAIN old = 0..(n - 1)
  BY <1>2
<1> HIDE DEF old
<1>8. Moved(old, Cells(map), Path(next, i), next, item)
  BY <1>6, <1>7 DEF Moved
<1>9. QED
  BY <1>1, <1>8 DEF map, old, IsMap

\* The map after an insertion: the items stay as often in it as they were, the
\* new one is where the loop stops, and the first one stays when it stops before.
LEMMA InsertedMap ==
  ASSUME NEW h \in HeapType, NEW item \in Timers
  PROVE  LET n    == Len(h.map)
             next == Up(h, item)
             map  == Shifted(h, n + 1, next, n, item)
         IN  /\ map \in Seq(Timers) /\ Len(map) = n + 1
             /\ \A x \in Timers \ {item} : /\ Once(Cells(h.map), x) => Once(Cells(map), x)
                                           /\ Absent(Cells(h.map), x) => Absent(Cells(map), x)
             /\ Absent(Cells(h.map), item) => Once(Cells(map), item)
             /\ 0 \notin Path(next, n) => n > 0 /\ map[1] = h.map[1]
<1> DEFINE n    == Len(h.map)
           next == Up(h, item)
           size == n + 1
           map  == Shifted(h, size, next, n, item)
           old  == [p \in 0..(n - 1) |-> h.map[p + 1]]
           P    == Path(next, n)
<1>1. /\ n \in Nat /\ next \in [0..n -> 0..n] /\ (\A j \in 0..n : next[j] <= j)
      /\ h.map \in [1..n -> Timers]
  BY UpType, MapFcn
<1>2. Cells(h.map) = old
  BY DEF Cells
<1> HIDE DEF n, next
<1>3. OneWay(next, 0..n)
  BY <1>1 DEF OneWay
<1>4. n \in 0..n /\ P \subseteq 0..n /\ n \in P /\ \A j \in P : next[j] \in P
  BY <1>1, PathGoesOn
<1>5. ASSUME NEW j \in 0..n, next[j] # j PROVE next[j] < n
  BY <1>1, <1>5
<1>6. Within(h.map, n, next, n, n, size)
  BY <1>1, <1>4, <1>5 DEF Within
<1>7. size \in Nat /\ size - 1 = n
  BY <1>1
<1> HIDE DEF size
<1>8. /\ map \in Seq(Timers) /\ Len(map) = size
      /\ DOMAIN Cells(map) = 0..(size - 1)
      /\ Moved(old, Cells(map), P, next, item)
  <2>1. n \in Nat /\ size \in Nat /\ item \in Timers
    BY <1>1, <1>7
  <2>2. IsMap(map, size)
    BY <1>6, <2>1, ShiftedMoves
  <2>3. Moved(old, Cells(map), P, next, item)
    BY <1>6, <2>1, ShiftedMoves
  <2> HIDE DEF map, old, P
  <2>4. QED
    BY <2>2, <2>3 DEF IsMap, Cells
<1>9. DOMAIN old = 0..(n - 1)
  OBVIOUS
<1>10. PICK e \in P : next[e] = e
  BY <1>1, <1>3, <1>4, PathEnds
<1>11. \A k \in P : next[k] = k => k = e
  BY <1>1, <1>4, <1>10, PathOneEnd
<1>12. \A a, b \in P : next[a] = next[b] /\ next[a] # a /\ next[b] # b => a = b
  BY <1>1, <1>3, <1>4, PathInjective
<1>13. ASSUME NEW p \in 0..(n - 1), p \in P PROVE \E q \in P : q \in 0..n /\ next[q] = p /\ q # p
  <2>1. p # n
    BY <1>1
  <2>2. QED
    BY <1>1, <1>4, <1>13, <2>1, PathBefore DEF HasBefore
<1>14. \A p \in 0..(n - 1) : p \in 0..n
  BY <1>1
<1>15. \A k \in 0..n : k \notin P => k \in 0..(n - 1)
  BY <1>1, <1>4
<1>16. \A k \in P : next[k] # k => next[k] \in 0..(n - 1)
  BY <1>1, <1>4, <1>5
<1> HIDE DEF map, old, P
<1>17. ASSUME NEW x \in Timers \ {item}
       PROVE  /\ Once(old, x) => Once(Cells(map), x)
              /\ Absent(old, x) => Absent(Cells(map), x)
  <2>1. Kept(old, Cells(map), P, next, x)
    BY <1>7, <1>8, <1>9, <1>12, <1>13, <1>14 DEF Kept
  <2>2. QED
    BY <1>8, <2>1, MoveKeeps
<1>18. ASSUME Absent(old, item) PROVE Once(Cells(map), item)
  <2>1. \A k \in 0..(n - 1) : old[k] # item
    BY <1>9, <1>18 DEF Absent
  <2>2. e \in DOMAIN Cells(map)
    BY <1>4, <1>7, <1>8
  <2>3. Ends(old, Cells(map), P, next, item, e)
    BY <1>7, <1>8, <1>10, <1>11, <1>15, <1>16, <2>1, <2>2 DEF Ends
  <2>4. QED
    BY <1>8, <2>3, MovePuts
<1>19. ASSUME 0 \notin P PROVE n > 0 /\ map[1] = h.map[1]
  <2>1. 0 \in 0..(n - 1) /\ n > 0
    BY <1>1, <1>4, <1>19
  <2>2. Cells(map)[0] = old[0]
    BY <1>7, <1>8, <1>14, <1>19, <2>1 DEF Moved
  <2>3. 0 \in 0..(Len(map) - 1) /\ 0 + 1 = 1
    BY <1>1, <1>7, <1>8
  <2>4. Cells(map)[0] = map[0 + 1] /\ old[0] = h.map[0 + 1]
    BY <2>1, <2>3 DEF Cells, old
  <2>5. QED
    BY <2>1, <2>2, <2>3, <2>4
<1>20. QED
  BY <1>2, <1>8, <1>17, <1>18, <1>19 DEF map, P, n, next, size

\* The map after a removal: the other items stay as often in it as they were, the
\* removed one is gone, and the first one stays unless it is the one removed.
LEMMA RemovedMap ==
  ASSUME NEW h \in HeapType, NEW m \in Nat, Len(h.map) = m + 1, NEW i \in 0..m
  PROVE  LET last == At(h, m)
             next == Down(h, m, last)
             map  == Shifted(h, m, next, i, last)
         IN  /\ map \in Seq(Timers) /\ Len(map) = m
             /\ \A x \in Timers \ {At(h, i)} :
                  /\ Once(Cells(h.map), x) => Once(Cells(map), x)
                  /\ Absent(Cells(h.map), x) => Absent(Cells(map), x)
             /\ Once(Cells(h.map), At(h, i)) => Absent(Cells(map), At(h, i))
             /\ i > 0 /\ m > 0 => map[1] = h.map[1]
<1> DEFINE n    == m + 1
           last == At(h, m)
           next == Down(h, m, last)
           map  == Shifted(h, m, next, i, last)
           old  == [p \in 0..(n - 1) |-> h.map[p + 1]]
           P    == Path(next, i)
<1>1. n \in Nat /\ n - 1 = m /\ h.map \in [1..n -> Timers]
  BY MapFcn
<1>2. last \in Timers /\ At(h, i) \in Timers
  <2>1. m + 1 \in 1..n /\ i + 1 \in 1..n
    OBVIOUS
  <2>2. QED
    BY <1>1, <2>1 DEF At
<1>3. Cells(h.map) = old
  BY DEF Cells
<1>4. old[m] = last /\ old[i] = At(h, i) /\ DOMAIN old = 0..m
  BY <1>1 DEF At
<1> HIDE DEF n, last
<1>5. /\ next \in [0..m -> 0..m] /\ (\A j \in 0..m : next[j] >= j)
      /\ \A j \in 0..m : next[j] # j => next[j] < m
  BY <1>2, DownType
<1> HIDE DEF next
<1>6. OneWay(next, 0..m)
  BY <1>5 DEF OneWay
<1>7. P \subseteq 0..m /\ i \in P /\ \A j \in P : next[j] \in P
  BY <1>5, PathGoesOn
<1>8. \A k \in P : i <= k
  BY <1>5, PathDownwards
<1>9. Within(h.map, n, next, m, i, m)
  <2>1. m <= n + 1 /\ ~(n < m) /\ \A j \in 0..m : next[j] # j => next[j] < n
    BY <1>5 DEF n
  <2>2. QED
    BY <1>1, <1>5, <2>1 DEF Within
<1>10. /\ map \in Seq(Timers) /\ Len(map) = m
       /\ DOMAIN Cells(map) = 0..(m - 1)
       /\ Moved(old, Cells(map), P, next, last)
  <2>1. IsMap(map, m)
    BY <1>1, <1>2, <1>9, ShiftedMoves
  <2>2. Moved(old, Cells(map), P, next, last)
    BY <1>1, <1>2, <1>9, ShiftedMoves
  <2> HIDE DEF map, old, P
  <2>3. QED
    BY <2>1, <2>2 DEF IsMap, Cells
<1>11. PICK e \in P : next[e] = e
  BY <1>5, <1>6, PathEnds
<1>12. \A k \in P : next[k] = k => k = e
  BY <1>5, <1>11, PathOneEnd
<1>13. \A a, b \in P : next[a] = next[b] /\ next[a] # a /\ next[b] # b => a = b
  BY <1>5, <1>6, PathInjective
<1>14. ASSUME NEW p \in P, p # i PROVE \E q \in P : q \in 0..(m - 1) /\ next[q] = p /\ q # p
  <2>1. PICK q \in P : next[q] = p /\ q # p
    <3>1. HasBefore(next, i, p)
      BY <1>5, <1>14, PathBefore
    <3>2. QED
      BY <3>1 DEF HasBefore
  <2>2. q \in 0..m /\ p \in 0..m
    BY <1>7
  <2>3. q <= p
    BY <1>5, <2>1, <2>2
  <2>4. q \in 0..(m - 1)
    BY <2>1, <2>2, <2>3
  <2>5. QED
    BY <2>1, <2>4
<1>15. ASSUME i # m PROVE m \notin P
  <2> DEFINE S == 0..(m - 1)
  <2>1. S \in SUBSET (0..m) /\ i \in S
    BY <1>15
  <2>2. ASSUME NEW j \in S PROVE next[j] \in S
    <3>1. j \in 0..m /\ next[j] \in 0..m
      BY <1>5
    <3>2. QED
      BY <1>5, <3>1
  <2>3. m \notin S
    OBVIOUS
  <2> HIDE DEF S
  <2>4. Path(next, i) \subseteq S
    BY <1>5, <2>1, <2>2, PathInduction
  <2>5. QED
    BY <2>3, <2>4
<1>16. \A k \in 0..(m - 1) : k \in 0..m /\ k # m
  OBVIOUS
<1>17. \A k \in P : next[k] # k => next[k] \in 0..(m - 1) /\ next[k] # i
  <2> SUFFICES ASSUME NEW k \in P, next[k] # k PROVE next[k] \in 0..(m - 1) /\ next[k] # i
    OBVIOUS
  <2>1. k \in 0..m /\ next[k] \in 0..m
    BY <1>5, <1>7
  <2>2. next[k] < m /\ next[k] >= k /\ i <= k
    BY <1>5, <1>8, <2>1
  <2>3. QED
    BY <2>1, <2>2
<1> HIDE DEF map, old, P
<1>18. ASSUME NEW x \in Timers \ {At(h, i)}, x # last
       PROVE  /\ Once(old, x) => Once(Cells(map), x)
              /\ Absent(old, x) => Absent(Cells(map), x)
  <2>1. ASSUME NEW p \in 0..m, old[p] = x PROVE p # i /\ p \in 0..(m - 1)
    <3>1. p # i /\ p # m
      BY <1>4, <1>18, <2>1
    <3>2. QED
      BY <3>1
  <2>2. Kept(old, Cells(map), P, next, x)
    BY <1>4, <1>10, <1>13, <1>14, <2>1 DEF Kept
  <2>3. QED
    BY <1>10, <1>18, <2>2, MoveKeeps
<1>19. ASSUME NEW x \in Timers \ {At(h, i)}, x = last
       PROVE  /\ Once(old, x) => Once(Cells(map), x)
              /\ Absent(old, x) => Absent(Cells(map), x)
  <2>1. m \in DOMAIN old /\ i \in DOMAIN old
    BY <1>4
  <2>2. ~Absent(old, x)
    BY <1>4, <1>19, <2>1 DEF Absent
  <2>3. ASSUME Once(old, x) PROVE Once(Cells(map), x)
    <3>1. \A k \in 0..m : old[k] = x => k = m
      BY <1>4, <1>19, <2>1, <2>3 DEF Once
    <3>2. i # m
      BY <1>4, <1>19
    <3>3. e \in 0..(m - 1)
      BY <1>7, <1>15, <3>2
    <3>4. Ends(old, Cells(map), P, next, last, e)
      BY <1>10, <1>11, <1>12, <1>16, <1>17, <1>19, <3>1, <3>3 DEF Ends
    <3>5. QED
      BY <1>10, <1>19, <3>4, MovePuts
  <2>4. QED
    BY <2>2, <2>3
<1>20. ASSUME Once(old, At(h, i)) PROVE Absent(Cells(map), At(h, i))
  <2>1. \A k \in 0..m : old[k] = At(h, i) => k = i
    BY <1>4, <1>20 DEF Once
  <2>2. ASSUME NEW k \in 0..(m - 1) PROVE Cells(map)[k] # At(h, i)
    <3>1. CASE k \notin P
      <4>1. Cells(map)[k] = old[k] /\ k # i
        BY <1>7, <1>10, <3>1 DEF Moved
      <4>2. QED
        BY <1>16, <2>1, <4>1
    <3>2. CASE k \in P /\ next[k] = k
      <4>1. Cells(map)[k] = last
        BY <1>10, <3>2 DEF Moved
      <4>2. i # m
        BY <1>8, <3>2
      <4>3. QED
        BY <1>4, <2>1, <4>1, <4>2, m \in 0..m
    <3>3. CASE k \in P /\ next[k] # k
      <4>1. Cells(map)[k] = old[next[k]]
        BY <1>10, <3>3 DEF Moved
      <4>2. QED
        BY <1>16, <1>17, <2>1, <3>3, <4>1
    <3>4. QED
      BY <3>1, <3>2, <3>3
  <2>3. QED
    BY <1>10, <2>2 DEF Absent
<1>21. ASSUME i > 0, m > 0 PROVE map[1] = h.map[1]
  <2>1. 0 \notin P
    BY <1>8, <1>21
  <2>2. 0 \in 0..(m - 1) /\ 0 \in 0..(Len(map) - 1) /\ 0 \in 0..(n - 1) /\ 0 + 1 = 1
    BY <1>1, <1>10, <1>21
  <2>3. Cells(map)[0] = old[0]
    BY <1>10, <2>1, <2>2 DEF Moved
  <2>4. Cells(map)[0] = map[0 + 1] /\ old[0] = h.map[0 + 1]
    BY <2>2 DEF Cells, old
  <2>5. QED
    BY <2>2, <2>3, <2>4
<1>22. QED
  BY <1>3, <1>10, <1>18, <1>19, <1>20, <1>21 DEF map, P, last, next

\* What heap_insert promises: one more item, at position 0 or behind the one that
\* was the first.
Inserts(h, g, item) ==
  /\ g \in HeapType /\ g.key = h.key
  /\ g.active = [h.active EXCEPT ![item] = TRUE]
  /\ \A x \in Timers \ {item} : /\ Once(Cells(h.map), x) => Once(Cells(g.map), x)
                                /\ Absent(Cells(h.map), x) => Absent(Cells(g.map), x)
  /\ Absent(Cells(h.map), item) => Once(Cells(g.map), item)
  /\ g.index[item] # 0 => Len(h.map) > 0 /\ g.map[1] = h.map[1]

\* What heap_remove promises: the item at position i is gone, and the first one
\* stays unless i is 0.
Removes(h, g, i) ==
  /\ g \in HeapType /\ g.key = h.key
  /\ At(h, i) \in Timers
  /\ g.active = [h.active EXCEPT ![At(h, i)] = FALSE]
  /\ \A x \in Timers \ {At(h, i)} : /\ Once(Cells(h.map), x) => Once(Cells(g.map), x)
                                    /\ Absent(Cells(h.map), x) => Absent(Cells(g.map), x)
  /\ Once(Cells(h.map), At(h, i)) => Absent(Cells(g.map), At(h, i))
  /\ i > 0 /\ Len(g.map) > 0 => Len(h.map) > 0 /\ g.map[1] = h.map[1]

LEMMA PlaceInserts ==
  ASSUME NEW h \in HeapType, NEW item \in Timers
  PROVE  Inserts(h, Place(h, item), item)
<1> DEFINE n    == Len(h.map)
           next == Up(h, item)
           map  == Shifted(h, n + 1, next, n, item)
           ind  == Indexed(h, next, n, item)
           act  == [h.active EXCEPT ![item] = TRUE]
           g    == Place(h, item)
<1>1. /\ map \in Seq(Timers) /\ Len(map) = n + 1
      /\ \A x \in Timers \ {item} : /\ Once(Cells(h.map), x) => Once(Cells(map), x)
                                    /\ Absent(Cells(h.map), x) => Absent(Cells(map), x)
      /\ Absent(Cells(h.map), item) => Once(Cells(map), item)
      /\ 0 \notin Path(next, n) => n > 0 /\ map[1] = h.map[1]
  BY InsertedMap
<1>2. /\ n \in Nat /\ next \in [0..n -> 0..n] /\ (\A j \in 0..n : next[j] <= j)
      /\ next[0] = 0
  BY UpType
<1>3. g = [h EXCEPT !.map = map, !.index = ind, !.active = act]
  BY DEF Place
<1> HIDE DEF n, next
<1>4. OneWay(next, 0..n) /\ n \in 0..n
  BY <1>2 DEF OneWay
<1>5. ind \in [Timers -> Nat] /\ (0 \in Path(next, n) => ind[item] = 0)
  BY <1>2, <1>4, IndexedType
<1>6. act \in [Timers -> BOOLEAN]
  BY DEF HeapType
<1> HIDE DEF map, ind, g, act
<1>7. g \in HeapType /\ g.key = h.key /\ g.active = act /\ g.index = ind /\ g.map = map
  BY <1>1, <1>3, <1>5, <1>6 DEF HeapType
<1>8. g.index[item] # 0 => Len(h.map) > 0 /\ g.map[1] = h.map[1]
  BY <1>1, <1>5, <1>7 DEF n
<1>9. QED
  BY <1>1, <1>7, <1>8 DEF Inserts, act, g

LEMMA HeapInsert ==
  ASSUME NEW h \in HeapType, NEW item \in Timers, NEW g \in heap_insert(h, item)
  PROVE  g = h \/ Inserts(h, g, item)
<1>1. CASE ~heap_full(h)
  BY <1>1, PlaceInserts DEF heap_insert
<1>2. CASE heap_full(h) /\ g # h
  <2> DEFINE b == Grow(h)
  <2>1. b \in HeapType /\ b.map = h.map /\ b.key = h.key /\ b.active = h.active
    <3>1. h.max_size \in Nat /\ h.max_size + HEAP_DEFAULT_INCREASE_SIZE \in Nat
      BY TimerQueueAssumption DEF HeapType
    <3>2. b = [h EXCEPT !.max_size = h.max_size + HEAP_DEFAULT_INCREASE_SIZE]
      BY DEF Grow
    <3>3. QED
      BY <3>1, <3>2 DEF HeapType
  <2>2. g = Place(b, item)
    BY <1>2 DEF heap_insert
  <2> HIDE DEF b
  <2>3. Inserts(b, g, item)
    BY <2>1, <2>2, PlaceInserts
  <2>4. QED
    BY <2>1, <2>3 DEF Inserts
<1>3. QED
  BY <1>1, <1>2

LEMMA HeapRemove ==
  ASSUME NEW h \in HeapType, NEW i \in Nat, NEW g, g = heap_remove(h, i)
  PROVE  g = h \/ (i < Len(h.map) /\ Removes(h, g, i))
<1> DEFINE m    == Len(h.map) - 1
           last == At(h, m)
           next == Down(h, m, last)
           map  == Shifted(h, m, next, i, last)
           ind  == IF next[i] # i THEN Indexed(h, next, i, last) ELSE h.index
           b    == [h EXCEPT !.map = map, !.index = ind]
<1>1. CASE i > m
  BY <1>1 DEF heap_remove
<1>2. CASE ~(i > m)
  <2>1. Len(h.map) \in Nat /\ h.map \in [1..Len(h.map) -> Timers]
    BY MapFcn
  <2>2. m \in Nat /\ i \in 0..m /\ Len(h.map) = m + 1
    BY <1>2, <2>1
  <2>3. /\ map \in Seq(Timers) /\ Len(map) = m
        /\ \A x \in Timers \ {At(h, i)} :
             /\ Once(Cells(h.map), x) => Once(Cells(map), x)
             /\ Absent(Cells(h.map), x) => Absent(Cells(map), x)
        /\ Once(Cells(h.map), At(h, i)) => Absent(Cells(map), At(h, i))
        /\ i > 0 /\ m > 0 => map[1] = h.map[1]
    BY <2>2, RemovedMap
  <2>4. g = Retired(b, At(h, i))
    BY <1>2 DEF heap_remove
  <2>5. last \in Timers /\ At(h, i) \in Timers
    BY <2>1, <2>2, m + 1 \in 1..Len(h.map), i + 1 \in 1..Len(h.map) DEF At
  <2> HIDE DEF m, last
  <2>6. next \in [0..m -> 0..m] /\ \A j \in 0..m : next[j] >= j
    BY <2>2, <2>5, DownType
  <2> HIDE DEF next
  <2>7. OneWay(next, 0..m)
    BY <2>6 DEF OneWay
  <2>8. ind \in [Timers -> Nat]
    <3>1. Indexed(h, next, i, last) \in [Timers -> Nat]
      BY <2>2, <2>5, <2>6, <2>7, IndexedType
    <3>2. h.index \in [Timers -> Nat]
      BY DEF HeapType
    <3>3. QED
      BY <3>1, <3>2
  <2> HIDE DEF map, ind
  <2>9. b \in HeapType /\ b.key = h.key /\ b.active = h.active /\ b.map = map
    BY <2>3, <2>8 DEF HeapType
  <2> HIDE DEF b
  <2>10. /\ g \in HeapType /\ g.key = h.key /\ g.map = map
         /\ g.active = [h.active EXCEPT ![At(h, i)] = FALSE]
    <3> DEFINE i1 == [b.index EXCEPT ![At(h, i)] = 0]
               a1 == [b.active EXCEPT ![At(h, i)] = FALSE]
    <3>1. g = [b EXCEPT !.index = i1, !.active = a1]
      BY <2>4 DEF Retired
    <3>2. i1 \in [Timers -> Nat] /\ a1 \in [Timers -> BOOLEAN]
      BY <2>9 DEF HeapType
    <3>3. a1 = [h.active EXCEPT ![At(h, i)] = FALSE]
      BY <2>9
    <3> HIDE DEF i1, a1
    <3>4. g \in HeapType /\ g.key = b.key /\ g.map = b.map /\ g.active = a1
      BY <2>9, <3>1, <3>2 DEF HeapType
    <3>5. QED
      BY <2>9, <3>3, <3>4
  <2>11. Removes(h, g, i)
    BY <2>2, <2>3, <2>5, <2>10 DEF Removes
  <2>12. QED
    BY <2>2, <2>11
<1>3. QED
  BY <1>1, <1>2

--------------------------------------------------------------------------------
(* The arithmetic of time.h, in nanoseconds.                               *)

LEMMA UnitAssumption ==
  /\ NSEC_PER_SEC \in Nat \ {0} /\ NSEC_PER_USEC \in Nat \ {0}
  /\ ULONG_MAX \in Nat /\ Infinity \in Nat /\ Readings \subseteq Nat
BY TimerQueueAssumption

LEMMA ExactTimes ==
  ASSUME NEW t \in timespec!Time, NEW u \in timespec!Time, NEW n \in Int
  PROVE  timespec!Exact(t, u, n)
<1>1. t \in TimespecProofs!Time /\ u \in TimespecProofs!Time
  BY DEF timespec!Time, TimespecProofs!Time
<1>2. TimespecProofs!Exact(t, u, n)
  BY <1>1, UnitAssumption, TimespecProofs!TimeIsExact
<1>3. QED
  BY <1>2 DEF timespec!Exact, timespec!Is, timespec!Time, timespec!Units, timespec!add,
     timespec!sub, timespec!add_units, timespec!sub_units, timespec!normalize, timespec!lt,
     timespec!CDiv, timespec!CMod,
     TimespecProofs!Exact, TimespecProofs!Is, TimespecProofs!Time, TimespecProofs!Units,
     TimespecProofs!add, TimespecProofs!sub, TimespecProofs!add_units,
     TimespecProofs!sub_units, TimespecProofs!normalize, TimespecProofs!lt,
     TimespecProofs!CDiv, TimespecProofs!CMod

LEMMA TimeArithmetic ==
  ASSUME NEW t \in timespec!Time, NEW u \in timespec!Time, NEW n \in Int
  PROVE  /\ timespec!Units(t) \in Int
         /\ timespec!sub(t, u) \in timespec!Time
         /\ timespec!Units(timespec!sub(t, u)) = timespec!Units(t) - timespec!Units(u)
         /\ timespec!add_units(t, n) \in timespec!Time
         /\ timespec!Units(timespec!add_units(t, n)) = timespec!Units(t) + n
<1>1. timespec!Exact(t, u, n)
  BY ExactTimes
<1>2. t.sec \in Int /\ t.frac \in Int /\ t.sec * NSEC_PER_SEC \in Int
  BY UnitAssumption DEF timespec!Time
<1>3. timespec!Units(t) \in Int
  BY <1>2 DEF timespec!Units
<1>4. QED
  BY <1>1, <1>3 DEF timespec!Exact, timespec!Is

LEMMA ZeroTime == Zero \in timespec!Time /\ timespec!Units(Zero) = 0
BY UnitAssumption DEF Zero, timespec!Time, timespec!Units

LEMMA Division ==
  ASSUME NEW n \in Nat, NEW d \in Nat \ {0}
  PROVE  /\ n \div d \in Int /\ n % d \in 0..(d - 1)
         /\ (n \div d) * d + (n % d) = n
<1>1. n \div d \in Int /\ n % d \in 0..(d - 1)
  OBVIOUS
<1>2. n % d = n - d * (n \div d)
  OBVIOUS
<1>3. d * (n \div d) = (n \div d) * d /\ d * (n \div d) \in Int
  BY <1>1
<1>4. QED
  BY <1>1, <1>2, <1>3

\* A reading of a clock is a normalised time.
LEMMA ClockReads ==
  ASSUME NEW now \in Times
  PROVE  now \in timespec!Time /\ timespec!Units(now) \in Readings
<1>1. PICK n \in Readings : now = [sec |-> n \div NSEC_PER_SEC, frac |-> n % NSEC_PER_SEC]
  BY DEF Times
<1>2. n \in Nat
  BY UnitAssumption
<1>3. /\ n \div NSEC_PER_SEC \in Int /\ n % NSEC_PER_SEC \in 0..(NSEC_PER_SEC - 1)
      /\ (n \div NSEC_PER_SEC) * NSEC_PER_SEC + (n % NSEC_PER_SEC) = n
  BY <1>2, UnitAssumption, Division
<1>4. now \in timespec!Time
  BY <1>1, <1>3 DEF timespec!Time
<1>5. timespec!Units(now) = n
  <2>1. now.sec = n \div NSEC_PER_SEC /\ now.frac = n % NSEC_PER_SEC
    BY <1>1
  <2>2. QED
    BY <1>3, <2>1 DEF timespec!Units
<1>6. QED
  BY <1>4, <1>5

\* The time for which the main thread polls: never longer than it is to the first
\* timer, in the two forms that are a struct.
LEMMA PollsNoLonger ==
  ASSUME NEW later \in timespec!Time, Loop # "usec"
  PROVE  /\ Nanoseconds(later) \in Nat
         /\ Nanoseconds(later) = 0 \/ Nanoseconds(later) <= timespec!Units(later)
<1> DEFINE ts == timer_next_timeout_timespec(later)
<1>1. /\ ts \in timespec!Time /\ ts.sec >= 0
      /\ ts = Zero \/ ts = later
  BY ZeroTime DEF timer_next_timeout_timespec, timespec!Time, Zero
<1>2. ts.sec \in Nat /\ ts.frac \in Nat
  BY <1>1, UnitAssumption DEF timespec!Time
<1>3. Nanoseconds(later) =
        IF Loop = "timespec" THEN ts.sec * NSEC_PER_SEC + ts.frac
        ELSE ts.sec * NSEC_PER_SEC + (ts.frac \div NSEC_PER_USEC) * NSEC_PER_USEC
  BY TimerQueueAssumption DEF Nanoseconds, timer_next_timeout_timeval, timespec!Units
<1>4. ts.sec * NSEC_PER_SEC \in Nat
  BY <1>2, UnitAssumption
<1>5. /\ (ts.frac \div NSEC_PER_USEC) * NSEC_PER_USEC \in Nat
      /\ (ts.frac \div NSEC_PER_USEC) * NSEC_PER_USEC <= ts.frac
  BY <1>2, UnitAssumption
<1>6. timespec!Units(ts) = ts.sec * NSEC_PER_SEC + ts.frac
  BY DEF timespec!Units
<1> HIDE DEF ts
<1>7. Nanoseconds(later) \in Nat /\ Nanoseconds(later) <= timespec!Units(ts)
  BY <1>2, <1>3, <1>4, <1>5, <1>6
<1>8. QED
  BY <1>1, <1>7, ZeroTime

\* The form that is an unsigned long is at least one.
LEMMA PollsUnsigned ==
  ASSUME NEW later \in timespec!Time, Loop = "usec"
  PROVE  Nanoseconds(later) \in 0..Infinity
<1> DEFINE P == NSEC_PER_SEC \div NSEC_PER_USEC
           v == later.sec * P + later.frac \div NSEC_PER_USEC
           r == v % (ULONG_MAX + 1)
<1>1. P \in Int /\ later.frac \div NSEC_PER_USEC \in Int /\ later.sec \in Int
  BY UnitAssumption DEF timespec!Time
<1>2. Nanoseconds(later) = r * NSEC_PER_USEC
  BY DEF Nanoseconds, timer_next_timeout
<1> HIDE DEF P
<1>3. later.sec * P \in Int
  BY <1>1
<1>4. v \in Int
  BY <1>1, <1>3
<1> HIDE DEF v
<1>5. r \in 0..ULONG_MAX
  BY <1>4, UnitAssumption
<1> HIDE DEF r
<1>6. r * NSEC_PER_USEC \in Nat /\ r * NSEC_PER_USEC <= ULONG_MAX * NSEC_PER_USEC
  BY <1>5, UnitAssumption
<1>7. ULONG_MAX * NSEC_PER_USEC < Infinity /\ ULONG_MAX * NSEC_PER_USEC \in Nat
  BY TimerQueueAssumption
<1>8. QED
  BY <1>2, <1>6, <1>7, UnitAssumption

--------------------------------------------------------------------------------
(* The inductive invariant.                                                *)

InCall == Labels \ {"idle"}

\* A thread in a call works on a timer of its own.  It never gets to modify one
\* that nobody modifies, and finds such a timer unscheduled when it adds it.
\* A thread that raises the signal holds the lock, and one that is about to
\* write has found the pipe empty.
CallOK(q) ==
  /\ pc[q] \in InCall => arg[q] \in Timers /\ owner[arg[q]] = q
  /\ pc[q] \in InCall /\ arg[q] \in Plain => ret[q] = "idle" /\ pc[q] # "index"
  /\ pc[q] \in {"time", "insert"} /\ arg[q] \in Plain => ~heap.active[arg[q]]
  /\ pc[q] \in {"raise", "write"} => lock = q /\ q \in Workers
  /\ pc[q] = "write" => pipe = 0

CallInv == \A q \in Threads : CallOK(q)

\* The times that occur are less than Infinity.
TimeInv ==
  /\ \A t \in Timers : expires[t] \in ExpiriesOf[t] \cup {0}
  /\ \A t \in Timers : timespec!Units(heap.key[t]) \in 0..(Infinity - 1)
  /\ \A q \in Threads : timespec!Units(clock[q]) \in Nat

QueueInv ==
  \A t \in Plain : IF heap.active[t] THEN Once(Cells(heap.map), t)
                                    ELSE Absent(Cells(heap.map), t)

TimerInv == TypeOK /\ CallInv /\ TimeInv /\ QueueInv

LEMMA ThreadFacts ==
  /\ Main \in Threads /\ Main \notin Workers /\ Workers \subseteq Threads
  /\ NoThread \notin Threads /\ NoTimer \notin Timers
  /\ \A q \in Threads : q = Main \/ q \in Workers
  /\ Plain \subseteq Timers
BY TimerQueueAssumption DEF Threads, Plain

\* A step of thread p spoils no other thread's call.
LEMMA OtherCalls ==
  ASSUME TimerInv, NEW p \in Threads,
         \A q \in Threads \ {p} : pc'[q] = pc[q] /\ arg'[q] = arg[q] /\ ret'[q] = ret[q],
         \A t \in Timers : heap'.active[t] => heap.active[t] \/ owner[t] = p,
         lock' = lock \/ lock = NoThread \/ lock = p,
         pipe' = pipe \/ pipe' = 0 \/ lock = p,
         CallOK(p)'
  PROVE  CallInv'
<1> SUFFICES ASSUME NEW q \in Threads, q # p PROVE CallOK(q)'
  BY DEF CallInv
<1>1. CallOK(q) /\ pc'[q] = pc[q] /\ arg'[q] = arg[q] /\ ret'[q] = ret[q]
  BY DEF TimerInv, CallInv
<1>2. ASSUME pc[q] \in {"time", "insert"}, arg[q] \in Plain PROVE ~heap'.active[arg[q]]
  <2>1. arg[q] \in Timers /\ owner[arg[q]] = q /\ ~heap.active[arg[q]]
    BY <1>1, <1>2 DEF CallOK, InCall, Labels
  <2>2. QED
    BY <2>1
<1>3. ASSUME pc[q] \in {"raise", "write"} PROVE lock' = q /\ q \in Workers /\ lock # p
  BY <1>1, <1>3, ThreadFacts DEF CallOK
<1>4. QED
  BY <1>1, <1>2, <1>3 DEF CallOK

\* What a removal does to the queue.
LEMMA QueueRemove ==
  ASSUME TimerInv, NEW i \in Nat, heap' = heap_remove(heap, i)
  PROVE  /\ heap' \in HeapType /\ heap'.key = heap.key /\ QueueInv'
         /\ \A t \in Timers : heap'.active[t] => heap.active[t]
         /\ i > 0 /\ Len(heap'.map) > 0 => Len(heap.map) > 0 /\ heap'.map[1] = heap.map[1]
<1>1. heap \in HeapType /\ QueueInv
  BY DEF TimerInv, TypeOK, HeapType
<1>2. heap' = heap \/ (i < Len(heap.map) /\ Removes(heap, heap', i))
  BY <1>1, HeapRemove
<1>3. CASE heap' = heap
  BY <1>1, <1>3 DEF QueueInv
<1>4. CASE i < Len(heap.map) /\ Removes(heap, heap', i)
  <2> DEFINE r == At(heap, i)
  <2>1. /\ heap' \in HeapType /\ heap'.key = heap.key /\ r \in Timers
        /\ heap'.active = [heap.active EXCEPT ![r] = FALSE]
        /\ \A x \in Timers \ {r} : /\ Once(Cells(heap.map), x) => Once(Cells(heap'.map), x)
                                   /\ Absent(Cells(heap.map), x) => Absent(Cells(heap'.map), x)
        /\ Once(Cells(heap.map), r) => Absent(Cells(heap'.map), r)
        /\ i > 0 /\ Len(heap'.map) > 0 => Len(heap.map) > 0 /\ heap'.map[1] = heap.map[1]
    BY <1>4 DEF Removes
  <2> HIDE DEF r
  <2>2. heap.active \in [Timers -> BOOLEAN]
    BY <1>1 DEF HeapType
  <2>3. \A t \in Timers : heap'.active[t] = IF t = r THEN FALSE ELSE heap.active[t]
    BY <2>1, <2>2
  <2>4. ASSUME NEW t \in Plain
        PROVE  IF heap'.active[t] THEN Once(Cells(heap'.map), t) ELSE Absent(Cells(heap'.map), t)
    <3>1. t \in Timers /\ IF heap.active[t] THEN Once(Cells(heap.map), t)
                                           ELSE Absent(Cells(heap.map), t)
      BY <1>1, ThreadFacts DEF QueueInv
    <3>2. CASE t # r
      BY <2>1, <2>3, <3>1, <3>2
    <3>3. CASE t = r /\ heap.active[t]
      BY <2>1, <2>3, <3>1, <3>3
    <3>4. CASE t = r /\ ~heap.active[t]
      <4>1. Len(heap.map) \in Nat
        BY <1>1, MapFcn
      <4>2. i \in 0..(Len(heap.map) - 1)
        BY <1>4, <4>1
      <4>3. i \in DOMAIN Cells(heap.map) /\ Cells(heap.map)[i] = r
        BY <4>2 DEF Cells, r, At
      <4>4. QED
        BY <3>1, <3>4, <4>3 DEF Absent
    <3>5. QED
      BY <3>2, <3>3, <3>4
  <2>5. QED
    BY <2>1, <2>3, <2>4 DEF QueueInv
<1>5. QED
  BY <1>2, <1>3, <1>4

\* What an insertion does to the queue.
LEMMA QueueInsert ==
  ASSUME TimerInv, NEW t \in Timers, heap' \in heap_insert(heap, t),
         t \in Plain => ~heap.active[t]
  PROVE  /\ heap' \in HeapType /\ heap'.key = heap.key /\ QueueInv'
         /\ \A x \in Timers : heap'.active[x] => heap.active[x] \/ x = t
         /\ \/ heap' = heap \/ heap'.index[t] = 0
            \/ Len(heap.map) > 0 /\ heap'.map[1] = heap.map[1]
<1>1. heap \in HeapType /\ QueueInv
  BY DEF TimerInv, TypeOK, HeapType
<1>2. heap' = heap \/ Inserts(heap, heap', t)
  BY <1>1, HeapInsert
<1>3. CASE heap' = heap
  BY <1>1, <1>3 DEF QueueInv
<1>4. CASE Inserts(heap, heap', t)
  <2>1. /\ heap' \in HeapType /\ heap'.key = heap.key
        /\ heap'.active = [heap.active EXCEPT ![t] = TRUE]
        /\ \A x \in Timers \ {t} : /\ Once(Cells(heap.map), x) => Once(Cells(heap'.map), x)
                                   /\ Absent(Cells(heap.map), x) => Absent(Cells(heap'.map), x)
        /\ Absent(Cells(heap.map), t) => Once(Cells(heap'.map), t)
        /\ heap'.index[t] # 0 => Len(heap.map) > 0 /\ heap'.map[1] = heap.map[1]
    BY <1>4 DEF Inserts
  <2>2. heap.active \in [Timers -> BOOLEAN]
    BY <1>1 DEF HeapType
  <2>3. \A x \in Timers : heap'.active[x] = IF x = t THEN TRUE ELSE heap.active[x]
    BY <2>1, <2>2
  <2>4. ASSUME NEW x \in Plain
        PROVE  IF heap'.active[x] THEN Once(Cells(heap'.map), x) ELSE Absent(Cells(heap'.map), x)
    <3>1. x \in Timers /\ IF heap.active[x] THEN Once(Cells(heap.map), x)
                                           ELSE Absent(Cells(heap.map), x)
      BY <1>1, ThreadFacts DEF QueueInv
    <3>2. CASE x # t
      BY <2>1, <2>3, <3>1, <3>2
    <3>3. CASE x = t
      BY <2>1, <2>3, <3>1, <3>3
    <3>4. QED
      BY <3>2, <3>3
  <2>5. QED
    BY <2>1, <2>3, <2>4 DEF QueueInv
<1>5. QED
  BY <1>2, <1>3, <1>4

--------------------------------------------------------------------------------
(* Each action keeps the invariant.                                        *)

AllLabels == Labels \cup {"next", "lower", "poll", "handle", "gone"}

\* Where a thread goes on, and what becomes of its locals.
LEMMA GoesOn ==
  ASSUME TypeOK, NEW p \in Threads, NEW label \in AllLabels, Goto(p, label),
         p = Main \/ label \in Labels
  PROVE  /\ pc' \in [Threads -> AllLabels] /\ \A w \in Workers : pc'[w] \in Labels
         /\ pc'[p] = label /\ \A q \in Threads \ {p} : pc'[q] = pc[q]
<1>1. pc \in [Threads -> AllLabels] /\ \A w \in Workers : pc[w] \in Labels
  BY DEF TypeOK, AllLabels
<1>2. pc' = [pc EXCEPT ![p] = label]
  BY DEF Goto
<1>3. QED
  BY <1>1, <1>2, ThreadFacts

LEMMA Continues ==
  ASSUME TypeOK, NEW p \in Threads, NEW label \in Labels, Continue(p, label)
  PROVE  /\ pc' \in [Threads -> AllLabels] /\ \A w \in Workers : pc'[w] \in Labels
         /\ arg' \in [Threads -> Timers \cup {NoTimer}]
         /\ was_first' \in [Threads -> BOOLEAN]
         /\ pc'[p] = label /\ (label # "idle" => arg'[p] = arg[p])
         /\ \A q \in Threads \ {p} : pc'[q] = pc[q] /\ arg'[q] = arg[q]
<1>1. Goto(p, label) /\ label \in AllLabels
  BY DEF Continue, AllLabels
<1>2. arg \in [Threads -> Timers \cup {NoTimer}] /\ was_first \in [Threads -> BOOLEAN]
  BY DEF TypeOK
<1>3. /\ arg' \in [Threads -> Timers \cup {NoTimer}] /\ (label # "idle" => arg'[p] = arg[p])
      /\ \A q \in Threads \ {p} : arg'[q] = arg[q]
  BY <1>2 DEF Continue
<1>4. was_first' \in [Threads -> BOOLEAN]
  BY <1>2 DEF Continue
<1>5. QED
  BY <1>1, <1>3, <1>4, GoesOn

LEMMA SetsExpires ==
  ASSUME TimerInv, NEW t \in Timers, SetExpires(t) \/ UNCHANGED expires
  PROVE  /\ expires' \in [Timers -> Nat]
         /\ \A x \in Timers : expires'[x] \in ExpiriesOf[x] \cup {0}
<1>1. /\ expires \in [Timers -> Nat]
      /\ \A x \in Timers : expires[x] \in ExpiriesOf[x] \cup {0}
  BY DEF TimerInv, TypeOK, TimeInv
<1>2. CASE SetExpires(t)
  <2>1. PICK e \in ExpiriesOf[t] : expires' = [expires EXCEPT ![t] = e]
    BY <1>2 DEF SetExpires
  <2>2. e \in Nat
    BY TimerQueueAssumption
  <2>3. QED
    BY <1>1, <2>1, <2>2
<1>3. CASE UNCHANGED expires
  BY <1>1, <1>3
<1>4. QED
  BY <1>2, <1>3

LEMMA CallStep ==
  ASSUME TimerInv, NEW p \in Threads, NEW t \in Timers, NEW op,
         NEW label \in {"index", "time", "del"}, Call(p, t, op, label),
         SetExpires(t) \/ UNCHANGED expires,
         t \in Plain => label # "index", t \in Plain /\ label = "time" => ~heap.active[t]
  PROVE  TimerInv'
<1>1. TypeOK /\ TimeInv /\ QueueInv
  BY DEF TimerInv
<1>2. /\ owner[t] = p
      /\ arg' = [arg EXCEPT ![p] = t] /\ ret' = [ret EXCEPT ![p] = "idle"] /\ Goto(p, label)
      /\ UNCHANGED <<heap, clock, lock, pipe, was_first, sleep>>
  BY DEF Call
<1>3. label \in AllLabels /\ label \in Labels
  BY DEF AllLabels, Labels
<1>4. /\ pc' \in [Threads -> AllLabels] /\ \A w \in Workers : pc'[w] \in Labels
      /\ pc'[p] = label /\ \A q \in Threads \ {p} : pc'[q] = pc[q]
  BY <1>1, <1>2, <1>3, GoesOn
<1>5. arg \in [Threads -> Timers \cup {NoTimer}] /\ ret \in [Threads -> {"idle", "time"}]
  BY <1>1 DEF TypeOK
<1>6. /\ arg' \in [Threads -> Timers \cup {NoTimer}] /\ ret' \in [Threads -> {"idle", "time"}]
      /\ arg'[p] = t /\ ret'[p] = "idle"
      /\ \A q \in Threads \ {p} : arg'[q] = arg[q] /\ ret'[q] = ret[q]
  BY <1>2, <1>5
<1>7. /\ expires' \in [Timers -> Nat]
      /\ \A x \in Timers : expires'[x] \in ExpiriesOf[x] \cup {0}
  BY SetsExpires
<1>8. TypeOK'
  BY <1>1, <1>2, <1>4, <1>6, <1>7 DEF TypeOK, AllLabels
<1>9. CallOK(p)'
  BY <1>2, <1>4, <1>6 DEF CallOK
<1>10. CallInv'
  BY <1>2, <1>4, <1>6, <1>9, OtherCalls
<1>11. TimeInv' /\ QueueInv'
  BY <1>1, <1>2, <1>7 DEF TimeInv, QueueInv
<1>12. QED
  BY <1>8, <1>10, <1>11 DEF TimerInv

LEMMA ClientStep ==
  ASSUME TimerInv, NEW p \in Threads, NEW t \in Timers,
         timer_add(p, t) \/ timer_mod(p, t) \/ timer_del(p, t)
  PROVE  TimerInv'
<1>1. CASE timer_add(p, t)
  BY <1>1, CallStep DEF timer_add
<1>2. CASE timer_mod(p, t)
  <2>1. PICK label \in {"index", "time"} : Call(p, t, "mod", label) /\ UNCHANGED expires
    BY <1>2 DEF timer_mod
  <2>2. t \notin Plain
    BY <2>1 DEF Call, Plain
  <2>3. QED
    BY <2>1, <2>2, CallStep
<1>3. CASE timer_del(p, t)
  BY <1>3, CallStep DEF timer_del
<1>4. QED
  BY <1>1, <1>2, <1>3

LEMMA ModIndexStep ==
  ASSUME TimerInv, NEW p \in Threads, ModIndex(p)
  PROVE  TimerInv'
<1>1. TypeOK /\ TimeInv /\ QueueInv /\ CallOK(p)
  BY DEF TimerInv, CallInv
<1>2. /\ pc[p] = "index" /\ Goto(p, "del")
      /\ was_first' = [was_first EXCEPT ![p] = (heap.index[arg[p]] = 0)]
      /\ ret' = [ret EXCEPT ![p] = "time"]
      /\ UNCHANGED <<expires, clock, heap, lock, pipe, arg, sleep>>
  BY DEF ModIndex, times
<1>3. "del" \in AllLabels /\ "del" \in Labels
  BY DEF AllLabels, Labels
<1>4. /\ pc' \in [Threads -> AllLabels] /\ \A w \in Workers : pc'[w] \in Labels
      /\ pc'[p] = "del" /\ \A q \in Threads \ {p} : pc'[q] = pc[q]
  BY <1>1, <1>2, <1>3, GoesOn
<1>5. was_first \in [Threads -> BOOLEAN] /\ ret \in [Threads -> {"idle", "time"}]
  BY <1>1 DEF TypeOK
<1>6. /\ was_first' \in [Threads -> BOOLEAN] /\ ret' \in [Threads -> {"idle", "time"}]
      /\ \A q \in Threads \ {p} : ret'[q] = ret[q]
  BY <1>2, <1>5
<1>7. TypeOK'
  BY <1>1, <1>2, <1>4, <1>6 DEF TypeOK, AllLabels
<1>8. arg[p] \in Timers /\ owner[arg[p]] = p /\ arg[p] \notin Plain
  BY <1>1, <1>2 DEF CallOK, InCall, Labels
<1>9. CallOK(p)'
  BY <1>2, <1>4, <1>8 DEF CallOK
<1>10. CallInv'
  BY <1>2, <1>4, <1>6, <1>9, OtherCalls
<1>11. TimeInv' /\ QueueInv'
  BY <1>1, <1>2 DEF TimeInv, QueueInv
<1>12. QED
  BY <1>7, <1>10, <1>11 DEF TimerInv

\* A thread that goes on after its critical section, to a raise or to its caller.
LEMMA LeaveCall ==
  ASSUME TimerInv, NEW p \in Threads, pc[p] \in InCall, NEW to \in {"idle", "time"},
         NEW r, Leave(p, r, to), r => p # Main, pipe' = pipe,
         ret'[p] = to, arg[p] \in Plain => to = "idle"
  PROVE  CallOK(p)' /\ lock' \in Threads \cup {NoThread}
<1>1. TypeOK /\ CallOK(p)
  BY DEF TimerInv, CallInv
<1>2. arg[p] \in Timers /\ owner[arg[p]] = p
  BY <1>1 DEF CallOK
<1>3. CASE r
  <2>1. lock' = p /\ Continue(p, "raise")
    BY <1>3 DEF Leave
  <2>2. pc'[p] = "raise" /\ arg'[p] = arg[p]
    BY <1>1, <2>1, Continues, "raise" \in Labels DEF Labels
  <2>3. p \in Workers
    BY <1>3, ThreadFacts
  <2>4. QED
    BY <1>2, <2>1, <2>2, <2>3 DEF CallOK
<1>4. CASE ~r
  <2>1. lock' = NoThread /\ Continue(p, to)
    BY <1>4 DEF Leave
  <2>2. pc'[p] = to /\ (to # "idle" => arg'[p] = arg[p])
    BY <1>1, <2>1, Continues, to \in Labels DEF Labels
  <2>3. QED
    BY <1>2, <2>1, <2>2 DEF CallOK, InCall
<1>5. QED
  BY <1>3, <1>4

LEMMA DelStep ==
  ASSUME TimerInv, NEW p \in Threads, _timer_del(p)
  PROVE  TimerInv'
<1>1. TypeOK /\ TimeInv /\ QueueInv /\ CallOK(p)
  BY DEF TimerInv, CallInv
<1> DEFINE i == heap.index[arg[p]]
           r == MustRaise(p, i = 0)
<1>2. /\ pc[p] = "del" /\ lock = NoThread /\ heap' = heap_remove(heap, i)
      /\ Leave(p, r, ret[p])
      /\ UNCHANGED <<expires, clock, pipe, ret, sleep>>
  BY DEF _timer_del, times
<1>3. pc[p] \in InCall /\ arg[p] \in Timers /\ (arg[p] \in Plain => ret[p] = "idle")
  BY <1>1, <1>2 DEF CallOK, InCall, Labels
<1>4. i \in Nat /\ ret[p] \in {"idle", "time"} /\ (r => p # Main)
  BY <1>1, <1>3 DEF TypeOK, MustRaise
<1> HIDE DEF i, r
<1>5. /\ heap' \in HeapType /\ heap'.key = heap.key /\ QueueInv'
      /\ \A t \in Timers : heap'.active[t] => heap.active[t]
  BY <1>2, <1>4, QueueRemove
<1>6. CallOK(p)' /\ lock' \in Threads \cup {NoThread}
  BY <1>2, <1>3, <1>4, LeaveCall
<1>7. PICK label \in Labels : Continue(p, label)
  BY <1>2, <1>4 DEF Leave, Labels
<1>8. /\ pc' \in [Threads -> AllLabels] /\ \A w \in Workers : pc'[w] \in Labels
      /\ arg' \in [Threads -> Timers \cup {NoTimer}]
      /\ was_first' \in [Threads -> BOOLEAN]
      /\ \A q \in Threads \ {p} : pc'[q] = pc[q] /\ arg'[q] = arg[q]
  BY <1>1, <1>7, Continues
<1>9. TypeOK'
  BY <1>1, <1>2, <1>5, <1>6, <1>8 DEF TypeOK, AllLabels, HeapType
<1>10. CallInv'
  BY <1>2, <1>5, <1>6, <1>8, OtherCalls
<1>11. TimeInv'
  BY <1>1, <1>2, <1>5 DEF TimeInv
<1>12. QED
  BY <1>5, <1>9, <1>10, <1>11 DEF TimerInv

LEMMA ModInsertStep ==
  ASSUME TimerInv, NEW p \in Threads, ModInsert(p)
  PROVE  TimerInv'
<1>1. TypeOK /\ TimeInv /\ QueueInv /\ CallOK(p)
  BY DEF TimerInv, CallInv
<1> DEFINE r == Inserted(p, heap')
<1>2. /\ pc[p] = "insert" /\ lock = NoThread /\ heap' \in heap_insert(heap, arg[p])
      /\ ret' = [ret EXCEPT ![p] = "idle"]
      /\ Leave(p, r, "idle")
      /\ UNCHANGED <<expires, clock, pipe, sleep>>
  BY DEF ModInsert, times
<1>3. /\ pc[p] \in InCall /\ arg[p] \in Timers /\ owner[arg[p]] = p
      /\ arg[p] \in Plain => ~heap.active[arg[p]]
  BY <1>1, <1>2 DEF CallOK, InCall, Labels
<1>4. r => p # Main
  BY DEF Inserted, MustRaise
<1> HIDE DEF r
<1>5. /\ heap' \in HeapType /\ heap'.key = heap.key /\ QueueInv'
      /\ \A x \in Timers : heap'.active[x] => heap.active[x] \/ x = arg[p]
  BY <1>2, <1>3, QueueInsert
<1>6. /\ ret' \in [Threads -> {"idle", "time"}] /\ ret'[p] = "idle"
      /\ \A q \in Threads \ {p} : ret'[q] = ret[q]
  BY <1>1, <1>2 DEF TypeOK
<1>7. CallOK(p)' /\ lock' \in Threads \cup {NoThread}
  BY <1>2, <1>3, <1>4, <1>6, LeaveCall
<1>8. PICK label \in Labels : Continue(p, label)
  BY <1>2 DEF Leave, Labels
<1>9. /\ pc' \in [Threads -> AllLabels] /\ \A w \in Workers : pc'[w] \in Labels
      /\ arg' \in [Threads -> Timers \cup {NoTimer}]
      /\ was_first' \in [Threads -> BOOLEAN]
      /\ \A q \in Threads \ {p} : pc'[q] = pc[q] /\ arg'[q] = arg[q]
  BY <1>1, <1>8, Continues
<1>10. TypeOK'
  BY <1>1, <1>2, <1>5, <1>6, <1>7, <1>9 DEF TypeOK, AllLabels, HeapType
<1>11. \A t \in Timers : heap'.active[t] => heap.active[t] \/ owner[t] = p
  BY <1>3, <1>5
<1>12. CallInv'
  BY <1>2, <1>6, <1>7, <1>9, <1>11, OtherCalls
<1>13. TimeInv'
  BY <1>1, <1>2, <1>5 DEF TimeInv
<1>14. QED
  BY <1>5, <1>10, <1>12, <1>13 DEF TimerInv

LEMMA ModTimeStep ==
  ASSUME TimerInv, NEW p \in Threads, ModTime(p)
  PROVE  TimerInv'
<1>1. TypeOK /\ TimeInv /\ QueueInv /\ CallOK(p)
  BY DEF TimerInv, CallInv
<1>2. /\ pc[p] = "time" /\ Goto(p, "insert")
      /\ SetExpires(arg[p]) \/ UNCHANGED expires
      /\ UNCHANGED <<lock, pipe, arg, ret, was_first, sleep>>
  BY DEF ModTime
<1> DEFINE timeout(now) == timespec!add_units(now, expires'[arg[p]] * NSEC_PER_USEC)
           key(now) == [heap.key EXCEPT ![arg[p]] = timeout(now)]
<1>3. PICK now \in Times : gettime(p, now) /\ heap' = [heap EXCEPT !.key = key(now)]
  BY DEF ModTime
<1>4. now \in timespec!Time /\ timespec!Units(now) \in Readings
  BY ClockReads
<1>5. /\ arg[p] \in Timers /\ owner[arg[p]] = p
      /\ arg[p] \in Plain => ret[p] = "idle" /\ ~heap.active[arg[p]]
  BY <1>1, <1>2 DEF CallOK, InCall, Labels
<1>6. /\ expires' \in [Timers -> Nat]
      /\ \A x \in Timers : expires'[x] \in ExpiriesOf[x] \cup {0}
  BY <1>2, <1>5, SetsExpires
<1>7. /\ expires'[arg[p]] \in Nat /\ expires'[arg[p]] * NSEC_PER_USEC \in Nat
      /\ timespec!Units(now) + expires'[arg[p]] * NSEC_PER_USEC < Infinity
  <2>1. expires'[arg[p]] \in Nat /\ expires'[arg[p]] \in ExpiriesOf[arg[p]] \cup {0}
    BY <1>5, <1>6
  <2>2. expires'[arg[p]] * NSEC_PER_USEC \in Nat
    BY <2>1, UnitAssumption
  <2>3. QED
    BY <1>4, <1>5, <2>1, <2>2, TimerQueueAssumption
<1>8. /\ timeout(now) \in timespec!Time
      /\ timespec!Units(timeout(now)) \in 0..(Infinity - 1)
  <2>1. timespec!Units(now) \in Nat
    BY <1>4, UnitAssumption
  <2> DEFINE d == expires'[arg[p]] * NSEC_PER_USEC
  <2>2. d \in Int /\ d \in Nat /\ timespec!Units(now) + d < Infinity
    BY <1>7
  <2> HIDE DEF d
  <2>3. /\ timespec!add_units(now, d) \in timespec!Time
        /\ timespec!Units(timespec!add_units(now, d)) = timespec!Units(now) + d
    BY <1>4, <2>2, TimeArithmetic
  <2>4. timeout(now) = timespec!add_units(now, d)
    BY DEF d
  <2> HIDE DEF timeout
  <2>5. QED
    BY <2>1, <2>2, <2>3, <2>4, UnitAssumption
<1> HIDE DEF timeout
<1>9. heap \in HeapType /\ heap.key \in [Timers -> timespec!Time]
  BY <1>1 DEF TypeOK, HeapType
<1>10. /\ key(now) \in [Timers -> timespec!Time] /\ key(now)[arg[p]] = timeout(now)
       /\ \A t \in Timers \ {arg[p]} : key(now)[t] = heap.key[t]
  BY <1>5, <1>8, <1>9
<1> HIDE DEF key
<1>11. /\ heap' \in HeapType /\ heap'.key = key(now) /\ heap'.active = heap.active
       /\ heap'.map = heap.map
  BY <1>3, <1>9, <1>10 DEF HeapType
<1>12. /\ clock' \in [Threads -> timespec!Time]
       /\ \A q \in Threads : timespec!Units(clock'[q]) \in Nat
  <2>1. clock \in [Threads -> timespec!Time] /\ \A q \in Threads : timespec!Units(clock[q]) \in Nat
    BY <1>1 DEF TypeOK, TimeInv
  <2>2. clock' = [clock EXCEPT ![p] = now]
    BY <1>3 DEF gettime
  <2>3. timespec!Units(now) \in Nat
    BY <1>4, UnitAssumption
  <2>4. QED
    BY <1>4, <2>1, <2>2, <2>3
<1>13. "insert" \in AllLabels /\ "insert" \in Labels
  BY DEF AllLabels, Labels
<1>14. /\ pc' \in [Threads -> AllLabels] /\ \A w \in Workers : pc'[w] \in Labels
       /\ pc'[p] = "insert" /\ \A q \in Threads \ {p} : pc'[q] = pc[q]
  BY <1>1, <1>2, <1>13, GoesOn
<1>15. TypeOK'
  BY <1>1, <1>2, <1>6, <1>11, <1>12, <1>14 DEF TypeOK, AllLabels, HeapType
<1>16. CallOK(p)'
  BY <1>2, <1>5, <1>11, <1>14 DEF CallOK
<1>17. CallInv'
  BY <1>2, <1>11, <1>14, <1>16, OtherCalls
<1>18. TimeInv'
  BY <1>1, <1>6, <1>8, <1>10, <1>11, <1>12 DEF TimeInv
<1>19. QueueInv'
  BY <1>1, <1>11 DEF QueueInv
<1>20. QED
  BY <1>15, <1>17, <1>18, <1>19 DEF TimerInv

LEMMA RaiseStep ==
  ASSUME TimerInv, NEW p \in Threads, RaiseCheck(p) \/ RaiseWrite(p)
  PROVE  TimerInv'
<1>1. TypeOK /\ TimeInv /\ QueueInv /\ CallOK(p)
  BY DEF TimerInv, CallInv
<1>2. pc[p] \in {"raise", "write"} /\ UNCHANGED <<expires, clock, heap, ret, sleep>>
  BY DEF RaiseCheck, RaiseWrite, times
<1>3. /\ lock = p /\ p \in Workers /\ arg[p] \in Timers /\ owner[arg[p]] = p
      /\ arg[p] \in Plain => ret[p] = "idle"
  BY <1>1, <1>2 DEF CallOK, InCall, Labels
<1>4. ret[p] \in {"idle", "time"} /\ pipe \in {0, 1}
  BY <1>1 DEF TypeOK
<1>5. PICK label \in Labels :
        /\ Continue(p, label)
        /\ \/ label = ret[p] /\ lock' = NoThread
           \/ label = "write" /\ lock' = lock /\ pipe' = 0
        /\ pipe' \in {0, 1}
  <2>1. CASE RaiseCheck(p) /\ pipe > 0
    BY <1>4, <2>1 DEF RaiseCheck, Labels
  <2>2. CASE RaiseCheck(p) /\ ~(pipe > 0)
    BY <1>4, <2>2 DEF RaiseCheck, Labels
  <2>3. CASE RaiseWrite(p)
    <3>1. pipe = 0
      BY <1>1, <2>3 DEF RaiseWrite, CallOK
    <3>2. QED
      BY <1>4, <2>3, <3>1 DEF RaiseWrite, Labels
  <2>4. QED
    BY <2>1, <2>2, <2>3
<1>6. /\ pc' \in [Threads -> AllLabels] /\ \A w \in Workers : pc'[w] \in Labels
      /\ arg' \in [Threads -> Timers \cup {NoTimer}]
      /\ was_first' \in [Threads -> BOOLEAN]
      /\ pc'[p] = label /\ (label # "idle" => arg'[p] = arg[p])
      /\ \A q \in Threads \ {p} : pc'[q] = pc[q] /\ arg'[q] = arg[q]
  BY <1>1, <1>5, Continues
<1>7. lock' \in Threads \cup {NoThread}
  BY <1>3, <1>5
<1>8. TypeOK'
  BY <1>1, <1>2, <1>5, <1>6, <1>7 DEF TypeOK, AllLabels
<1>9. CallOK(p)'
  <2>1. CASE label = "write" /\ lock' = lock /\ pipe' = 0
    BY <1>2, <1>3, <1>6, <2>1 DEF CallOK
  <2>2. CASE label = ret[p]
    BY <1>2, <1>3, <1>4, <1>6, <2>2 DEF CallOK, InCall
  <2>3. QED
    BY <1>5, <2>1, <2>2
<1>10. CallInv'
  BY <1>2, <1>3, <1>6, <1>9, OtherCalls
<1>11. TimeInv' /\ QueueInv'
  BY <1>1, <1>2 DEF TimeInv, QueueInv
<1>12. QED
  BY <1>8, <1>10, <1>11 DEF TimerInv

\* The main thread in its loop, outside of any call.
LEMMA LoopStep ==
  ASSUME TimerInv, NEW label \in {"idle", "next", "lower", "poll", "handle"}, Goto(Main, label),
         UNCHANGED <<expires, lock, arg, ret, was_first>>,
         pipe' = pipe \/ pipe' = 0,
         heap' = heap \/ heap' = heap_remove(heap, 0),
         clock' \in [Threads -> timespec!Time],
         \A q \in Threads : timespec!Units(clock'[q]) \in Nat,
         sleep' \in 0..Infinity
  PROVE  TimerInv'
<1>1. TypeOK /\ TimeInv /\ QueueInv
  BY DEF TimerInv
<1>2. label \in AllLabels /\ label \notin InCall
  BY DEF AllLabels, InCall, Labels
<1>3. /\ pc' \in [Threads -> AllLabels] /\ \A w \in Workers : pc'[w] \in Labels
      /\ pc'[Main] = label /\ \A q \in Threads \ {Main} : pc'[q] = pc[q]
  BY <1>1, <1>2, GoesOn, ThreadFacts
<1>4. /\ heap' \in HeapType /\ heap'.key = heap.key /\ QueueInv'
      /\ \A t \in Timers : heap'.active[t] => heap.active[t]
  <2>1. CASE heap' = heap
    BY <1>1, <2>1 DEF TypeOK, HeapType, QueueInv
  <2>2. CASE heap' = heap_remove(heap, 0)
    BY <2>2, QueueRemove
  <2>3. QED
    BY <2>1, <2>2
<1>5. pipe' \in {0, 1}
  BY <1>1 DEF TypeOK
<1>6. TypeOK'
  BY <1>1, <1>3, <1>4, <1>5 DEF TypeOK, AllLabels, HeapType
<1>7. CallOK(Main)'
  BY <1>2, <1>3 DEF CallOK, InCall, Labels
<1>8. CallInv'
  BY <1>3, <1>4, <1>7, OtherCalls, ThreadFacts
<1>9. TimeInv'
  BY <1>1, <1>4 DEF TimeInv
<1>10. QED
  BY <1>4, <1>6, <1>8, <1>9 DEF TimerInv

\* The time for which the main thread is going to poll.
LEMMA NextSleep ==
  ASSUME TimerInv, ~heap_empty(heap), NEW now \in Times
  PROVE  LET later == timespec!sub(FrontKey, now)
         IN  /\ heap_front(heap) \in Timers /\ FrontKey \in timespec!Time
             /\ timespec!Units(FrontKey) \in 0..(Infinity - 1)
             /\ timespec!Units(now) \in Nat /\ later \in timespec!Time
             /\ timespec!Units(later) = timespec!Units(FrontKey) - timespec!Units(now)
             /\ Nanoseconds(later) \in 0..Infinity
<1> DEFINE later == timespec!sub(FrontKey, now)
<1>1. heap \in HeapType
  BY DEF TimerInv, TypeOK, HeapType
<1>2. heap_front(heap) \in Timers
  <2>1. Len(heap.map) \in Nat /\ heap.map \in [1..Len(heap.map) -> Timers]
    BY <1>1, MapFcn
  <2>2. 1 \in 1..Len(heap.map)
    BY <2>1 DEF heap_empty
  <2>3. QED
    BY <2>1, <2>2 DEF heap_front
<1>3. FrontKey \in timespec!Time /\ timespec!Units(FrontKey) \in 0..(Infinity - 1)
  BY <1>1, <1>2 DEF FrontKey, HeapType, TimerInv, TimeInv
<1>4. now \in timespec!Time /\ timespec!Units(now) \in Nat
  BY ClockReads, UnitAssumption
<1>5. /\ later \in timespec!Time
      /\ timespec!Units(later) = timespec!Units(FrontKey) - timespec!Units(now)
  BY <1>3, <1>4, TimeArithmetic, 0 \in Int
<1> HIDE DEF later
<1>6. Nanoseconds(later) \in 0..Infinity
  <2>1. CASE Loop = "usec"
    BY <1>5, <2>1, PollsUnsigned
  <2>2. CASE Loop # "usec"
    <3>1. /\ Nanoseconds(later) \in Nat
          /\ Nanoseconds(later) = 0 \/ Nanoseconds(later) <= timespec!Units(later)
      BY <1>5, <2>2, PollsNoLonger
    <3>2. QED
      BY <1>3, <1>4, <1>5, <3>1, UnitAssumption
  <2>3. QED
    BY <2>1, <2>2
<1>7. QED
  BY <1>2, <1>3, <1>4, <1>5, <1>6 DEF later

LEMMA MainLoopStep ==
  ASSUME TimerInv, MainLoop
  PROVE  TimerInv'
<1>1. /\ clock \in [Threads -> timespec!Time] /\ sleep \in 0..Infinity /\ Infinity \in 0..Infinity
      /\ \A q \in Threads : timespec!Units(clock[q]) \in Nat
  BY UnitAssumption DEF TimerInv, TypeOK, TimeInv
<1>2. CASE SignalLower
  <2>1. PICK label \in {"next", "poll"} : Goto(Main, label)
    BY <1>2 DEF SignalLower
  <2>2. QED
    BY <1>1, <1>2, <2>1, LoopStep DEF SignalLower, times
<1>3. CASE NextTimeout
  <2>1. PICK label \in {"poll", "lower"} : Goto(Main, label)
    BY <1>3 DEF NextTimeout
  <2>2. /\ sleep' \in 0..Infinity /\ clock' \in [Threads -> timespec!Time]
        /\ \A q \in Threads : timespec!Units(clock'[q]) \in Nat
    <3>1. CASE heap_empty(heap)
      BY <1>1, <1>3, <3>1 DEF NextTimeout
    <3>2. CASE ~heap_empty(heap)
      <4>1. PICK now \in Times :
              gettime(Main, now) /\ sleep' = Nanoseconds(timespec!sub(FrontKey, now))
        BY <1>3, <3>2 DEF NextTimeout
      <4>2. clock' = [clock EXCEPT ![Main] = now]
        BY <4>1 DEF gettime
      <4>3. now \in timespec!Time /\ timespec!Units(now) \in Nat
        BY ClockReads, UnitAssumption
      <4>4. sleep' \in 0..Infinity
        BY <3>2, <4>1, NextSleep
      <4>5. QED
        BY <1>1, <4>2, <4>3, <4>4
    <3>3. QED
      BY <3>1, <3>2
  <2>3. QED
    BY <1>3, <2>1, <2>2, LoopStep DEF NextTimeout
<1>4. CASE PollSignalled
  BY <1>1, <1>4, LoopStep DEF PollSignalled, times
<1>5. CASE PollExpires
  BY <1>1, <1>5, LoopStep DEF PollExpires, times
<1>6. CASE timer_handle_timeout
  BY <1>1, <1>6, LoopStep DEF timer_handle_timeout, times
<1>7. QED
  BY <1>2, <1>3, <1>4, <1>5, <1>6 DEF MainLoop

LEMMA FiniStep ==
  ASSUME TimerInv, timer_queue_fini
  PROVE  TimerInv'
<1>1. TypeOK /\ TimeInv
  BY DEF TimerInv
<1>2. /\ heap' = [heap EXCEPT !.map = <<>>, !.active = [t \in Timers |-> FALSE],
                               !.index = [t \in Timers |-> 0]]
      /\ pipe' = 0 /\ Goto(Main, "gone")
      /\ UNCHANGED <<expires, clock, lock, arg, ret, was_first, sleep>>
  BY DEF timer_queue_fini, times
<1>3. "gone" \in AllLabels
  BY DEF AllLabels
<1>4. /\ pc' \in [Threads -> AllLabels] /\ \A w \in Workers : pc'[w] \in Labels
      /\ pc'[Main] = "gone" /\ \A q \in Threads \ {Main} : pc'[q] = pc[q]
  BY <1>1, <1>2, <1>3, GoesOn, ThreadFacts
<1>5. /\ heap' \in HeapType /\ heap'.key = heap.key /\ heap'.map = <<>>
      /\ heap'.active = [t \in Timers |-> FALSE]
  <2> DEFINE act == [t \in Timers |-> FALSE]
             ind == [t \in Timers |-> 0]
             none == <<>>
  <2>1. act \in [Timers -> BOOLEAN] /\ ind \in [Timers -> Nat] /\ none \in Seq(Timers)
    OBVIOUS
  <2>2. heap \in HeapType /\ heap' = [heap EXCEPT !.map = none, !.active = act, !.index = ind]
    BY <1>1, <1>2 DEF TypeOK, HeapType
  <2> HIDE DEF act, ind, none
  <2>3. heap' \in HeapType /\ heap'.key = heap.key /\ heap'.map = none /\ heap'.active = act
    BY <2>1, <2>2 DEF HeapType
  <2>4. QED
    BY <2>3 DEF act, none
<1>6. TypeOK'
  BY <1>1, <1>2, <1>4, <1>5 DEF TypeOK, AllLabels, HeapType
<1>7. CallOK(Main)'
  BY <1>4 DEF CallOK, InCall, Labels
<1>8. \A t \in Timers : ~heap'.active[t]
  BY <1>5
<1>9. CallInv'
  BY <1>2, <1>4, <1>7, <1>8, OtherCalls, ThreadFacts
<1>10. TimeInv'
  BY <1>1, <1>2, <1>5 DEF TimeInv
<1>11. DOMAIN Cells(heap'.map) = {}
  BY <1>5, Len(<<>>) = 0, 0..(0 - 1) = {} DEF Cells
<1>12. QueueInv'
  BY <1>8, <1>11, ThreadFacts DEF QueueInv, Absent
<1>13. QED
  BY <1>6, <1>9, <1>10, <1>12 DEF TimerInv

LEMMA TimerNext == TimerInv /\ [Next]_vars => TimerInv'
<1> SUFFICES ASSUME TimerInv, [Next]_vars PROVE TimerInv'
  OBVIOUS
<1>1. ASSUME NEW p \in Threads, Step(p) PROVE TimerInv'
  BY <1>1, ModIndexStep, DelStep, ModTimeStep, ModInsertStep, RaiseStep DEF Step
<1>2. CASE UNCHANGED vars
  <2>1. UNCHANGED <<heap, expires, clock, lock, pipe, pc, arg, ret, was_first, sleep>>
    BY <1>2 DEF vars, times
  <2>2. TypeOK' /\ TimeInv' /\ QueueInv'
    BY <2>1 DEF TimerInv, TypeOK, TimeInv, QueueInv
  <2>3. CallInv'
    BY <2>1 DEF TimerInv, CallInv, CallOK
  <2>4. QED
    BY <2>2, <2>3 DEF TimerInv
<1>3. QED
  BY <1>1, <1>2, ClientStep, MainLoopStep, FiniStep DEF Next

LEMMA TimerInit == Init => TimerInv
<1> SUFFICES ASSUME Init PROVE TimerInv
  OBVIOUS
<1>1. heap = [map |-> <<>>, max_size |-> HEAP_DEFAULT_SIZE, key |-> [t \in Timers |-> Zero],
              index |-> [x \in Timers |-> 0], active |-> [x \in Timers |-> FALSE]]
  BY DEF Init, heap_init
<1>2. heap \in HeapType
  BY <1>1, ZeroTime, TimerQueueAssumption DEF HeapType
<1>3. 0 < Infinity
  <2>1. ULONG_MAX * NSEC_PER_USEC \in Nat /\ ULONG_MAX * NSEC_PER_USEC < Infinity
    BY UnitAssumption, TimerQueueAssumption
  <2>2. QED
    BY <2>1, UnitAssumption
<1>4. TypeOK
  BY <1>2, ZeroTime, UnitAssumption, ThreadFacts DEF Init, TypeOK, HeapType, Labels
<1>5. CallInv
  BY DEF Init, CallInv, CallOK, InCall, Labels
<1>6. TimeInv
  BY <1>1, <1>3, ZeroTime, UnitAssumption DEF Init, TimeInv
<1>7. DOMAIN Cells(heap.map) = {}
  BY <1>1, Len(<<>>) = 0, 0..(0 - 1) = {} DEF Cells
<1>8. QueueInv
  BY <1>1, <1>7, ThreadFacts DEF QueueInv, Absent
<1>9. QED
  BY <1>4, <1>5, <1>6, <1>8 DEF TimerInv

--------------------------------------------------------------------------------

\* The queue, the clocks and the threads keep their types: the pipe of the signal
\* never holds more than the one integer that timer_queue_signal_raise wrote.
THEOREM TimerTypeCorrect == Spec => []TypeOK
<1>1. TimerInv => TypeOK
  BY DEF TimerInv
<1>2. QED
  BY <1>1, TimerInit, TimerNext, PTL DEF Spec

\* timespec_sub and timespec_add_nsec are exact on all the times of the queue,
\* and timespec_lt, the comparison of the heap, orders them in time.
THEOREM TimerTimesExact == Spec => []TimesExact
<1>1. TimerInv => TimesExact
  <2> SUFFICES ASSUME TimerInv, NEW t \in Timers, NEW p \in Threads
               PROVE  timespec!Exact(heap.key[t], clock[p], -expires[t] * NSEC_PER_USEC)
    BY DEF TimesExact
  <2>1. heap.key[t] \in timespec!Time /\ clock[p] \in timespec!Time /\ expires[t] \in Nat
    BY DEF TimerInv, TypeOK
  <2>2. -expires[t] * NSEC_PER_USEC \in Int
    BY <2>1, UnitAssumption
  <2>3. QED
    BY <2>1, <2>2, ExactTimes
<1>2. QED
  BY <1>1, TimerInit, TimerNext, PTL DEF Spec

\* A timer that nobody modifies is in the queue once when it is scheduled and
\* not at all when it is not, whatever other threads do.
THEOREM TimerQueueIsActive == Spec => []QueueIsActive
<1>1. TimerInv => QueueIsActive
  <2> SUFFICES ASSUME TimerInv, NEW t \in Plain
               PROVE  Cardinality({j \in DOMAIN heap.map : heap.map[j] = t})
                        = IF heap.active[t] THEN 1 ELSE 0
    BY DEF QueueIsActive
  <2> DEFINE J == {j \in DOMAIN heap.map : heap.map[j] = t}
             n == Len(heap.map)
  <2>1. n \in Nat /\ DOMAIN heap.map = 1..n
    BY DEF TimerInv, TypeOK
  <2>2. Cells(heap.map) = [p \in 0..(n - 1) |-> heap.map[p + 1]]
    BY DEF Cells
  <2> HIDE DEF n
  <2>3. \A j \in 1..n : j - 1 \in 0..(n - 1) /\ (j - 1) + 1 = j
    BY <2>1
  <2>4. \A k \in 0..(n - 1) : k + 1 \in 1..n /\ (k + 1) - 1 = k
    BY <2>1
  <2>5. CASE heap.active[t]
    <3>1. Once(Cells(heap.map), t)
      BY <2>5 DEF TimerInv, QueueInv
    <3>2. PICK p \in 0..(n - 1) : \A k \in 0..(n - 1) : heap.map[k + 1] = t <=> k = p
      BY <2>2, <3>1 DEF Once
    <3>3. J = {p + 1}
      BY <2>1, <2>3, <2>4, <3>2
    <3>4. QED
      BY <2>5, <3>3, FS_Singleton
  <2>6. CASE ~heap.active[t]
    <3>1. Absent(Cells(heap.map), t)
      BY <2>6 DEF TimerInv, QueueInv
    <3>2. \A k \in 0..(n - 1) : heap.map[k + 1] # t
      BY <2>2, <3>1 DEF Absent
    <3>3. J = {}
      BY <2>1, <2>3, <3>2
    <3>4. QED
      BY <2>6, <3>3, FS_EmptySet
  <2>7. QED
    BY <2>5, <2>6
<1>2. QED
  BY <1>1, TimerInit, TimerNext, PTL DEF Spec

--------------------------------------------------------------------------------
(* No missed reschedule.                                                   *)

\* A worker's step that leaves the first timer alone, or is followed by a raise.
LEMMA StillWoken ==
  ASSUME TimerInv, NoMissedReschedule, pc'[Main] = pc[Main], sleep' = sleep,
         clock'[Main] = clock[Main],
         \/ \E w \in Workers : pc'[w] \in {"raise", "write"}
         \/ heap_front(heap)' \in Plain /\ ~heap_empty(heap)' =>
              /\ ~heap_empty(heap) /\ heap_front(heap)' = heap_front(heap)
              /\ heap'.key[heap_front(heap)] = heap.key[heap_front(heap)],
         \/ pipe' > 0
         \/ pipe' = pipe /\ \A w \in Workers : pc[w] \in {"raise", "write"} =>
                                               pc'[w] \in {"raise", "write"}
  PROVE  NoMissedReschedule'
BY DEF NoMissedReschedule, FrontKey

LEMMA NotPolling == ASSUME pc'[Main] # "poll" PROVE NoMissedReschedule'
BY DEF NoMissedReschedule

LEMMA FrontIsTimer ==
  ASSUME TimerInv, ~heap_empty(heap), heap_front(heap) \in Plain
  PROVE  heap_front(heap) \in Timers /\ heap.active[heap_front(heap)]
<1>1. heap \in HeapType
  BY DEF TimerInv, TypeOK, HeapType
<1>2. Len(heap.map) \in Nat
  BY <1>1, MapFcn
<1>3. 0 \in 0..(Len(heap.map) - 1) /\ 0 + 1 = 1
  BY <1>2 DEF heap_empty
<1>4. 0 \in DOMAIN Cells(heap.map) /\ Cells(heap.map)[0] = heap_front(heap)
  BY <1>3 DEF Cells, heap_front
<1>5. ~Absent(Cells(heap.map), heap_front(heap))
  BY <1>4 DEF Absent
<1>6. QED
  BY <1>5, ThreadFacts DEF TimerInv, QueueInv

\* A step of a thread that goes on at a label of a call.
LEMMA WakeCall ==
  ASSUME TimerInv, NoMissedReschedule, NEW p \in Threads, NEW t \in Timers,
         timer_add(p, t) \/ timer_mod(p, t) \/ timer_del(p, t)
  PROVE  NoMissedReschedule'
<1>1. PICK label \in {"index", "time", "del"} :
        /\ pc[p] = "idle" /\ Goto(p, label)
        /\ UNCHANGED <<heap, clock, lock, pipe, was_first, sleep>>
  BY DEF timer_add, timer_mod, timer_del, Call
<1>2. TypeOK /\ label \in AllLabels /\ label \in Labels /\ label # "poll"
  BY DEF TimerInv, AllLabels, Labels
<1>3. pc'[p] = label /\ \A q \in Threads \ {p} : pc'[q] = pc[q]
  BY <1>1, <1>2, GoesOn
<1>4. CASE p = Main
  BY <1>2, <1>3, <1>4, NotPolling
<1>5. CASE p # Main
  <2>1. pc'[Main] = pc[Main]
    BY <1>3, <1>5, ThreadFacts
  <2>2. \A w \in Workers : pc[w] \in {"raise", "write"} => pc'[w] \in {"raise", "write"}
    BY <1>1, <1>3, ThreadFacts
  <2>3. heap_front(heap)' = heap_front(heap) /\ heap_empty(heap)' = heap_empty(heap)
    BY <1>1 DEF heap_front, heap_empty
  <2>4. QED
    BY <1>1, <2>1, <2>2, <2>3, StillWoken
<1>6. QED
  BY <1>4, <1>5

LEMMA WakeIndex ==
  ASSUME TimerInv, NoMissedReschedule, NEW p \in Threads, ModIndex(p)
  PROVE  NoMissedReschedule'
<1>1. /\ pc[p] = "index" /\ Goto(p, "del")
      /\ UNCHANGED <<expires, clock, heap, lock, pipe, arg, sleep>>
  BY DEF ModIndex, times
<1>2. TypeOK /\ "del" \in AllLabels /\ "del" \in Labels
  BY DEF TimerInv, AllLabels, Labels
<1>3. pc'[p] = "del" /\ \A q \in Threads \ {p} : pc'[q] = pc[q]
  BY <1>1, <1>2, GoesOn
<1>4. CASE p = Main
  BY <1>3, <1>4, NotPolling
<1>5. CASE p # Main
  <2>1. pc'[Main] = pc[Main]
    BY <1>3, <1>5, ThreadFacts
  <2>2. \A w \in Workers : pc[w] \in {"raise", "write"} => pc'[w] \in {"raise", "write"}
    BY <1>1, <1>3, ThreadFacts
  <2>3. heap_front(heap)' = heap_front(heap) /\ heap_empty(heap)' = heap_empty(heap)
    BY <1>1 DEF heap_front, heap_empty
  <2>4. QED
    BY <1>1, <2>1, <2>2, <2>3, StillWoken
<1>6. QED
  BY <1>4, <1>5

\* The new timeout of a timer is set before the lock is taken, but not of one that
\* is in the queue.
LEMMA WakeTime ==
  ASSUME TimerInv, NoMissedReschedule, NEW p \in Threads, ModTime(p)
  PROVE  NoMissedReschedule'
<1>1. TypeOK /\ CallOK(p)
  BY DEF TimerInv, CallInv
<1>2. pc[p] = "time" /\ Goto(p, "insert") /\ UNCHANGED <<lock, pipe, arg, ret, was_first, sleep>>
  BY DEF ModTime
<1> DEFINE timeout(now) == timespec!add_units(now, expires'[arg[p]] * NSEC_PER_USEC)
<1>3. PICK now \in Times :
        /\ clock' = [clock EXCEPT ![p] = now]
        /\ heap' = [heap EXCEPT !.key = [heap.key EXCEPT ![arg[p]] = timeout(now)]]
  BY DEF ModTime, gettime
<1> DEFINE v == timeout(now)
<1> HIDE DEF v
<1>4. "insert" \in AllLabels /\ "insert" \in Labels
  BY DEF AllLabels, Labels
<1>5. pc'[p] = "insert" /\ \A q \in Threads \ {p} : pc'[q] = pc[q]
  BY <1>1, <1>2, <1>4, GoesOn
<1>6. CASE p = Main
  BY <1>5, <1>6, NotPolling
<1>7. CASE p # Main
  <2>1. pc'[Main] = pc[Main] /\ clock'[Main] = clock[Main]
    BY <1>1, <1>3, <1>5, <1>7, ThreadFacts DEF TypeOK
  <2>2. \A w \in Workers : pc[w] \in {"raise", "write"} => pc'[w] \in {"raise", "write"}
    BY <1>2, <1>5, ThreadFacts
  <2>3. arg[p] \in Plain => ~heap.active[arg[p]]
    BY <1>1, <1>2 DEF CallOK
  <2>4. heap \in HeapType
    BY <1>1 DEF TypeOK, HeapType
  <2>5. heap'.map = heap.map /\ heap'.key = [heap.key EXCEPT ![arg[p]] = v]
    BY <1>3, <2>4 DEF HeapType, v
  <2>6. heap_front(heap)' = heap_front(heap) /\ heap_empty(heap)' = heap_empty(heap)
    BY <2>5 DEF heap_front, heap_empty
  <2>7. ASSUME heap_front(heap) \in Plain, ~heap_empty(heap)
        PROVE  heap'.key[heap_front(heap)] = heap.key[heap_front(heap)]
    <3>1. heap_front(heap) \in Timers /\ heap.active[heap_front(heap)]
      BY <2>7, FrontIsTimer
    <3>2. heap_front(heap) # arg[p]
      BY <2>3, <2>7, <3>1
    <3>3. QED
      BY <2>4, <2>5, <3>1, <3>2 DEF HeapType
  <2>8. QED
    BY <1>2, <2>1, <2>2, <2>6, <2>7, StillWoken
<1>8. QED
  BY <1>6, <1>7

\* A critical section of a worker that changes the first timer ends in a raise.
LEMMA WakeLeave ==
  ASSUME TimerInv, NoMissedReschedule, NEW p \in Threads, pc[p] \in {"del", "insert"},
         NEW r \in BOOLEAN, NEW to \in {"idle", "time"}, Leave(p, r, to),
         UNCHANGED <<expires, clock, pipe, sleep>>, heap'.key = heap.key,
         p # Main /\ ~r /\ Len(heap'.map) # 0 => Len(heap.map) # 0 /\ heap'.map[1] = heap.map[1]
  PROVE  NoMissedReschedule'
<1>1. TypeOK
  BY DEF TimerInv
<1>2. PICK label \in Labels : Continue(p, label) /\ label = IF r THEN "raise" ELSE to
  BY DEF Leave, Labels
<1>3. pc'[p] = label /\ label # "poll" /\ \A q \in Threads \ {p} : pc'[q] = pc[q]
  BY <1>1, <1>2, Continues
<1>4. CASE p = Main
  BY <1>3, <1>4, NotPolling
<1>5. CASE p # Main
  <2>1. pc'[Main] = pc[Main] /\ p \in Workers
    BY <1>3, <1>5, ThreadFacts
  <2>2. \A w \in Workers : pc[w] \in {"raise", "write"} => pc'[w] \in {"raise", "write"}
    BY <1>3, ThreadFacts
  <2>3. CASE r
    BY <1>2, <1>3, <2>1, <2>2, <2>3, StillWoken
  <2>4. CASE ~r
    <3>1. ~heap_empty(heap)' => ~heap_empty(heap) /\ heap_front(heap)' = heap_front(heap)
      BY <1>5, <2>4 DEF heap_empty, heap_front
    <3>2. QED
      BY <2>1, <2>2, <3>1, StillWoken
  <2>5. QED
    BY <2>3, <2>4
<1>6. QED
  BY <1>4, <1>5

LEMMA WakeDel ==
  ASSUME TimerInv, NoMissedReschedule, NEW p \in Threads, _timer_del(p)
  PROVE  NoMissedReschedule'
<1>1. TypeOK /\ CallOK(p)
  BY DEF TimerInv, CallInv
<1> DEFINE i == heap.index[arg[p]]
           r == MustRaise(p, i = 0)
<1>2. /\ pc[p] = "del" /\ heap' = heap_remove(heap, i) /\ Leave(p, r, ret[p])
      /\ UNCHANGED <<expires, clock, pipe, sleep>>
  BY DEF _timer_del, times
<1>3. arg[p] \in Timers
  BY <1>1, <1>2 DEF CallOK, InCall, Labels
<1>4. /\ i \in Nat /\ ret[p] \in {"idle", "time"} /\ r \in BOOLEAN
      /\ p # Main /\ ~r => i > 0
  BY <1>1, <1>3 DEF TypeOK, MustRaise
<1> HIDE DEF i, r
<1>5. /\ heap' \in HeapType /\ heap'.key = heap.key
      /\ i > 0 /\ Len(heap'.map) > 0 => Len(heap.map) > 0 /\ heap'.map[1] = heap.map[1]
  BY <1>2, <1>4, QueueRemove
<1>6. Len(heap'.map) \in Nat /\ Len(heap.map) \in Nat
  BY <1>1, <1>5, MapFcn DEF TypeOK, HeapType
<1>7. p # Main /\ ~r /\ Len(heap'.map) # 0 => Len(heap.map) # 0 /\ heap'.map[1] = heap.map[1]
  BY <1>4, <1>5, <1>6
<1>8. QED
  BY <1>2, <1>4, <1>5, <1>7, WakeLeave

LEMMA WakeInsert ==
  ASSUME TimerInv, NoMissedReschedule, NEW p \in Threads, ModInsert(p)
  PROVE  NoMissedReschedule'
<1>1. TypeOK /\ CallOK(p)
  BY DEF TimerInv, CallInv
<1> DEFINE r == Inserted(p, heap')
<1>2. /\ pc[p] = "insert" /\ heap' \in heap_insert(heap, arg[p]) /\ Leave(p, r, "idle")
      /\ UNCHANGED <<expires, clock, pipe, sleep>>
  BY DEF ModInsert, times
<1>3. arg[p] \in Timers /\ (arg[p] \in Plain => ~heap.active[arg[p]])
  BY <1>1, <1>2 DEF CallOK, InCall, Labels
<1>4. r \in BOOLEAN /\ (p # Main /\ ~r => heap' = heap \/ heap'.index[arg[p]] # 0)
  BY DEF Inserted, MustRaise
<1> HIDE DEF r
<1>5. /\ heap'.key = heap.key
      /\ \/ heap' = heap \/ heap'.index[arg[p]] = 0
         \/ Len(heap.map) > 0 /\ heap'.map[1] = heap.map[1]
  BY <1>2, <1>3, QueueInsert
<1>6. p # Main /\ ~r /\ Len(heap'.map) # 0 => Len(heap.map) # 0 /\ heap'.map[1] = heap.map[1]
  BY <1>4, <1>5
<1>7. QED
  BY <1>2, <1>4, <1>5, <1>6, WakeLeave

\* A raise ends with an integer in the pipe, its own or the one that it found.
LEMMA WakeRaise ==
  ASSUME TimerInv, NoMissedReschedule, NEW p \in Threads, RaiseCheck(p) \/ RaiseWrite(p)
  PROVE  NoMissedReschedule'
<1>1. TypeOK /\ CallOK(p)
  BY DEF TimerInv, CallInv
<1>2. pc[p] \in {"raise", "write"} /\ UNCHANGED <<expires, clock, heap, ret, sleep>>
  BY DEF RaiseCheck, RaiseWrite, times
<1>3. p \in Workers /\ ret[p] \in {"idle", "time"} /\ pipe \in {0, 1}
  BY <1>1, <1>2 DEF CallOK, TypeOK
<1>4. PICK label \in Labels :
        Continue(p, label) /\ (pipe' > 0 \/ (label = "write" /\ pipe' = pipe))
  <2>1. CASE RaiseCheck(p) /\ pipe > 0
    BY <1>3, <2>1 DEF RaiseCheck, Labels
  <2>2. CASE RaiseCheck(p) /\ ~(pipe > 0)
    BY <2>2 DEF RaiseCheck, Labels
  <2>3. CASE RaiseWrite(p)
    BY <1>3, <2>3 DEF RaiseWrite, Labels
  <2>4. QED
    BY <2>1, <2>2, <2>3
<1>5. pc'[p] = label /\ \A q \in Threads \ {p} : pc'[q] = pc[q]
  BY <1>1, <1>4, Continues
<1>6. pc'[Main] = pc[Main]
  BY <1>3, <1>5, ThreadFacts
<1>7. \/ pipe' > 0
      \/ pipe' = pipe /\ \A w \in Workers : pc[w] \in {"raise", "write"} =>
                                            pc'[w] \in {"raise", "write"}
  BY <1>4, <1>5, ThreadFacts
<1>8. heap_front(heap)' = heap_front(heap) /\ heap_empty(heap)' = heap_empty(heap)
  BY <1>2 DEF heap_front, heap_empty
<1>9. QED
  BY <1>2, <1>6, <1>7, <1>8, StillWoken

\* The main thread lowers the signal before it looks at the queue, and polls no
\* longer than to the timer that it then finds first.
LEMMA WakeMain ==
  ASSUME TimerInv, Loop # "usec", MainLoop
  PROVE  NoMissedReschedule'
<1>1. TypeOK /\ LowersFirst /\ {"idle", "next", "handle"} \subseteq AllLabels
  BY DEF TimerInv, AllLabels, Labels, LowersFirst
<1>2. CASE SignalLower
  <2>1. pc'[Main] = "next"
    BY <1>1, <1>2, ThreadFacts, GoesOn DEF SignalLower
  <2>2. QED
    BY <2>1, NotPolling
<1>3. CASE PollSignalled \/ PollExpires \/ timer_handle_timeout
  <2>1. pc'[Main] # "poll"
    BY <1>1, <1>3, ThreadFacts, GoesOn
       DEF PollSignalled, PollExpires, timer_handle_timeout
  <2>2. QED
    BY <2>1, NotPolling
<1>4. CASE NextTimeout
  <2>1. heap' = heap
    BY <1>4 DEF NextTimeout
  <2>2. heap_empty(heap)' = heap_empty(heap) /\ FrontKey' = FrontKey
    BY <2>1 DEF heap_empty, FrontKey, heap_front
  <2>3. CASE heap_empty(heap)
    BY <2>2, <2>3 DEF NoMissedReschedule
  <2>4. CASE ~heap_empty(heap)
    <3>1. PICK now \in Times :
            gettime(Main, now) /\ sleep' = Nanoseconds(timespec!sub(FrontKey, now))
      BY <1>4, <2>4 DEF NextTimeout
    <3>2. clock'[Main] = now
      BY <1>1, <3>1, ThreadFacts DEF gettime, TypeOK
    <3> DEFINE later == timespec!sub(FrontKey, now)
               n == timespec!Units(now)
               k == timespec!Units(FrontKey)
    <3>3. /\ k \in 0..(Infinity - 1) /\ n \in Nat /\ later \in timespec!Time
          /\ timespec!Units(later) = k - n
      BY <2>4, NextSleep
    <3>4. sleep' = 0 \/ sleep' <= k - n
      BY <3>1, <3>3, PollsNoLonger
    <3>5. sleep' \in 0..Infinity
      BY <2>4, <3>1, NextSleep
    <3> HIDE DEF later, n, k
    <3>6. sleep' = 0 \/ n + sleep' <= k
      <4>1. k \in Int /\ n \in Int /\ sleep' \in Int
        BY <3>3, <3>5, UnitAssumption
      <4>2. \A a, b, c \in Int : a <= b - c => c + a <= b
        OBVIOUS
      <4>3. QED
        BY <3>4, <4>1, <4>2
    <3>7. timespec!Units(clock[Main])' = n /\ timespec!Units(FrontKey)' = k
      BY <2>2, <3>2 DEF n, k
    <3>8. QED
      BY <3>6, <3>7 DEF NoMissedReschedule
  <2>5. QED
    BY <2>3, <2>4
<1>5. QED
  BY <1>2, <1>3, <1>4 DEF MainLoop

LEMMA WakeNext ==
  ASSUME TimerInv, NoMissedReschedule, Loop # "usec", [Next]_vars
  PROVE  NoMissedReschedule'
<1>1. ASSUME NEW p \in Threads, Step(p) PROVE NoMissedReschedule'
  BY <1>1, WakeIndex, WakeDel, WakeTime, WakeInsert, WakeRaise DEF Step
<1>2. CASE timer_queue_fini
  <2>1. TypeOK /\ "gone" \in AllLabels
    BY DEF TimerInv, AllLabels
  <2>2. pc'[Main] = "gone"
    BY <1>2, <2>1, GoesOn, ThreadFacts DEF timer_queue_fini
  <2>3. QED
    BY <2>2, NotPolling
<1>3. CASE UNCHANGED vars
  BY <1>3 DEF vars, times, NoMissedReschedule, FrontKey, heap_front, heap_empty
<1>4. QED
  BY <1>1, <1>2, <1>3, WakeCall, WakeMain DEF Next

\* When the main thread polls, with either of the functions that its client calls
\* after it has lowered the signal, it polls no longer than to the first timer of
\* the queue when that is a timer that nobody modifies, unless the signal is raised
\* or a worker is about to raise it.  (A first timer that is modified may have a
\* stale index, and timer_mod then moves it without a raise.)
THEOREM TimerNoMissedReschedule ==
  ASSUME Loop # "usec"
  PROVE  Spec => []NoMissedReschedule
<1>1. Init => TimerInv /\ NoMissedReschedule
  <2>1. Init => pc[Main] = "idle"
    BY ThreadFacts DEF Init
  <2>2. QED
    BY <2>1, TimerInit DEF NoMissedReschedule
<1>2. TimerInv /\ NoMissedReschedule /\ [Next]_vars => (TimerInv /\ NoMissedReschedule)'
  BY TimerNext, WakeNext
<1>3. QED
  BY <1>1, <1>2, PTL DEF Spec
===============================================================================
