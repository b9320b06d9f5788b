------------------------------ MODULE RbTreeProofs ------------------------------
(***************************************************************************)
(* Proofs about RbTree, for any number of nodes and any order of the keys. *)
(***************************************************************************)
EXTENDS RbTree, TLAPS

Colors == {"black", "red"}
Labels == {"idle", "descend", "case1", "case4", "case5", "print", "seek", "destroyed", "crash"}
Pointers == Nodes \cup {NIL}

\* What TypeOK says of tree.
TreeOK(t) ==
  /\ t = [child |-> t.child, parent |-> t.parent, color |-> t.color]
  /\ t.child \in [Sides -> Link] /\ t.parent \in Link /\ t.color \in [Nodes -> Colors]

\* The pointers that a step follows are not NULL.
LabelInv ==
  /\ pc = "descend" => root # NIL /\ curr # NIL /\ Len(keys) < MaxNodes
  /\ pc \in {"case1", "case4", "case5"} => node # NIL
  /\ pc = "seek" => curr # NIL /\ prev # NIL

TypeInv == TypeOK /\ LabelInv

LEMMA TypeOKParts ==
  TypeOK <=>
    /\ TreeOK(tree)
    /\ root \in Pointers /\ node \in Pointers /\ curr \in Pointers /\ prev \in Pointers
    /\ keys \in Seq(Keys) /\ Len(keys) <= MaxNodes
    /\ (root = NIL <=> keys = <<>>)
    /\ pc \in Labels
    /\ arg \in Keys
    /\ printed \in Seq(Nodes)
    /\ before \in [Sides -> Link]
<1>1. tree \in [child : [Sides -> Link], parent : Link, color : [Nodes -> Colors]] <=> TreeOK(tree)
  BY DEF TreeOK
<1>2. QED
  BY <1>1 DEF TypeOK, Colors, Labels, Pointers

LEMMA TypeOKPartsNext ==
  TypeOK' <=>
    /\ TreeOK(tree')
    /\ root' \in Pointers /\ node' \in Pointers /\ curr' \in Pointers /\ prev' \in Pointers
    /\ keys' \in Seq(Keys) /\ Len(keys') <= MaxNodes
    /\ (root' = NIL <=> keys' = <<>>)
    /\ pc' \in Labels
    /\ arg' \in Keys
    /\ printed' \in Seq(Nodes)
    /\ before' \in [Sides -> Link]
<1>1. tree' \in [child : [Sides -> Link], parent : Link, color : [Nodes -> Colors]] <=> TreeOK(tree')
  BY DEF TreeOK
<1>2. QED
  BY <1>1 DEF TypeOK, Colors, Labels, Pointers

\* The fields of a node are a pointer on each side and one to the parent.
LEMMA Fields ==
  ASSUME NEW t, TreeOK(t), NEW x \in Nodes
  PROVE  /\ t.child["left"][x] \in Pointers /\ t.child["right"][x] \in Pointers
         /\ t.parent[x] \in Pointers /\ t.color[x] \in Colors
BY DEF TreeOK, Link, Pointers, Sides

\* Writes to the fields of the nodes.
LEMMA WriteChild ==
  ASSUME NEW child \in [Sides -> Link], NEW s \in Sides, NEW x, NEW y \in Pointers
  PROVE  [child EXCEPT ![s][x] = y] \in [Sides -> Link]
BY DEF Link, Pointers

LEMMA WriteParent ==
  ASSUME NEW link \in Link, NEW x, NEW y \in Pointers
  PROVE  [link EXCEPT ![x] = y] \in Link
BY DEF Link, Pointers

LEMMA PaintOK ==
  ASSUME TreeOK(tree), NEW color \in Colors, NEW xs
  PROVE  Paint(color, xs) \in [Nodes -> Colors]
BY DEF TreeOK, Paint

\* A rotation of any node of a tree leaves the memory well-formed.
LEMMA RotateOK ==
  ASSUME NEW t, TreeOK(t), NEW side \in Sides, NEW dir \in Sides, NEW x \in Pointers
  PROVE  TreeOK(Rotate(t, side, dir, x))
<1> DEFINE other == IF dir = "left" THEN "right" ELSE "left"
           c == t.child[other][x]
           p == t.parent[x]
           up == [t.child EXCEPT ![side][p] = c]
           down == [up EXCEPT ![other][x] = up[dir][c]]
           child == [down EXCEPT ![dir][c] = x]
           parents == [t.parent EXCEPT ![c] = p, ![x] = c]
<1>1. CASE x = NIL \/ c = NIL
  BY <1>1 DEF Rotate
<1>2. CASE ~(x = NIL \/ c = NIL)
  <2>1. other \in Sides
    BY DEF Sides
  <2>2. x \in Nodes /\ c \in Nodes /\ p \in Nodes \cup {NIL}
    <3>1. x \in Nodes
      BY <1>2 DEF Pointers
    <3>2. QED
      BY <1>2, <2>1, <3>1 DEF TreeOK, Link
  <2>3. t.child \in [Sides -> Link] /\ t.parent \in Link
    BY DEF TreeOK
  <2> HIDE DEF other, c, p
  <2>4. up \in [Sides -> Link]
    BY <2>2, <2>3 DEF Link
  <2>5. up[dir][c] \in Nodes \cup {NIL}
    BY <2>2, <2>4 DEF Link
  <2> HIDE DEF up
  <2>6. down \in [Sides -> Link]
    BY <2>1, <2>2, <2>4, <2>5 DEF Link
  <2> HIDE DEF down
  <2>7. child \in [Sides -> Link]
    BY <2>2, <2>6 DEF Link
  <2>8. parents \in Link
    BY <2>2, <2>3 DEF Link
  <2>9. Rotate(t, side, dir, x) = [t EXCEPT !.child = child, !.parent = parents]
    BY <1>2 DEF Rotate, other, c, p, up, down
  <2> HIDE DEF child, parents
  <2>10. QED
    BY <2>7, <2>8, <2>9 DEF TreeOK
<1>3. QED
  BY <1>1, <1>2

--------------------------------------------------------------------------------

LEMMA TypeInvInit == Init => TypeInv
<1> SUFFICES ASSUME Init PROVE TypeInv
  OBVIOUS
<1>1. TreeOK(tree) /\ before \in [Sides -> Link]
  BY DEF Init, TreeOK, Link, Colors
<1>2. keys \in Seq(Keys) /\ Len(keys) = 0 /\ printed \in Seq(Nodes)
  BY DEF Init
<1>3. LabelInv
  BY DEF Init, LabelInv
<1>4. QED
  BY <1>1, <1>2, <1>3, TypeOKParts, RbTreeAssumption DEF Init, TypeInv, Pointers, Labels
LEMMA KeysGrow ==
  ASSUME TypeInv, Len(keys) < MaxNodes, NEW k \in Keys
  PROVE  /\ Append(keys, k) \in Seq(Keys) /\ Append(keys, k) # <<>>
         /\ Len(Append(keys, k)) = Len(keys) + 1 /\ Len(keys) + 1 <= MaxNodes
         /\ Len(keys) + 1 \in Nodes
<1>1. keys \in Seq(Keys) /\ Len(keys) \in Nat
  BY DEF TypeInv, TypeOK
<1>2. Append(keys, k) \in Seq(Keys) /\ Len(Append(keys, k)) = Len(keys) + 1
  BY <1>1
<1>3. Append(keys, k) # <<>>
  BY <1>1, <1>2
<1>4. Len(keys) + 1 <= MaxNodes /\ Len(keys) + 1 \in Nodes
  BY <1>1, RbTreeAssumption DEF Nodes
<1>5. QED
  BY <1>2, <1>3, <1>4

LEMMA InsertTypes ==
  ASSUME TypeInv, NEW k \in Keys, InsertEnter(k)
  PROVE  TypeInv'
<1> USE DEF TypeInv
<1>1. CASE root = NIL
  <2>1. /\ keys' = Append(keys, k) /\ root' = Len(keys') /\ node' = root' /\ pc' = "case1"
        /\ arg' = k /\ UNCHANGED <<curr, tree, prev, printed, before>>
    BY <1>1 DEF InsertEnter
  <2>2. keys' \in Seq(Keys) /\ keys' # <<>> /\ Len(keys') <= MaxNodes /\ Len(keys') \in Nodes
    BY <2>1, KeysGrow DEF InsertEnter
  <2>3. root' # NIL
    BY <2>1, <2>2 DEF Nodes, NIL
  <2>4. TypeOK'
    BY <2>1, <2>2, <2>3, TypeOKParts, TypeOKPartsNext DEF Pointers, Labels
  <2>5. QED
    BY <2>1, <2>3, <2>4 DEF LabelInv
<1>2. CASE root # NIL
  <2>1. /\ curr' = root /\ pc' = "descend" /\ arg' = k /\ Len(keys) < MaxNodes
        /\ UNCHANGED <<keys, root, node, tree, prev, printed, before>>
    BY <1>2 DEF InsertEnter
  <2>2. TypeOK'
    BY <2>1, TypeOKParts, TypeOKPartsNext DEF Labels
  <2>3. QED
    BY <1>2, <2>1, <2>2 DEF LabelInv
<1>3. QED
  BY <1>1, <1>2

LEMMA DescendTypes ==
  ASSUME TypeInv, Descend
  PROVE  TypeInv'
<1> USE DEF TypeInv
<1> DEFINE side == Turn(arg, keys[curr])
           n == Len(keys) + 1
<1>1. side \in Sides /\ curr \in Nodes /\ Len(keys) < MaxNodes /\ TreeOK(tree)
  BY TypeOKParts DEF Descend, LabelInv, Turn, Sides, Pointers
<1> HIDE DEF side
<1>2. tree.child[side][curr] \in Pointers
  BY <1>1 DEF TreeOK, Link, Pointers
<1>3. CASE tree.child[side][curr] # NIL
  <2>1. /\ curr' = tree.child[side][curr]
        /\ UNCHANGED <<tree, keys, node, pc, root, arg, prev, printed, before>>
    BY <1>3 DEF Descend, side
  <2>2. TypeOK'
    BY <1>2, <2>1, TypeOKParts, TypeOKPartsNext
  <2>3. QED
    BY <1>3, <2>1, <2>2 DEF LabelInv, Descend
<1>4. CASE tree.child[side][curr] = NIL
  <2>1. /\ keys' = Append(keys, arg)
        /\ tree' = [tree EXCEPT !.child[side][curr] = n, !.parent[n] = curr]
        /\ node' = n /\ pc' = "case1"
        /\ UNCHANGED <<curr, root, arg, prev, printed, before>>
    BY <1>4 DEF Descend, side
  <2>2. keys' \in Seq(Keys) /\ keys' # <<>> /\ Len(keys') <= MaxNodes /\ n \in Nodes
    BY <1>1, <2>1, KeysGrow, TypeOKParts
  <2>3. root # NIL
    BY DEF LabelInv, Descend
  <2>4. TreeOK(tree')
    <3>1. n \in Pointers /\ curr \in Pointers
      BY <1>1, <2>2 DEF Pointers
    <3> DEFINE child == [tree.child EXCEPT ![side][curr] = n]
               link == [tree.parent EXCEPT ![n] = curr]
    <3>2. child \in [Sides -> Link] /\ link \in Link
      BY <1>1, <3>1, WriteChild, WriteParent DEF TreeOK
    <3>3. tree' = [tree EXCEPT !.child = child, !.parent = link]
      BY <1>1, <2>1 DEF TreeOK
    <3> HIDE DEF child, link
    <3>4. QED
      BY <1>1, <3>2, <3>3 DEF TreeOK
  <2>5. n # NIL
    BY <2>2 DEF Nodes, NIL
  <2>6. TypeOK'
    BY <2>1, <2>2, <2>3, <2>4, TypeOKParts, TypeOKPartsNext DEF Labels, Pointers
  <2>7. QED
    BY <2>1, <2>5, <2>6 DEF LabelInv
<1>5. QED
  BY <1>3, <1>4

LEMMA CaseTypes ==
  ASSUME TypeInv, Case1 \/ Case2 \/ Case3
  PROVE  TypeInv'
<1> USE DEF TypeInv
<1>1. TreeOK(tree) /\ node \in Nodes
  BY TypeOKParts DEF Case1, Case2, Case3, LabelInv, Pointers
<1>2. parent(node) \in Pointers /\ grandparent(node) \in Pointers
  BY <1>1 DEF parent, grandparent, TreeOK, Link, Pointers
<1>3. CASE Case1
  <2>1. TreeOK(tree')
    BY <1>1, <1>3, PaintOK DEF Case1, TreeOK, Colors
  <2>2. QED
    BY <1>3, <2>1, TypeOKParts, TypeOKPartsNext DEF Case1, Labels, LabelInv
<1>4. CASE Case2
  BY <1>4, TypeOKParts, TypeOKPartsNext DEF Case2, Labels, LabelInv
<1>5. CASE Case3 /\ RedUncle
  <2>1. grandparent(node) # NIL
    BY <1>5 DEF RedUncle, uncle
  <2>2. TreeOK(tree')
    <3>1. Paint("black", {parent(node), uncle(node)}) \in [Nodes -> Colors]
      BY <1>1, PaintOK DEF Colors
    <3>2. tree' = [tree EXCEPT !.color =
                     [Paint("black", {parent(node), uncle(node)})
                        EXCEPT ![grandparent(node)] = "red"]]
      BY <1>5 DEF Case3
    <3>3. QED
      BY <1>1, <3>1, <3>2 DEF TreeOK, Colors
  <2>3. node' = grandparent(node)
        /\ UNCHANGED <<pc, root, keys, arg, curr, prev, printed, before>>
    BY <1>5 DEF Case3
  <2>4. TypeOK'
    BY <1>2, <2>2, <2>3, TypeOKParts, TypeOKPartsNext
  <2>5. QED
    BY <2>1, <2>3, <2>4 DEF LabelInv
<1>6. CASE Case3 /\ ~RedUncle
  <2>1. /\ pc' \in {"crash", "case4"}
        /\ UNCHANGED <<tree, node, root, keys, arg, curr, prev, printed, before>>
    BY <1>6 DEF Case3
  <2>2. TypeOK'
    BY <2>1, TypeOKParts, TypeOKPartsNext DEF Labels
  <2>3. QED
    BY <1>1, <2>1, <2>2 DEF LabelInv, Nodes, NIL
<1>7. QED
  BY <1>3, <1>4, <1>5, <1>6

LEMMA Case4Types ==
  ASSUME TypeInv, Case4
  PROVE  TypeInv'
<1> USE DEF TypeInv
<1>1. TreeOK(tree) /\ node \in Nodes
  BY TypeOKParts DEF Case4, LabelInv, Pointers
<1>2. parent(node) \in Pointers
  BY <1>1 DEF parent, TreeOK, Link, Pointers
<1>3. \E dir \in Sides : \/ /\ tree' = Rotate(tree, dir, dir, parent(node))
                           /\ node' = tree'.child[dir][node]
                        \/ UNCHANGED <<tree, node>>
  BY DEF Case4, Sides
<1>4. TreeOK(tree') /\ node' \in Pointers
  <2>1. PICK dir \in Sides : \/ /\ tree' = Rotate(tree, dir, dir, parent(node))
                               /\ node' = tree'.child[dir][node]
                            \/ UNCHANGED <<tree, node>>
    BY <1>3
  <2>2. TreeOK(tree')
    BY <1>1, <1>2, <2>1, RotateOK
  <2>3. QED
    BY <1>1, <2>1, <2>2 DEF TreeOK, Link, Pointers
<1>5. /\ pc' = (IF node' = NIL THEN "idle" ELSE "case5")
      /\ UNCHANGED <<root, keys, arg, curr, prev, printed, before>>
  BY DEF Case4
<1>6. TypeOK'
  BY <1>4, <1>5, TypeOKParts, TypeOKPartsNext DEF Labels
<1>7. QED
  BY <1>5, <1>6 DEF LabelInv

LEMMA Case5Types ==
  ASSUME TypeInv, Case5
  PROVE  TypeInv'
<1> USE DEF TypeInv
<1> DEFINE p == parent(node)
           g == grandparent(node)
           dir == IF left(p) = node THEN "right" ELSE "left"
           side == IF left(p) = node THEN "left" ELSE "right"
           painted == [tree EXCEPT !.color = [Paint("black", {p}) EXCEPT ![g] = "red"]]
<1>1. TreeOK(tree) /\ node \in Nodes
  BY TypeOKParts DEF Case5, LabelInv, Pointers
<1>2. g \in Pointers /\ dir \in Sides /\ side \in Sides
  BY <1>1 DEF parent, grandparent, TreeOK, Link, Pointers, Sides
<1>3. TreeOK(painted)
  <2>1. Paint("black", {p}) \in [Nodes -> Colors]
    BY <1>1, PaintOK DEF Colors
  <2> HIDE DEF p, g
  <2> DEFINE color == [Paint("black", {p}) EXCEPT ![g] = "red"]
  <2>2. color \in [Nodes -> Colors] /\ painted = [tree EXCEPT !.color = color]
    BY <2>1 DEF Colors
  <2> HIDE DEF color, painted
  <2>3. QED
    BY <1>1, <2>2 DEF TreeOK
<1>4. /\ pc' \in {"crash", "idle"}
      /\ tree' \in {tree, Rotate(painted, side, dir, g)}
      /\ UNCHANGED <<root, keys, arg, node, curr, prev, printed, before>>
  BY DEF Case5
<1> HIDE DEF p, g, dir, side, painted
<1>5. TreeOK(tree')
  BY <1>1, <1>2, <1>3, <1>4, RotateOK
<1>6. TypeOK'
  BY <1>4, <1>5, TypeOKParts, TypeOKPartsNext DEF Labels
<1>7. QED
  BY <1>4, <1>6 DEF LabelInv

LEMMA PrintTypes ==
  ASSUME TypeInv, PrintEnter \/ PrintNode
  PROVE  TypeInv'
<1> USE DEF TypeInv
<1>1. TreeOK(tree)
  BY TypeOKParts
<1>2. CASE PrintEnter
  <2>1. tree.child \in [Sides -> Link] /\ <<>> \in Seq(Nodes)
    BY <1>1 DEF TreeOK
  <2>2. QED
    BY <1>2, <2>1, TypeOKParts, TypeOKPartsNext DEF PrintEnter, Labels, LabelInv
<1>3. CASE PrintNode /\ curr = NIL
  BY <1>3, TypeOKParts, TypeOKPartsNext DEF PrintNode, Labels, LabelInv
<1>4. CASE PrintNode /\ curr # NIL
  <2>1. curr \in Nodes
    BY <1>4, TypeOKParts DEF Pointers
  <2>2. left(curr) \in Pointers /\ right(curr) \in Pointers
    BY <1>1, <2>1, Fields DEF left, right
  <2>3. Append(printed, curr) \in Seq(Nodes)
    BY <2>1, TypeOKParts
  <2>4. CASE left(curr) = NIL
    <3>1. /\ printed' = Append(printed, curr) /\ curr' = right(curr) /\ pc = "print"
          /\ UNCHANGED <<pc, prev, tree, root, keys, arg, node, before>>
      BY <1>4, <2>4 DEF PrintNode
    <3>2. TypeOK'
      BY <2>2, <2>3, <3>1, TypeOKParts, TypeOKPartsNext
    <3>3. QED
      BY <3>1, <3>2 DEF LabelInv
  <2>5. CASE left(curr) # NIL
    <3>1. /\ prev' = left(curr) /\ pc' = "seek"
          /\ UNCHANGED <<curr, printed, tree, root, keys, arg, node, before>>
      BY <1>4, <2>5 DEF PrintNode
    <3>2. TypeOK'
      BY <2>2, <3>1, TypeOKParts, TypeOKPartsNext DEF Labels
    <3>3. QED
      BY <1>4, <2>5, <3>1, <3>2 DEF LabelInv
  <2>6. QED
    BY <2>4, <2>5
<1>5. QED
  BY <1>2, <1>3, <1>4

LEMMA SeekTypes ==
  ASSUME TypeInv, Seek
  PROVE  TypeInv'
<1> USE DEF TypeInv
<1>1. TreeOK(tree) /\ curr \in Nodes /\ prev \in Nodes
  BY TypeOKParts DEF Seek, LabelInv, Pointers
<1>2. left(curr) \in Pointers /\ right(prev) \in Pointers
  BY <1>1, Fields DEF left, right
<1>3. ASSUME NEW to \in Pointers PROVE TreeOK(Thread(to))
  <2> DEFINE child == [tree.child EXCEPT !["right"][prev] = to]
  <2>1. child \in [Sides -> Link]
    BY <1>1, WriteChild DEF TreeOK, Sides
  <2>2. Thread(to) = [tree EXCEPT !.child = child]
    BY <1>1 DEF Thread, TreeOK
  <2> HIDE DEF child
  <2>3. QED
    BY <1>1, <2>1, <2>2 DEF TreeOK
<1>4. CASE Onward
  <2>1. /\ prev' = right(prev) /\ prev' # NIL
        /\ UNCHANGED <<tree, pc, curr, printed, root, keys, arg, node, before>>
    <3>1. right(prev) # NIL /\ right(prev) # curr
      BY <1>4 DEF Onward
    <3>2. QED
      BY <3>1 DEF Seek
  <2>2. TypeOK'
    BY <1>2, <2>1, TypeOKParts, TypeOKPartsNext
  <2>3. QED
    BY <2>1, <2>2 DEF LabelInv
<1>5. CASE ~Onward
  <2>1. TreeOK(tree')
    BY <1>1, <1>3, <1>5 DEF Seek, Unthread, Pointers
  <2>2. \/ curr' = left(curr) /\ UNCHANGED printed
        \/ curr' = tree'.child["right"][curr] /\ printed' = Append(printed, curr)
    BY <1>5 DEF Seek
  <2>3. curr' \in Pointers /\ printed' \in Seq(Nodes)
    <3>1. tree'.child["right"][curr] \in Pointers
      BY <1>1, <2>1, Fields
    <3>2. printed \in Seq(Nodes) /\ Append(printed, curr) \in Seq(Nodes)
      BY <1>1, TypeOKParts
    <3>3. QED
      BY <1>2, <2>2, <3>1, <3>2
  <2>4. pc' = "print" /\ UNCHANGED <<prev, root, keys, arg, node, before>>
    BY <1>5 DEF Seek
  <2>5. TypeOK'
    BY <2>1, <2>3, <2>4, TypeOKParts, TypeOKPartsNext DEF Labels
  <2>6. QED
    BY <2>4, <2>5 DEF LabelInv
<1>6. QED
  BY <1>4, <1>5

LEMMA TypeInvNext == TypeInv /\ [Next]_vars => TypeInv'
<1> SUFFICES ASSUME TypeInv, [Next]_vars PROVE TypeInv'
  OBVIOUS
<1>1. CASE UNCHANGED vars
  BY <1>1, TypeOKParts, TypeOKPartsNext DEF vars, TypeInv, LabelInv
<1>2. CASE rb_tree_destroy
  BY <1>2, TypeOKParts, TypeOKPartsNext DEF rb_tree_destroy, TypeInv, LabelInv, Labels
<1>3. QED
  BY <1>1, <1>2, InsertTypes, DescendTypes, CaseTypes, Case4Types, Case5Types, PrintTypes,
     SeekTypes DEF Next, Insertion

\* The variables of the tree keep their types, whatever the rotations make of
\* the links: no call follows NULL, except where the model says it crashes.
THEOREM RbTreeTypeCorrect == Spec => []TypeOK
<1>1. TypeInv => TypeOK
  BY DEF TypeInv
<1>2. QED
  BY <1>1, TypeInvInit, TypeInvNext, PTL DEF Spec

--------------------------------------------------------------------------------
(* The invariant of a tree t with the nodes A and the root r.              *)

\* Pointers lead to nodes of the tree, and what is not yet one is as Init left it.
AllocOK(t, A) ==
  /\ \A x \in Nodes : t.parent[x] \in A \cup {NIL}
  /\ \A x \in Nodes, s \in Sides : t.child[s][x] \in A \cup {NIL}
  /\ \A x \in Nodes \ A : t.parent[x] = NIL /\ \A s \in Sides : t.child[s][x] = NIL

\* The parent of a red node is black, except for node n.
BlackParents(t, A, n) ==
  \A x \in A \ {n} :
    t.color[x] = "red" /\ t.parent[x] # NIL => t.color[t.parent[x]] = "black"

\* The way up from any node leads to the root: a set of nodes with their parents
\* has the root in it.
Climbs(t, A, r) ==
  \A S \in SUBSET A : S # {} /\ (\A x \in S : t.parent[x] \in S \cup {NIL}) => r \in S

\* Sound, of any tree.
SoundTree(t, A, r) ==
  /\ \A x \in A, s \in Sides : t.child[s][x] # NIL => t.parent[t.child[s][x]] = x
  /\ \A x \in A \ {r} :
       /\ t.parent[x] # NIL
       /\ \E s \in Sides : \A u \in Sides : t.child[u][t.parent[x]] = x <=> u = s

\* Node n has a grandparent, whose children other than n's parent are black.
FamilyOK(t, A, n) ==
  LET p == t.parent[n]
      g == t.parent[p]
  IN  /\ p \in A /\ g \in A
      /\ \A y \in A \ {p} : t.parent[y] = g => t.color[y] = "black"

\* Node n is below its parent on the side on which that is below its own.
Lined(t, n) ==
  LET p == t.parent[n]
      g == t.parent[p]
  IN  \E s \in Sides : /\ t.child[s][p] = n /\ t.child[s][g] = p
                       /\ (t.child["left"][p] = n <=> s = "left")

\* The node that the insertion cases work on.
Exempt == IF pc \in {"case1", "case4", "case5", "crash"} THEN node ELSE NIL

TreeInv ==
  /\ AllocOK(tree, Allocated) /\ {root, node, curr, prev} \subseteq Allocated \cup {NIL}
  /\ BlackParents(tree, Allocated, Exempt)
  /\ Climbs(tree, Allocated, root)
  /\ root # NIL => /\ tree.parent[root] = NIL
                   /\ tree.color[root] = "black" \/ (pc = "case1" /\ root = node)
  /\ pc \in {"descend", "case1", "case4"} => SoundTree(tree, Allocated, root)
  /\ pc \in {"case4", "case5"} => FamilyOK(tree, Allocated, node)
  /\ pc = "case4" => tree.color[tree.parent[tree.parent[node]]] = "black"
  /\ pc = "case5" => Lined(tree, node)

LEMMA AllocFacts ==
  ASSUME TypeInv
  PROVE  /\ Allocated \subseteq Nodes /\ NIL \notin Allocated /\ NIL \notin Nodes
         /\ root = NIL => Allocated = {}
         /\ Len(keys) \in Nat
<1>1. Len(keys) \in Nat /\ Len(keys) <= MaxNodes /\ (root = NIL => Len(keys) = 0)
  BY TypeOKParts DEF TypeInv
<1>2. QED
  BY <1>1, RbTreeAssumption DEF Allocated, Nodes, NIL

LEMMA AllocGrow ==
  ASSUME TypeInv, Len(keys) < MaxNodes, NEW k \in Keys
  PROVE  LET n == Len(keys) + 1
         IN  /\ 1..Len(Append(keys, k)) = Allocated \cup {n}
             /\ n \in Nodes /\ n \notin Allocated /\ n # NIL
<1>1. Len(keys) \in Nat /\ Len(Append(keys, k)) = Len(keys) + 1 /\ Len(keys) + 1 \in Nodes
  BY AllocFacts, KeysGrow
<1>2. QED
  BY <1>1 DEF Allocated, NIL

--------------------------------------------------------------------------------
(* A new leaf.                                                             *)

\* t2 is t with the new leaf n on one side of node y.
Grown(t, t2, A, y, side, n) ==
  /\ TreeOK(t) /\ AllocOK(t, A)
  /\ A \subseteq Nodes /\ NIL \notin A /\ y \in A /\ side \in Sides /\ n \in Nodes \ A
  /\ t.child[side][y] = NIL
  /\ t2 = [t EXCEPT !.child[side][y] = n, !.parent[n] = y]

LEMMA GrownFields ==
  ASSUME NEW t, NEW t2, NEW A, NEW y, NEW side, NEW n, Grown(t, t2, A, y, side, n)
  PROVE  /\ t2.color = t.color
         /\ \A x \in Nodes : t2.parent[x] = IF x = n THEN y ELSE t.parent[x]
         /\ \A x \in Nodes, s \in Sides :
              t2.child[s][x] = IF s = side /\ x = y THEN n ELSE t.child[s][x]
<1>1. TreeOK(t) /\ y \in Nodes /\ n \in Nodes /\ side \in Sides
      /\ t2 = [t EXCEPT !.child[side][y] = n, !.parent[n] = y]
  BY DEF Grown
<1>2. t.child \in [Sides -> Link] /\ t.parent \in Link
  BY <1>1 DEF TreeOK
<1>3. t2.color = t.color /\ t2.parent = [t.parent EXCEPT ![n] = y]
      /\ t2.child = [t.child EXCEPT ![side][y] = n]
  BY <1>1 DEF TreeOK
<1>4. \A x \in Nodes : t2.parent[x] = IF x = n THEN y ELSE t.parent[x]
  BY <1>1, <1>2, <1>3 DEF Link
<1>5. \A x \in Nodes, s \in Sides :
        t2.child[s][x] = IF s = side /\ x = y THEN n ELSE t.child[s][x]
  BY <1>1, <1>2, <1>3 DEF Link
<1>6. QED
  BY <1>3, <1>4, <1>5

LEMMA GrownTree ==
  ASSUME NEW t, NEW t2, NEW A, NEW y, NEW side, NEW n, NEW r \in A,
         Grown(t, t2, A, y, side, n)
  PROVE  /\ AllocOK(t2, A \cup {n})
         /\ BlackParents(t, A, NIL) => BlackParents(t2, A \cup {n}, n)
         /\ Climbs(t, A, r) => Climbs(t2, A \cup {n}, r)
         /\ SoundTree(t, A, r) => SoundTree(t2, A \cup {n}, r)
<1>1. /\ t2.color = t.color
      /\ \A x \in Nodes : t2.parent[x] = IF x = n THEN y ELSE t.parent[x]
      /\ \A x \in Nodes, s \in Sides :
           t2.child[s][x] = IF s = side /\ x = y THEN n ELSE t.child[s][x]
  BY GrownFields
<1>2. /\ A \subseteq Nodes /\ NIL \notin A /\ y \in A /\ side \in Sides /\ n \in Nodes /\ n \notin A
      /\ t.child[side][y] = NIL /\ n # NIL
  BY DEF Grown, Nodes, NIL
<1>3. /\ \A x \in Nodes : t.parent[x] \in A \cup {NIL}
      /\ \A x \in Nodes, s \in Sides : t.child[s][x] \in A \cup {NIL}
      /\ \A x \in Nodes \ A : t.parent[x] = NIL /\ \A s \in Sides : t.child[s][x] = NIL
  BY DEF Grown, AllocOK
<1>4. AllocOK(t2, A \cup {n})
  BY <1>1, <1>2, <1>3 DEF AllocOK
<1>5. ASSUME BlackParents(t, A, NIL) PROVE BlackParents(t2, A \cup {n}, n)
  BY <1>1, <1>2, <1>5 DEF BlackParents
<1>6. ASSUME Climbs(t, A, r) PROVE Climbs(t2, A \cup {n}, r)
  <2> SUFFICES ASSUME NEW S \in SUBSET (A \cup {n}), S # {},
                      \A x \in S : t2.parent[x] \in S \cup {NIL}
               PROVE  r \in S
    BY DEF Climbs
  <2>1. S \ {n} # {}
    BY <1>1, <1>2
  <2>2. \A x \in S \ {n} : t.parent[x] \in (S \ {n}) \cup {NIL}
    BY <1>1, <1>2, <1>3
  <2>3. S \ {n} \in SUBSET A
    OBVIOUS
  <2>4. QED
    BY <1>6, <2>1, <2>2, <2>3 DEF Climbs
<1>7. ASSUME SoundTree(t, A, r) PROVE SoundTree(t2, A \cup {n}, r)
  <2>1. ASSUME NEW x \in A \cup {n}, NEW s \in Sides, t2.child[s][x] # NIL
        PROVE  t2.parent[t2.child[s][x]] = x
    <3>1. CASE x = n
      BY <1>1, <1>2, <1>3, <2>1, <3>1
    <3>2. CASE s = side /\ x = y
      BY <1>1, <1>2, <3>2
    <3>3. CASE x # n /\ ~(s = side /\ x = y)
      <4>1. t2.child[s][x] = t.child[s][x] /\ t.child[s][x] \in A /\ x \in A
        BY <1>1, <1>2, <1>3, <2>1, <3>3
      <4>2. t.parent[t.child[s][x]] = x
        BY <1>2, <1>7, <4>1 DEF SoundTree
      <4>3. QED
        BY <1>1, <1>2, <4>1, <4>2
    <3>4. QED
      BY <3>1, <3>2, <3>3
  <2>2. ASSUME NEW x \in (A \cup {n}) \ {r}
        PROVE  /\ t2.parent[x] # NIL
               /\ \E s \in Sides : \A u \in Sides : t2.child[u][t2.parent[x]] = x <=> u = s
    <3>1. CASE x = n
      <4>1. \A u \in Sides : t2.child[u][y] = n <=> u = side
        BY <1>1, <1>2, <1>3
      <4>2. QED
        BY <1>1, <1>2, <3>1, <4>1
    <3>2. CASE x # n
      <4>1. x \in A \ {r} /\ t2.parent[x] = t.parent[x] /\ t.parent[x] \in Nodes
        BY <1>1, <1>2, <1>3, <1>7, <3>2 DEF SoundTree
      <4>2. PICK s \in Sides : \A u \in Sides : t.child[u][t.parent[x]] = x <=> u = s
        BY <1>7, <4>1 DEF SoundTree
      <4>3. \A u \in Sides : t2.child[u][t.parent[x]] = x <=> t.child[u][t.parent[x]] = x
        BY <1>1, <1>2, <4>1
      <4>4. \A u \in Sides : t2.child[u][t2.parent[x]] = x <=> u = s
        BY <4>1, <4>2, <4>3
      <4>5. QED
        BY <1>7, <4>1, <4>4 DEF SoundTree
    <3>3. QED
      BY <3>1, <3>2
  <2>3. QED
    BY <2>1, <2>2 DEF SoundTree
<1>8. QED
  BY <1>4, <1>5, <1>6, <1>7

--------------------------------------------------------------------------------
(* Rotations.                                                              *)

(* A rotation of node x, whose child c has it as its parent.               *)

Other(dir) == IF dir = "left" THEN "right" ELSE "left"

Rotated(t, t2, A, side, dir, x, c, q) ==
  /\ TreeOK(t) /\ AllocOK(t, A) /\ A \subseteq Nodes /\ NIL \notin A
  /\ side \in Sides /\ dir \in Sides /\ x \in A /\ c \in A /\ q \in A
  /\ c = t.child[Other(dir)][x] /\ t.parent[c] = x /\ t.parent[x] = q
  /\ c # x /\ c # q
  /\ t2 = Rotate(t, side, dir, x)

LEMMA RotatedFields ==
  ASSUME NEW t, NEW t2, NEW A, NEW side, NEW dir, NEW x, NEW c, NEW q,
         Rotated(t, t2, A, side, dir, x, c, q)
  PROVE  /\ t2.color = t.color
         /\ \A y \in Nodes : t2.parent[y] = IF y = x THEN c ELSE IF y = c THEN q ELSE t.parent[y]
         /\ AllocOK(t2, A)
         /\ t2.child[dir][c] = x
         /\ side = dir => /\ t2.child[side][q] = c
                          /\ t2.child[Other(dir)][c] = t.child[Other(dir)][c]
<1> DEFINE up == [t.child EXCEPT ![side][q] = c]
           down == [up EXCEPT ![Other(dir)][x] = up[dir][c]]
           child == [down EXCEPT ![dir][c] = x]
           parents == [t.parent EXCEPT ![c] = q, ![x] = c]
<1>1. /\ TreeOK(t) /\ x \in Nodes /\ c \in Nodes /\ q \in Nodes /\ c # x /\ c # q
      /\ side \in Sides /\ dir \in Sides /\ Other(dir) \in Sides /\ Other(dir) # dir
      /\ x \in A /\ c \in A /\ q \in A /\ x # NIL /\ c # NIL /\ A \subseteq Nodes
  BY DEF Rotated, Other, Sides
<1>2. t.child \in [Sides -> Link] /\ t.parent \in Link
  BY <1>1 DEF TreeOK
<1>3. /\ \A y \in Nodes : t.parent[y] \in A \cup {NIL}
      /\ \A y \in Nodes, s \in Sides : t.child[s][y] \in A \cup {NIL}
      /\ \A y \in Nodes \ A : t.parent[y] = NIL /\ \A s \in Sides : t.child[s][y] = NIL
  BY DEF Rotated, AllocOK
<1>4. t2 = [t EXCEPT !.child = child, !.parent = parents]
  BY <1>1 DEF Rotated, Rotate, Other
<1>5. t2.color = t.color /\ t2.parent = parents /\ t2.child = child
  <2> HIDE DEF child, parents
  <2>1. QED
    BY <1>1, <1>4 DEF TreeOK
<1>6. \A y \in Nodes : t2.parent[y] = IF y = x THEN c ELSE IF y = c THEN q ELSE t.parent[y]
  BY <1>1, <1>2, <1>5 DEF Link
<1>7. /\ up \in [Sides -> Link]
      /\ \A y \in Nodes, s \in Sides :
           up[s][y] = IF s = side /\ y = q THEN c ELSE t.child[s][y]
  BY <1>1, <1>2 DEF Link
<1> HIDE DEF up
<1>8. /\ down \in [Sides -> Link]
      /\ \A y \in Nodes, s \in Sides :
           down[s][y] = IF s = Other(dir) /\ y = x THEN up[dir][c] ELSE up[s][y]
  <2>1. up[dir][c] \in Nodes \cup {NIL}
    BY <1>1, <1>7 DEF Link
  <2>2. QED
    BY <1>1, <1>7, <2>1 DEF Link
<1> HIDE DEF down
<1>9. \A y \in Nodes, s \in Sides :
        child[s][y] = IF s = dir /\ y = c THEN x ELSE down[s][y]
  BY <1>1, <1>8 DEF Link
<1> HIDE DEF child, parents
<1>10. AllocOK(t2, A)
  <2>1. \A y \in Nodes : t2.parent[y] \in A \cup {NIL}
    BY <1>1, <1>3, <1>6
  <2>2. \A y \in Nodes, s \in Sides : up[s][y] \in A \cup {NIL}
    BY <1>1, <1>3, <1>7
  <2>3. \A y \in Nodes, s \in Sides : down[s][y] \in A \cup {NIL}
    BY <1>1, <1>8, <2>2
  <2>4. \A y \in Nodes, s \in Sides : child[s][y] \in A \cup {NIL}
    BY <1>1, <1>9, <2>3
  <2>5. ASSUME NEW y \in Nodes \ A
        PROVE  t2.parent[y] = NIL /\ \A s \in Sides : child[s][y] = NIL
    <3>1. t2.parent[y] = NIL
      BY <1>1, <1>3, <1>6
    <3>2. ASSUME NEW s \in Sides PROVE child[s][y] = NIL
      BY <1>1, <1>3, <1>7, <1>8, <1>9
    <3>3. QED
      BY <3>1, <3>2
  <2>6. QED
    BY <1>5, <2>1, <2>4, <2>5 DEF AllocOK
<1>11. t2.child[dir][c] = x
  BY <1>1, <1>5, <1>9
<1>12. ASSUME side = dir
       PROVE  t2.child[side][q] = c /\ t2.child[Other(dir)][c] = t.child[Other(dir)][c]
  BY <1>1, <1>5, <1>7, <1>8, <1>9, <1>12
<1>13. QED
  BY <1>5, <1>6, <1>10, <1>11, <1>12

\* The way up still leads to the root.
LEMMA RotatedClimbs ==
  ASSUME NEW t, NEW t2, NEW A, NEW side, NEW dir, NEW x, NEW c, NEW q, NEW r \in A,
         Rotated(t, t2, A, side, dir, x, c, q), Climbs(t, A, r), t.parent[r] = NIL
  PROVE  Climbs(t2, A, r) /\ t2.parent[r] = NIL
<1>1. \A y \in A : t2.parent[y] = IF y = x THEN c ELSE IF y = c THEN q ELSE t.parent[y]
  <2>1. \A y \in Nodes : t2.parent[y] = IF y = x THEN c ELSE IF y = c THEN q ELSE t.parent[y]
    BY RotatedFields
  <2>2. A \subseteq Nodes
    BY DEF Rotated
  <2>3. QED
    BY <2>1, <2>2
<1>2. /\ x \in A /\ c \in A /\ q \in A /\ t.parent[c] = x /\ t.parent[x] = q
      /\ x # NIL /\ q # NIL /\ c # NIL
  BY DEF Rotated
<1>3. r # x /\ r # c
  BY <1>2
<1>4. ASSUME NEW S \in SUBSET A, S # {}, \A y \in S : t2.parent[y] \in S \cup {NIL}
      PROVE  r \in S
  <2> DEFINE T == IF c \in S THEN S \cup {x} ELSE S
  <2>1. c \in S => q \in S
    BY <1>1, <1>2, <1>4
  <2>2. x \in S => c \in S
    BY <1>1, <1>2, <1>4
  <2>3. \A y \in T : t.parent[y] \in T \cup {NIL}
    <3> SUFFICES ASSUME NEW y \in T PROVE t.parent[y] \in T \cup {NIL}
      OBVIOUS
    <3>1. CASE y = x
      BY <1>2, <2>1, <2>2, <3>1
    <3>2. CASE y = c
      BY <1>2, <2>1, <2>2, <3>2
    <3>3. CASE y # x /\ y # c
      <4>1. y \in S /\ t2.parent[y] = t.parent[y]
        BY <1>1, <3>3
      <4>2. QED
        BY <1>4, <4>1
    <3>4. QED
      BY <3>1, <3>2, <3>3
  <2>4. T \in SUBSET A /\ T # {}
    BY <1>2, <1>4
  <2>5. r \in T
    <3> HIDE DEF T
    <3>1. QED
      BY <2>3, <2>4 DEF Climbs
  <2>6. QED
    BY <1>3, <2>5
<1>5. QED
  BY <1>1, <1>3, <1>4 DEF Climbs

\* Node n, its parent and its grandparent, and the grandparent's parent, differ.
LEMMA Distinct ==
  ASSUME NEW t, NEW A, NEW r, NEW n \in A, Climbs(t, A, r), t.parent[r] = NIL, NIL \notin A,
         t.parent[n] \in A
  PROVE  LET p == t.parent[n]
             g == t.parent[p]
         IN  p # n /\ (g \in A => g # p /\ g # n /\ (t.parent[g] \in A => t.parent[g] # p))
<1> DEFINE p == t.parent[n]
           g == t.parent[p]
<1>1. p # n
  <2>1. {n} \in SUBSET A /\ (p = n => \A x \in {n} : t.parent[x] \in {n} \cup {NIL})
    OBVIOUS
  <2>2. QED
    BY <2>1 DEF Climbs
<1>2. ASSUME g \in A PROVE g # p
  <2>1. {p} \in SUBSET A /\ (g = p => \A x \in {p} : t.parent[x] \in {p} \cup {NIL})
    OBVIOUS
  <2>2. QED
    BY <1>2, <2>1 DEF Climbs
<1>3. ASSUME g \in A PROVE g # n
  <2>1. {n, p} \in SUBSET A /\ (g = n => \A x \in {n, p} : t.parent[x] \in {n, p} \cup {NIL})
    OBVIOUS
  <2>2. QED
    BY <1>3, <2>1 DEF Climbs
<1>4. ASSUME g \in A, t.parent[g] \in A PROVE t.parent[g] # p
  <2>1. {g, p} \in SUBSET A
        /\ (t.parent[g] = p => \A x \in {g, p} : t.parent[x] \in {g, p} \cup {NIL})
    BY <1>4
  <2>2. QED
    BY <1>4, <2>1 DEF Climbs
<1>5. QED
  BY <1>1, <1>2, <1>3, <1>4

--------------------------------------------------------------------------------
(* The steps of the insertion.                                             *)

\* No call so far has spoilt the links of the tree.
SoundBetweenCalls == pc = "idle" => Sound(tree.child)

LEMMA SoundIs == Sound(tree.child) <=> SoundTree(tree, Allocated, root)
BY DEF Sound, SoundTree, parent

LEMMA TreeInvInit == Init => TreeInv
<1> SUFFICES ASSUME Init PROVE TreeInv
  OBVIOUS
<1>1. Allocated = {}
  BY DEF Init, Allocated
<1>2. AllocOK(tree, Allocated)
  BY <1>1 DEF Init, AllocOK
<1>3. QED
  BY <1>1, <1>2 DEF Init, TreeInv, BlackParents, Climbs

\* Steps that leave the parents, the colours and the keys, and whose node is
\* none that the insertion cases work on.
LEMMA TreeInvQuiet ==
  ASSUME TypeInv, TreeInv,
         pc \in {"idle", "print", "seek", "descend"},
         pc' \in {"idle", "print", "seek", "destroyed", "descend"},
         pc' = "descend" => SoundTree(tree', Allocated', root'),
         tree'.parent = tree.parent, tree'.color = tree.color,
         UNCHANGED <<keys, root, node>>,
         AllocOK(tree', Allocated'), {curr', prev'} \subseteq Allocated' \cup {NIL}
  PROVE  TreeInv'
<1>1. Allocated' = Allocated
  BY DEF Allocated
<1>2. Exempt = NIL /\ Exempt' = NIL
  BY DEF Exempt
<1>3. BlackParents(tree', Allocated', Exempt')
  BY <1>1, <1>2 DEF TreeInv, BlackParents
<1>4. Climbs(tree', Allocated', root')
  BY <1>1 DEF TreeInv, Climbs
<1>5. {root', node', curr', prev'} \subseteq Allocated' \cup {NIL}
  BY <1>1 DEF TreeInv
<1>6. root' # NIL => /\ tree'.parent[root'] = NIL
                     /\ tree'.color[root'] = "black" \/ (pc' = "case1" /\ root' = node')
  BY DEF TreeInv
<1>7. QED
  BY <1>3, <1>4, <1>5, <1>6 DEF TreeInv

LEMMA InsertKeeps ==
  ASSUME TypeInv, TreeInv, SoundBetweenCalls, NEW k \in Keys, InsertEnter(k)
  PROVE  TreeInv'
<1>1. CASE root = NIL
  <2> DEFINE n == Len(keys) + 1
  <2>1. /\ keys' = Append(keys, k) /\ root' = n /\ node' = n /\ pc' = "case1"
        /\ UNCHANGED <<curr, tree, prev>>
    <3>1. Len(Append(keys, k)) = n
      BY KeysGrow DEF InsertEnter
    <3>2. QED
      BY <1>1, <3>1 DEF InsertEnter
  <2>2. Allocated = {} /\ Allocated' = {n} /\ n \in Nodes /\ n # NIL
    <3>1. Allocated' = Allocated \cup {n} /\ n \in Nodes /\ n # NIL
      BY <2>1, AllocGrow DEF InsertEnter, Allocated
    <3>2. QED
      BY <1>1, <3>1, AllocFacts
  <2> HIDE DEF n
  <2>3. \A x \in Nodes : tree.parent[x] = NIL /\ \A s \in Sides : tree.child[s][x] = NIL
    BY <2>2 DEF TreeInv, AllocOK
  <2>4. AllocOK(tree', Allocated')
    BY <2>1, <2>3 DEF AllocOK
  <2>5. {root', node', curr', prev'} \subseteq Allocated' \cup {NIL}
    BY <2>1, <2>2 DEF TreeInv
  <2>6. BlackParents(tree', Allocated', Exempt')
    BY <2>1, <2>2 DEF BlackParents, Exempt
  <2>7. Climbs(tree', Allocated', root')
    BY <2>1, <2>2 DEF Climbs
  <2>8. SoundTree(tree', Allocated', root')
    BY <2>1, <2>2, <2>3 DEF SoundTree
  <2>9. tree'.parent[root'] = NIL
    BY <2>1, <2>2, <2>3
  <2>10. QED
    BY <2>1, <2>4, <2>5, <2>6, <2>7, <2>8, <2>9 DEF TreeInv
<1>2. CASE root # NIL
  <2>1. /\ pc = "idle" /\ pc' = "descend" /\ curr' = root
        /\ UNCHANGED <<keys, root, node, tree, prev>>
    BY <1>2 DEF InsertEnter
  <2>2. SoundTree(tree', Allocated', root')
    BY <2>1, SoundIs DEF SoundBetweenCalls, Allocated
  <2>3. AllocOK(tree', Allocated') /\ {curr', prev'} \subseteq Allocated' \cup {NIL}
    BY <2>1 DEF TreeInv, Allocated
  <2>4. QED
    BY <2>1, <2>2, <2>3, TreeInvQuiet
<1>3. QED
  BY <1>1, <1>2

LEMMA DescendKeeps ==
  ASSUME TypeInv, TreeInv, Descend
  PROVE  TreeInv'
<1> DEFINE side == Turn(arg, keys[curr])
           n == Len(keys) + 1
<1>1. /\ side \in Sides /\ curr \in Allocated /\ root \in Allocated /\ pc = "descend"
      /\ Len(keys) < MaxNodes /\ TreeOK(tree)
      /\ Allocated \subseteq Nodes /\ NIL \notin Allocated
  BY TypeOKParts, AllocFacts DEF Descend, TypeInv, LabelInv, TreeInv, Turn, Sides
<1> HIDE DEF side
<1>2. CASE tree.child[side][curr] # NIL
  <2>1. curr' = tree.child[side][curr] /\ UNCHANGED <<tree, keys, node, pc, root, prev>>
    BY <1>2 DEF Descend, side
  <2>2. SoundTree(tree', Allocated', root')
    BY <1>1, <2>1 DEF TreeInv, Allocated
  <2>3. AllocOK(tree', Allocated') /\ {curr', prev'} \subseteq Allocated' \cup {NIL}
    <3>1. curr' \in Allocated \cup {NIL}
      BY <1>1, <2>1 DEF TreeInv, AllocOK
    <3>2. QED
      BY <2>1, <3>1 DEF TreeInv, Allocated
  <2>4. QED
    BY <1>1, <2>1, <2>2, <2>3, TreeInvQuiet
<1>3. CASE tree.child[side][curr] = NIL
  <2>1. /\ keys' = Append(keys, arg) /\ node' = n /\ pc' = "case1"
        /\ tree' = [tree EXCEPT !.child[side][curr] = n, !.parent[n] = curr]
        /\ UNCHANGED <<curr, root, prev>>
    BY <1>3 DEF Descend, side
  <2>2. Allocated' = Allocated \cup {n} /\ n \in Nodes /\ n \notin Allocated /\ n # NIL
    BY <1>1, <2>1, TypeOKParts, AllocGrow DEF Allocated, TypeInv
  <2> HIDE DEF n
  <2>3. Grown(tree, tree', Allocated, curr, side, n)
    BY <1>1, <1>3, <2>1, <2>2 DEF Grown, TreeInv
  <2>4. BlackParents(tree, Allocated, NIL) /\ Climbs(tree, Allocated, root)
        /\ SoundTree(tree, Allocated, root)
    BY <1>1 DEF TreeInv, Exempt
  <2>5. /\ AllocOK(tree', Allocated') /\ BlackParents(tree', Allocated', n)
        /\ Climbs(tree', Allocated', root) /\ SoundTree(tree', Allocated', root)
    BY <1>1, <2>2, <2>3, <2>4, GrownTree
  <2>6. Exempt' = n
    BY <2>1 DEF Exempt
  <2>7. tree'.parent[root] = NIL /\ tree'.color[root] = "black"
    <3>1. tree.parent[root] = NIL /\ tree.color[root] = "black"
      BY <1>1 DEF TreeInv
    <3>2. tree'.parent[root] = tree.parent[root] /\ tree'.color[root] = tree.color[root]
      BY <1>1, <2>2, <2>3, GrownFields
    <3>3. QED
      BY <3>1, <3>2
  <2>8. {root', node', curr', prev'} \subseteq Allocated' \cup {NIL}
    BY <2>1, <2>2 DEF TreeInv
  <2>9. QED
    BY <2>1, <2>5, <2>6, <2>7, <2>8 DEF TreeInv
<1>4. QED
  BY <1>2, <1>3

LEMMA Case12Keeps ==
  ASSUME TypeInv, TreeInv, Case1 \/ Case2
  PROVE  TreeInv'
<1>1. /\ pc = "case1" /\ pc' = "idle" /\ node \in Allocated /\ node \in Nodes
      /\ UNCHANGED <<root, keys, node, curr, prev>>
      /\ Allocated' = Allocated /\ Allocated \subseteq Nodes /\ NIL \notin Allocated
      /\ root \in Allocated /\ TreeOK(tree)
  <2>1. node \in Allocated
    BY DEF Case1, Case2, TypeInv, LabelInv, TreeInv
  <2>2. root \in Allocated
    BY <2>1, AllocFacts DEF TreeInv
  <2>3. QED
    BY <2>1, <2>2, AllocFacts, TypeOKParts DEF Case1, Case2, TypeInv, Allocated
<1>2. BlackParents(tree, Allocated, node) /\ Exempt' = NIL
  BY <1>1 DEF TreeInv, Exempt
<1>3. tree.parent[root] = NIL /\ (tree.color[root] = "black" \/ root = node)
  BY <1>1 DEF TreeInv
<1>4. CASE Case1
  <2>1. tree.parent[node] = NIL /\ tree' = [tree EXCEPT !.color = Paint("black", {node})]
    BY <1>4 DEF Case1, parent
  <2>2. /\ tree'.parent = tree.parent /\ tree'.child = tree.child
        /\ \A x \in Nodes : tree'.color[x] = IF x = node THEN "black" ELSE tree.color[x]
    BY <1>1, <2>1 DEF TreeOK, Paint
  <2>3. root = node
    <3>1. {node} \in SUBSET Allocated /\ \A x \in {node} : tree.parent[x] \in {node} \cup {NIL}
      BY <1>1, <2>1
    <3>2. QED
      BY <3>1 DEF TreeInv, Climbs
  <2>4. BlackParents(tree', Allocated', Exempt')
    <3> SUFFICES ASSUME NEW x \in Allocated, tree'.color[x] = "red", tree'.parent[x] # NIL
                 PROVE  tree'.color[tree'.parent[x]] = "black"
      BY <1>1 DEF BlackParents
    <3>1. x # node /\ tree.color[x] = "red"
      BY <1>1, <2>2
    <3>2. tree.parent[x] \in Allocated
      BY <1>1, <2>2 DEF TreeInv, AllocOK
    <3>3. tree.color[tree.parent[x]] = "black"
      BY <1>2, <2>2, <3>1 DEF BlackParents
    <3>4. QED
      BY <1>1, <2>2, <3>2, <3>3
  <2>5. AllocOK(tree', Allocated') /\ Climbs(tree', Allocated', root')
    BY <1>1, <2>2 DEF TreeInv, AllocOK, Climbs
  <2>6. tree'.color[root] = "black"
    BY <1>1, <2>2, <2>3
  <2>7. QED
    BY <1>1, <1>3, <2>2, <2>4, <2>5, <2>6 DEF TreeInv
<1>5. CASE Case2
  <2>1. /\ tree.parent[node] # NIL /\ tree.color[tree.parent[node]] = "black" /\ tree' = tree
    BY <1>5 DEF Case2, parent
  <2>2. BlackParents(tree', Allocated', Exempt')
    BY <1>1, <1>2, <2>1 DEF BlackParents
  <2>3. root # node
    BY <1>3, <2>1
  <2>4. QED
    BY <1>1, <1>3, <2>1, <2>2, <2>3 DEF TreeInv
<1>6. QED
  BY <1>4, <1>5

\* What the insertion cases know of the node they work on.
LEMMA CaseFacts ==
  ASSUME TypeInv, TreeInv, pc \in {"case1", "case4", "case5"}, tree.parent[node] # NIL
  PROVE  /\ node \in Allocated /\ root \in Allocated /\ tree.parent[node] \in Allocated
         /\ Allocated \subseteq Nodes /\ NIL \notin Allocated /\ TreeOK(tree)
         /\ AllocOK(tree, Allocated) /\ Climbs(tree, Allocated, root)
         /\ BlackParents(tree, Allocated, node)
         /\ tree.parent[root] = NIL /\ tree.color[root] = "black"
         /\ tree.parent[tree.parent[node]] \in Allocated \cup {NIL}
         /\ grandparent(node) = tree.parent[tree.parent[node]]
<1>1. node \in Allocated
  BY DEF TypeInv, LabelInv, TreeInv
<1>2. root \in Allocated /\ Allocated \subseteq Nodes /\ NIL \notin Allocated
  BY <1>1, AllocFacts DEF TreeInv
<1>3. AllocOK(tree, Allocated) /\ Climbs(tree, Allocated, root)
      /\ BlackParents(tree, Allocated, node)
  BY DEF TreeInv, Exempt
<1>4. tree.parent[node] \in Allocated
  BY <1>1, <1>2, <1>3 DEF AllocOK
<1>5. tree.parent[tree.parent[node]] \in Allocated \cup {NIL}
  BY <1>2, <1>3, <1>4 DEF AllocOK
<1>6. tree.parent[root] = NIL /\ tree.color[root] = "black"
  BY <1>2 DEF TreeInv
<1>7. grandparent(node) = tree.parent[tree.parent[node]]
  BY DEF grandparent, parent
<1>8. QED
  BY <1>1, <1>2, <1>3, <1>4, <1>5, <1>6, <1>7, TypeOKParts DEF TypeInv

\* In a sound tree a child of the grandparent is the parent or the uncle.
LEMMA UncleIs ==
  ASSUME SoundTree(tree, Allocated, root), tree.parent[root] = NIL,
         tree.parent[node] \in Allocated, NIL \notin Allocated,
         tree.parent[tree.parent[node]] \in Allocated,
         NEW y \in Allocated, y # tree.parent[node],
         tree.parent[y] = tree.parent[tree.parent[node]]
  PROVE  y = uncle(node)
<1> DEFINE p == tree.parent[node]
           g == tree.parent[p]
<1>1. p \in Allocated \ {root} /\ y \in Allocated \ {root}
  OBVIOUS
<1>2. PICK s \in Sides : \A u \in Sides : tree.child[u][g] = p <=> u = s
  BY <1>1 DEF SoundTree
<1>3. PICK v \in Sides : \A u \in Sides : tree.child[u][g] = y <=> u = v
  <2>1. \E v \in Sides : \A u \in Sides : tree.child[u][tree.parent[y]] = y <=> u = v
    BY <1>1 DEF SoundTree
  <2>2. QED
    BY <2>1
<1>4. uncle(node) = IF p = tree.child["left"][g] THEN tree.child["right"][g]
                                                 ELSE tree.child["left"][g]
  BY DEF uncle, grandparent, parent, left, right
<1> HIDE DEF p, g
<1>5. s # v
  BY <1>2, <1>3 DEF p
<1>6. QED
  BY <1>2, <1>3, <1>4, <1>5 DEF Sides

LEMMA Case3Keeps ==
  ASSUME TypeInv, TreeInv, Case3
  PROVE  TreeInv'
<1> DEFINE p == tree.parent[node]
           g == tree.parent[p]
           u == uncle(node)
<1>1. pc = "case1" /\ p # NIL /\ tree.color[p] = "red"
  BY DEF Case3, parent
<1>2. /\ node \in Allocated /\ root \in Allocated /\ p \in Allocated
      /\ Allocated \subseteq Nodes /\ NIL \notin Allocated /\ TreeOK(tree)
      /\ AllocOK(tree, Allocated) /\ Climbs(tree, Allocated, root)
      /\ BlackParents(tree, Allocated, node)
      /\ tree.parent[root] = NIL /\ tree.color[root] = "black"
      /\ g \in Allocated \cup {NIL} /\ grandparent(node) = g
      /\ SoundTree(tree, Allocated, root)
  BY <1>1, CaseFacts DEF TreeInv
<1>3. p # node /\ (g \in Allocated => g # p /\ g # node)
  BY <1>2, Distinct
<1>4. g # NIL => tree.color[g] = "black"
  BY <1>1, <1>2, <1>3 DEF BlackParents
<1>5. ASSUME g # NIL, NEW y \in Allocated, y # p, tree.parent[y] = g PROVE y = u
  BY <1>2, <1>5, UncleIs
<1>6. UNCHANGED <<root, keys, curr, prev>> /\ Allocated' = Allocated
  BY DEF Case3, Allocated
<1>7. CASE RedUncle
  <2>1. g # NIL /\ u # NIL
    BY <1>2, <1>7 DEF RedUncle, uncle
  <2>2. /\ tree' = [tree EXCEPT !.color = [Paint("black", {p, u}) EXCEPT ![g] = "red"]]
        /\ node' = g /\ pc' = "case1"
    BY <1>1, <1>2, <1>7 DEF Case3, parent
  <2> HIDE DEF p, g, u
  <2>3. /\ tree'.parent = tree.parent /\ tree'.child = tree.child
        /\ \A x \in Nodes : tree'.color[x] = IF x = g THEN "red"
                                              ELSE IF x \in {p, u} THEN "black" ELSE tree.color[x]
    <3> DEFINE color == [Paint("black", {p, u}) EXCEPT ![g] = "red"]
    <3>1. \A x \in Nodes : color[x] = IF x = g THEN "red"
                                      ELSE IF x \in {p, u} THEN "black" ELSE tree.color[x]
      BY DEF Paint
    <3>2. tree' = [tree EXCEPT !.color = color]
      BY <2>2
    <3> HIDE DEF color
    <3>3. tree'.parent = tree.parent /\ tree'.child = tree.child /\ tree'.color = color
      BY <1>2, <3>2 DEF TreeOK
    <3>4. QED
      BY <3>1, <3>3
  <2>4. g \in Allocated /\ Exempt' = g
    BY <1>2, <2>1, <2>2 DEF Exempt
  <2>5. BlackParents(tree', Allocated', g)
    <3> SUFFICES ASSUME NEW x \in Allocated, x # g, tree'.color[x] = "red", tree.parent[x] # NIL
                 PROVE  tree'.color[tree.parent[x]] = "black"
      BY <1>6, <2>3 DEF BlackParents
    <3>1. x \notin {p, u} /\ tree.color[x] = "red"
      BY <1>2, <2>3
    <3>2. tree.parent[x] \in Allocated /\ tree.parent[x] # g
      BY <1>2, <1>5, <2>1, <3>1 DEF AllocOK
    <3>3. tree.parent[x] \in {p, u} \/ tree.color[tree.parent[x]] = "black"
      BY <1>2, <3>1 DEF BlackParents, p
    <3>4. QED
      BY <1>2, <2>3, <3>2, <3>3
  <2>6. AllocOK(tree', Allocated') /\ Climbs(tree', Allocated', root')
        /\ SoundTree(tree', Allocated', root')
    BY <1>2, <1>6, <2>3 DEF AllocOK, Climbs, SoundTree
  <2>7. tree'.parent[root] = NIL /\ (tree'.color[root] = "black" \/ root = g)
    BY <1>2, <2>3
  <2>8. {root', node', curr', prev'} \subseteq Allocated' \cup {NIL}
    BY <1>6, <2>2, <2>4 DEF TreeInv
  <2>9. QED
    BY <1>6, <2>2, <2>4, <2>5, <2>6, <2>7, <2>8 DEF TreeInv
<1>8. CASE ~RedUncle
  <2>1. pc' = (IF g = NIL THEN "crash" ELSE "case4") /\ UNCHANGED <<tree, node>>
    BY <1>2, <1>8 DEF Case3
  <2>2. Exempt' = node
    BY <2>1 DEF Exempt
  <2>3. ASSUME g # NIL PROVE FamilyOK(tree, Allocated, node)
    <3>1. ASSUME NEW y \in Allocated, y # p, tree.parent[y] = g PROVE tree.color[y] = "black"
      <4>1. y = u /\ u # NIL
        BY <1>2, <1>5, <2>3, <3>1
      <4>2. tree.color[y] # "red"
        BY <1>8, <4>1 DEF RedUncle
      <4>3. QED
        BY <1>2, <4>2, Fields DEF Colors
    <3>2. QED
      BY <1>2, <2>3, <3>1 DEF FamilyOK
  <2>4. {root', node', curr', prev'} \subseteq Allocated' \cup {NIL}
    BY <1>6, <2>1 DEF TreeInv
  <2> HIDE DEF p, u
  <2>5. CASE g = NIL
    BY <1>2, <1>6, <2>1, <2>2, <2>4, <2>5 DEF TreeInv
  <2>6. CASE g # NIL
    <3>1. tree.color[tree.parent[tree.parent[node]]] = "black"
      BY <1>4, <2>6 DEF p
    <3> HIDE DEF g
    <3>2. QED
      BY <1>2, <1>6, <2>1, <2>2, <2>3, <2>4, <2>6, <3>1 DEF TreeInv
  <2>7. QED
    BY <2>5, <2>6
<1>9. QED
  BY <1>7, <1>8

\* The rotation of case 4, in either direction: the parent becomes the node.
LEMMA Case4Rotates ==
  ASSUME TypeInv, TreeInv, pc = "case4", NEW dir \in Sides,
         tree.child[Other(dir)][tree.parent[node]] = node,
         tree.child[dir][tree.parent[tree.parent[node]]] = tree.parent[node],
         tree' = Rotate(tree, dir, dir, tree.parent[node]),
         node' = tree'.child[dir][node],
         pc' = (IF node' = NIL THEN "idle" ELSE "case5"),
         UNCHANGED <<root, keys, curr, prev>>
  PROVE  TreeInv'
<1> DEFINE p == tree.parent[node]
           g == tree.parent[p]
<1>1. /\ p \in Allocated /\ g \in Allocated
      /\ \A y \in Allocated \ {p} : tree.parent[y] = g => tree.color[y] = "black"
      /\ tree.color[g] = "black"
  BY DEF TreeInv, FamilyOK
<1>2. /\ node \in Allocated /\ root \in Allocated
      /\ Allocated \subseteq Nodes /\ NIL \notin Allocated /\ TreeOK(tree)
      /\ AllocOK(tree, Allocated) /\ Climbs(tree, Allocated, root)
      /\ BlackParents(tree, Allocated, node)
      /\ tree.parent[root] = NIL /\ tree.color[root] = "black"
      /\ SoundTree(tree, Allocated, root)
  <2>1. p # NIL
    BY <1>1, AllocFacts
  <2>2. QED
    BY <2>1, CaseFacts DEF TreeInv
<1>3. p # node /\ g # p /\ g # node
  BY <1>1, <1>2, Distinct
<1>4. Allocated' = Allocated
  BY DEF Allocated
<1>5. Rotated(tree, tree', Allocated, dir, dir, p, node, g)
  BY <1>1, <1>2, <1>3 DEF Rotated
<1>6. tree.child[Other(dir)][node] # p
  <2>1. Other(dir) \in Sides
    BY DEF Other, Sides
  <2>2. p # NIL
    BY <1>1, <1>2
  <2>3. QED
    BY <1>2, <1>3, <2>1, <2>2 DEF SoundTree
<1> HIDE DEF p, g
<1>7. /\ tree'.color = tree.color
      /\ \A y \in Nodes : tree'.parent[y] = IF y = p THEN node ELSE IF y = node THEN g
                                            ELSE tree.parent[y]
      /\ AllocOK(tree', Allocated)
      /\ tree'.child[dir][node] = p /\ tree'.child[dir][g] = node
      /\ tree'.child[Other(dir)][node] # p
  BY <1>5, <1>6, RotatedFields
<1>8. Climbs(tree', Allocated, root) /\ tree'.parent[root] = NIL
  BY <1>2, <1>5, RotatedClimbs
<1>9. node' = p /\ pc' = "case5" /\ Exempt' = p
  BY <1>1, <1>2, <1>7 DEF Exempt
<1>10. tree'.parent[p] = node /\ tree'.parent[node] = g
  BY <1>1, <1>2, <1>3, <1>7
<1>11. FamilyOK(tree', Allocated, p)
  <2>1. ASSUME NEW y \in Allocated, y # node, tree'.parent[y] = g PROVE tree'.color[y] = "black"
    BY <1>1, <1>2, <1>3, <1>7, <2>1
  <2>2. QED
    BY <1>1, <1>2, <1>10, <2>1 DEF FamilyOK
<1>12. Lined(tree', p)
  <2>1. tree'.child["left"][node] = p <=> dir = "left"
    BY <1>7 DEF Other, Sides
  <2>2. QED
    BY <1>7, <1>10, <2>1 DEF Lined
<1>13. BlackParents(tree', Allocated, p)
  <2> SUFFICES ASSUME NEW x \in Allocated, x # p, tree.color[x] = "red", tree'.parent[x] # NIL
               PROVE  tree.color[tree'.parent[x]] = "black"
    BY <1>7 DEF BlackParents
  <2>1. CASE x = node
    BY <1>1, <1>10, <2>1
  <2>2. CASE x # node
    BY <1>2, <1>7, <2>2 DEF BlackParents
  <2>3. QED
    BY <2>1, <2>2
<1>14. {root', node', curr', prev'} \subseteq Allocated' \cup {NIL}
  BY <1>1, <1>4, <1>9 DEF TreeInv
<1>15. QED
  BY <1>2, <1>4, <1>7, <1>8, <1>9, <1>11, <1>12, <1>13, <1>14 DEF TreeInv

LEMMA Case4Keeps ==
  ASSUME TypeInv, TreeInv, Case4
  PROVE  TreeInv'
<1> DEFINE p == tree.parent[node]
           g == tree.parent[p]
<1>1. pc = "case4"
  BY DEF Case4
<1>2. p \in Allocated /\ g \in Allocated
  BY <1>1 DEF TreeInv, FamilyOK
<1>3. p # NIL /\ g # NIL
  BY <1>2, AllocFacts
<1>4. /\ node \in Allocated /\ root \in Allocated /\ NIL \notin Allocated
      /\ tree.parent[root] = NIL /\ grandparent(node) = g
      /\ tree.color[root] = "black" /\ BlackParents(tree, Allocated, node)
      /\ SoundTree(tree, Allocated, root)
  BY <1>1, <1>3, CaseFacts DEF TreeInv
<1>5. /\ \/ /\ tree.child["right"][p] = node /\ p = tree.child["left"][g]
            /\ tree' = Rotate(tree, "left", "left", p)
            /\ node' = tree'.child["left"][node]
         \/ /\ tree.child["left"][p] = node /\ p = tree.child["right"][g]
            /\ tree' = Rotate(tree, "right", "right", p)
            /\ node' = tree'.child["right"][node]
         \/ /\ tree.child["right"][p] # node \/ p # tree.child["left"][g]
            /\ tree.child["left"][p] # node \/ p # tree.child["right"][g]
            /\ UNCHANGED <<tree, node>>
      /\ pc' = (IF node' = NIL THEN "idle" ELSE "case5")
      /\ UNCHANGED <<root, keys, curr, prev>>
  BY <1>4 DEF Case4, parent, left, right
<1>6. CASE /\ tree.child["right"][p] = node /\ p = tree.child["left"][g]
           /\ tree' = Rotate(tree, "left", "left", p) /\ node' = tree'.child["left"][node]
  <2>1. "left" \in Sides /\ Other("left") = "right"
    BY DEF Sides, Other
  <2>2. QED
    BY <1>1, <1>5, <1>6, <2>1, Case4Rotates
<1>7. CASE /\ tree.child["left"][p] = node /\ p = tree.child["right"][g]
           /\ tree' = Rotate(tree, "right", "right", p) /\ node' = tree'.child["right"][node]
  <2>1. "right" \in Sides /\ Other("right") = "left"
    BY DEF Sides, Other
  <2>2. QED
    BY <1>1, <1>5, <1>7, <2>1, Case4Rotates
<1>8. CASE /\ tree.child["right"][p] # node \/ p # tree.child["left"][g]
           /\ tree.child["left"][p] # node \/ p # tree.child["right"][g]
           /\ UNCHANGED <<tree, node>>
  <2>1. PICK s \in Sides : \A u \in Sides : tree.child[u][p] = node <=> u = s
    BY <1>3, <1>4 DEF SoundTree
  <2>2. PICK v \in Sides : \A u \in Sides : tree.child[u][g] = p <=> u = v
    BY <1>2, <1>3, <1>4 DEF SoundTree
  <2> DEFINE up == tree.child
  <2>3. s = v
    <3>1. (s = "left" \/ s = "right") /\ (v = "left" \/ v = "right")
      BY DEF Sides
    <3>2. (up["left"][p] = node <=> s = "left") /\ (up["right"][p] = node <=> s = "right")
      BY <2>1 DEF Sides
    <3>3. (up["left"][g] = p <=> v = "left") /\ (up["right"][g] = p <=> v = "right")
      BY <2>2 DEF Sides
    <3> HIDE DEF up
    <3>4. /\ up["right"][p] # node \/ p # up["left"][g]
          /\ up["left"][p] # node \/ p # up["right"][g]
      BY <1>8 DEF up
    <3>5. QED
      BY <3>1, <3>2, <3>3, <3>4
  <2>4. Lined(tree, node)
    BY <2>1, <2>2, <2>3 DEF Lined, Sides
  <2>5. pc' = "case5" /\ Exempt' = node /\ Allocated' = Allocated
    BY <1>4, <1>5, <1>8 DEF Exempt, Allocated
  <2> HIDE DEF p, g, up
  <2>6. QED
    BY <1>1, <1>4, <1>5, <1>8, <2>4, <2>5 DEF TreeInv
<1>9. QED
  BY <1>5, <1>6, <1>7, <1>8

LEMMA Case5Keeps ==
  ASSUME TypeInv, TreeInv, Case5
  PROVE  TreeInv'
<1> DEFINE p == tree.parent[node]
           g == tree.parent[p]
           q == tree.parent[g]
           painted == [tree EXCEPT !.color = [Paint("black", {p}) EXCEPT ![g] = "red"]]
<1>1. pc = "case5"
  BY DEF Case5
<1>2. /\ p \in Allocated /\ g \in Allocated
      /\ \A y \in Allocated \ {p} : tree.parent[y] = g => tree.color[y] = "black"
  BY <1>1 DEF TreeInv, FamilyOK
<1>3. /\ node \in Allocated /\ root \in Allocated
      /\ Allocated \subseteq Nodes /\ NIL \notin Allocated /\ TreeOK(tree)
      /\ AllocOK(tree, Allocated) /\ Climbs(tree, Allocated, root)
      /\ BlackParents(tree, Allocated, node)
      /\ tree.parent[root] = NIL /\ tree.color[root] = "black"
      /\ grandparent(node) = g
  <2>1. p # NIL
    BY <1>2, AllocFacts
  <2>2. QED
    BY <1>1, <2>1, CaseFacts
<1>4. PICK side \in Sides : /\ tree.child[side][p] = node /\ tree.child[side][g] = p
                            /\ (tree.child["left"][p] = node <=> side = "left")
  BY <1>1 DEF TreeInv, Lined
<1>5. q \in Allocated \cup {NIL}
  BY <1>2, <1>3 DEF AllocOK
<1>6. p # node /\ g # p /\ g # node /\ (q \in Allocated => q # p)
  BY <1>2, <1>3, Distinct
<1>7. Allocated' = Allocated /\ UNCHANGED <<root, keys, node, curr, prev>>
  BY DEF Case5, Allocated
<1>8. side \in {"left", "right"}
  BY DEF Sides
<1>9. IF q = NIL THEN pc' = "crash" /\ UNCHANGED tree
                 ELSE pc' = "idle" /\ tree' = Rotate(painted, side, Other(side), g)
  <2>1. /\ (IF left(p) = node THEN "left" ELSE "right") = side
        /\ (IF left(p) = node THEN "right" ELSE "left") = Other(side)
    BY <1>4, <1>8 DEF left, Other
  <2>2. p = parent(node) /\ g = grandparent(node) /\ q = parent(g)
    BY <1>3 DEF parent
  <2>3. IF tree.child[side][g] # NIL /\ q = NIL
        THEN pc' = "crash" /\ UNCHANGED tree
        ELSE pc' = "idle" /\ tree' = Rotate(painted, side, Other(side), g)
    BY <2>1, <2>2 DEF Case5
  <2>4. tree.child[side][g] # NIL
    BY <1>2, <1>3, <1>4
  <2>5. QED
    BY <2>3, <2>4
<1>10. CASE q = NIL
  <2>1. pc' = "crash" /\ UNCHANGED tree /\ Exempt' = node
    BY <1>7, <1>9, <1>10 DEF Exempt
  <2> HIDE DEF p, g, q, painted
  <2>2. QED
    BY <1>1, <1>3, <1>7, <2>1 DEF TreeInv
<1>11. CASE q # NIL
  <2>1. pc' = "idle" /\ tree' = Rotate(painted, side, Other(side), g) /\ Exempt' = NIL
    BY <1>9, <1>11 DEF Exempt
  <2>2. q \in Allocated
    BY <1>5, <1>11
  <2> HIDE DEF p, g, q
  <2>3. /\ painted.parent = tree.parent /\ painted.child = tree.child /\ TreeOK(painted)
        /\ \A x \in Nodes : painted.color[x] = IF x = g THEN "red" ELSE IF x = p THEN "black"
                                               ELSE tree.color[x]
    <3> DEFINE color == [Paint("black", {p}) EXCEPT ![g] = "red"]
    <3>1. color \in [Nodes -> Colors]
      BY <1>3, PaintOK DEF Colors
    <3>2. \A x \in Nodes : color[x] = IF x = g THEN "red" ELSE IF x = p THEN "black"
                                      ELSE tree.color[x]
      BY DEF Paint
    <3>3. painted = [tree EXCEPT !.color = color]
      OBVIOUS
    <3> HIDE DEF color, painted
    <3>4. painted.parent = tree.parent /\ painted.child = tree.child /\ TreeOK(painted)
          /\ painted.color = color
      BY <1>3, <3>1, <3>3 DEF TreeOK
    <3>5. QED
      BY <3>2, <3>4
  <2> HIDE DEF painted
  <2>4. Rotated(painted, tree', Allocated, side, Other(side), g, p, q)
    <3>1. Other(side) \in Sides /\ Other(Other(side)) = side
      BY <1>8 DEF Other, Sides
    <3>2. AllocOK(painted, Allocated)
      BY <1>3, <2>3 DEF AllocOK
    <3>3. painted.parent[p] = g /\ painted.parent[g] = q /\ painted.child[side][g] = p
      BY <1>4, <2>3 DEF g, q
    <3>4. QED
      BY <1>2, <1>3, <1>6, <2>1, <2>2, <2>3, <3>1, <3>2, <3>3 DEF Rotated
  <2>5. /\ tree'.color = painted.color /\ AllocOK(tree', Allocated)
        /\ \A y \in Nodes : tree'.parent[y] = IF y = g THEN p ELSE IF y = p THEN q
                                              ELSE tree.parent[y]
    BY <2>3, <2>4, RotatedFields
  <2>6. Climbs(tree', Allocated, root) /\ tree'.parent[root] = NIL
    <3>1. Climbs(painted, Allocated, root) /\ painted.parent[root] = NIL
      BY <1>3, <2>3 DEF Climbs
    <3>2. QED
      BY <1>3, <2>4, <3>1, RotatedClimbs
  <2>7. root # g /\ tree'.color[root] = "black"
    <3>1. root # g
      BY <1>3, <1>11 DEF q
    <3>2. QED
      BY <1>3, <2>3, <2>5, <3>1
  <2>8. BlackParents(tree', Allocated, NIL)
    <3> SUFFICES ASSUME NEW x \in Allocated, tree'.color[x] = "red", tree'.parent[x] # NIL
                 PROVE  tree'.color[tree'.parent[x]] = "black"
      BY DEF BlackParents
    <3>1. x # p
      BY <1>3, <1>6, <2>3, <2>5
    <3>2. CASE x = g
      BY <1>2, <1>3, <1>6, <2>3, <2>5, <3>2
    <3>3. CASE x # g
      <4>1. tree.color[x] = "red" /\ tree'.parent[x] = tree.parent[x]
        BY <1>3, <2>3, <2>5, <3>1, <3>3
      <4>2. tree.parent[x] \in Allocated /\ tree.parent[x] # g
        BY <1>2, <1>3, <3>1, <4>1 DEF AllocOK
      <4>3. CASE tree.parent[x] = p
        BY <1>2, <1>3, <1>6, <2>3, <2>5, <4>1, <4>3
      <4>4. CASE tree.parent[x] # p
        <5>1. x # node
          BY <4>4 DEF p
        <5>2. tree.color[tree.parent[x]] = "black"
          BY <1>3, <4>1, <4>2, <5>1 DEF BlackParents
        <5>3. QED
          BY <1>3, <2>3, <2>5, <4>1, <4>2, <4>4, <5>2
      <4>5. QED
        BY <4>3, <4>4
    <3>4. QED
      BY <3>2, <3>3
  <2>9. QED
    BY <1>7, <2>1, <2>5, <2>6, <2>7, <2>8 DEF TreeInv
<1>12. QED
  BY <1>10, <1>11

LEMMA PrintKeeps ==
  ASSUME TypeInv, TreeInv, PrintEnter \/ PrintNode \/ Seek \/ rb_tree_destroy
  PROVE  TreeInv'
<1>1. /\ UNCHANGED <<keys, root, node>> /\ Allocated' = Allocated
      /\ pc \in {"idle", "print", "seek"} /\ pc' \in {"idle", "print", "seek", "destroyed"}
  BY DEF PrintEnter, PrintNode, Seek, rb_tree_destroy, Allocated
<1>2. /\ AllocOK(tree, Allocated) /\ {root, curr, prev} \subseteq Allocated \cup {NIL}
      /\ Allocated \subseteq Nodes /\ NIL \notin Allocated /\ TreeOK(tree)
  BY TypeOKParts, AllocFacts DEF TreeInv, TypeInv
<1>3. ASSUME NEW x \in Allocated
      PROVE  left(x) \in Allocated \cup {NIL} /\ right(x) \in Allocated \cup {NIL}
  BY <1>2, <1>3 DEF AllocOK, left, right, Sides
<1>4. CASE PrintEnter \/ PrintNode \/ rb_tree_destroy
  <2>1. UNCHANGED tree /\ {curr', prev'} \subseteq Allocated \cup {NIL}
    <3>1. CASE PrintEnter \/ rb_tree_destroy
      BY <1>2, <3>1 DEF PrintEnter, rb_tree_destroy
    <3>2. CASE PrintNode /\ curr = NIL
      BY <1>2, <3>2 DEF PrintNode
    <3>3. CASE PrintNode /\ curr # NIL
      <4>1. curr \in Allocated
        BY <1>2, <3>3
      <4>2. QED
        BY <1>2, <1>3, <3>3, <4>1 DEF PrintNode
    <3>4. QED
      BY <1>4, <3>1, <3>2, <3>3
  <2>2. QED
    BY <1>1, <1>2, <2>1, TreeInvQuiet
<1>5. CASE Seek
  <2>1. curr \in Allocated /\ prev \in Allocated
    BY <1>2, <1>5 DEF Seek, TypeInv, LabelInv
  <2>2. \/ tree' = tree
        \/ \E to \in Allocated \cup {NIL} : tree' = [tree EXCEPT !.child["right"][prev] = to]
    BY <1>5, <2>1 DEF Seek, Thread, Unthread
  <2>3. tree'.parent = tree.parent /\ tree'.color = tree.color /\ AllocOK(tree', Allocated)
    <3>1. CASE tree' = tree
      BY <1>2, <3>1
    <3>2. ASSUME NEW to \in Allocated \cup {NIL}, tree' = [tree EXCEPT !.child["right"][prev] = to]
          PROVE  tree'.parent = tree.parent /\ tree'.color = tree.color /\ AllocOK(tree', Allocated)
      <4>1. /\ tree'.parent = tree.parent /\ tree'.color = tree.color
            /\ tree'.child = [tree.child EXCEPT !["right"][prev] = to]
        BY <1>2, <3>2 DEF TreeOK
      <4>2. \A x \in Nodes, s \in Sides :
              tree'.child[s][x] = IF s = "right" /\ x = prev THEN to ELSE tree.child[s][x]
        BY <1>2, <2>1, <4>1 DEF TreeOK, Link, Sides
      <4>3. AllocOK(tree', Allocated)
        BY <1>2, <2>1, <3>2, <4>1, <4>2 DEF AllocOK
      <4>4. QED
        BY <4>1, <4>3
    <3>3. QED
      BY <2>2, <3>1, <3>2
  <2>4. {curr', prev'} \subseteq Allocated \cup {NIL}
    <3>1. tree'.child["right"][curr] \in Allocated \cup {NIL}
      BY <1>2, <2>1, <2>3 DEF AllocOK, Sides
    <3>2. QED
      BY <1>2, <1>3, <1>5, <2>1, <3>1 DEF Seek, Onward
  <2>5. QED
    BY <1>1, <2>3, <2>4, TreeInvQuiet
<1>6. QED
  BY <1>4, <1>5

LEMMA TreeInvNext ==
  TypeInv /\ TreeInv /\ SoundBetweenCalls /\ [Next]_vars => TreeInv'
<1> SUFFICES ASSUME TypeInv, TreeInv, SoundBetweenCalls, [Next]_vars PROVE TreeInv'
  OBVIOUS
<1>1. CASE UNCHANGED vars
  <2>1. Allocated' = Allocated /\ Exempt' = Exempt
    BY <1>1 DEF vars, Allocated, Exempt
  <2>2. QED
    BY <1>1, <2>1 DEF vars, TreeInv
<1>2. CASE Next
  BY <1>2, InsertKeeps, DescendKeeps, Case12Keeps, Case3Keeps, Case4Keeps, Case5Keeps,
     PrintKeeps DEF Next, Insertion
<1>3. QED
  BY <1>1, <1>2

--------------------------------------------------------------------------------
(* The root, whatever rotations have done to the links: what is proved     *)
(* here does not need them to be those of a tree.                          *)

\* The traversal has taken up its threads when it ends.
TraversalsRestore == pc = "print" /\ curr = NIL => tree.child = before

\* The tree without the threads of a traversal.
Unthreaded ==
  [child |-> IF pc \in {"print", "seek"} THEN before ELSE tree.child,
   parent |-> tree.parent, color |-> tree.color]

\* No pointer leads to the root r, and none from it up.
Rooted(t, r) == t.parent[r] = NIL /\ \A x \in Nodes, s \in Sides : t.child[s][x] # r

\* A rotation of the root writes through NULL when there is a child to turn up, and
\* otherwise leaves it red: the root has both children, or is about to have them
\* or to crash.  With y below r, the third node z is below r or below y.
Wide(t, r) == \A s \in Sides : t.child[s][r] # NIL

Pair(t, r, y, s) ==
  /\ t.child[s][r] = y /\ t.child[Other(s)][r] = NIL /\ y # r
  /\ t.parent[y] = r /\ t.color[y] = "red"

Leaf(t, x) == \A s \in Sides : t.child[s][x] = NIL

Chain(t, r, y, z, s, u) ==
  /\ Pair(t, r, y, s)
  /\ t.child[u][y] = z /\ t.child[Other(u)][y] = NIL /\ t.parent[z] = y
  /\ Leaf(t, z) /\ z # r /\ z # y

\* rb_tree_insert_case5 is going to rotate the root, which has a child to turn up.
Doomed(t, r, n) ==
  LET p == t.parent[n]
  IN  t.parent[p] = r /\ t.child[IF t.child["left"][p] = n THEN "left" ELSE "right"][r] # NIL

Shape(t, A, r, label, n) ==
  \/ A = {} /\ label \notin {"case4", "case5"}
  \/ Wide(t, r)
  \/ label \notin {"case4", "case5"} /\ A = {r} /\ Leaf(t, r)
  \/ /\ label \notin {"case4", "case5"}
     /\ \E y \in A, s \in Sides : A = {r, y} /\ Pair(t, r, y, s) /\ Leaf(t, y)
  \/ /\ label \in {"case1", "case4"}
     /\ \E y \in A, s \in Sides, u \in Sides : A = {r, y, n} /\ Chain(t, r, y, n, s, u)
  \/ label = "case5" /\ Doomed(t, r, n)

RootOK(t, A, r, label, n, c) ==
  /\ AllocOK(t, A)
  /\ \A x \in Nodes \ A : t.color[x] = "red"
  /\ label = "descend" => c \in A
  /\ label \in {"case1", "case4", "case5"} => n \in A
  /\ label \in {"case4", "case5"} => t.parent[n] # NIL /\ t.parent[t.parent[n]] # NIL
  /\ A # {} => /\ r \in A /\ Rooted(t, r)
               /\ t.color[r] = "black" \/ (label = "case1" /\ n = r)
  /\ label = "crash" \/ Shape(t, A, r, label, n)

RootInv == RootOK(Unthreaded, Allocated, root, pc, node, curr)

LEMMA UnthreadedIs ==
  ASSUME TypeInv
  PROVE  TreeOK(Unthreaded) /\ (pc \notin {"print", "seek"} => Unthreaded = tree)
<1>1. TreeOK(tree) /\ before \in [Sides -> Link]
  BY TypeOKParts DEF TypeInv
<1>2. QED
  BY <1>1 DEF TreeOK, Unthreaded

LEMMA UnthreadedNext ==
  ASSUME TypeInv', pc' \notin {"print", "seek"}
  PROVE  Unthreaded' = tree'
<1>1. TreeOK(tree')
  BY TypeOKPartsNext DEF TypeInv
<1>2. QED
  BY <1>1 DEF TreeOK, Unthreaded

\* Which shape a tree has does not depend on the label between the cases.
LEMMA ShapeQuiet ==
  ASSUME NEW t, NEW A, NEW r, NEW l1, NEW l2, NEW n, NEW n2,
         Shape(t, A, r, l1, n), l1 \notin {"case1", "case4", "case5"},
         l2 \notin {"case4", "case5"}
  PROVE  Shape(t, A, r, l2, n2)
BY DEF Shape

\* Step t to t2 rotates x, another node than the root r.
Turns(t, t2, A, side, dir, x, r) ==
  /\ side \in Sides /\ dir \in Sides /\ x \in A /\ r \in A /\ x # r
  /\ TreeOK(t) /\ AllocOK(t, A) /\ A \subseteq Nodes /\ NIL \notin A /\ Rooted(t, r)
  /\ t.parent[x] # NIL /\ t.child[Other(dir)][x] # NIL
  /\ t2 = Rotate(t, side, dir, x)

LEMMA RotatedRoot ==
  ASSUME NEW t, NEW t2, NEW A, NEW side, NEW dir, NEW x, NEW r,
         Turns(t, t2, A, side, dir, x, r)
  PROVE  /\ t2.color = t.color /\ AllocOK(t2, A) /\ Rooted(t2, r)
         /\ Wide(t, r) => Wide(t2, r)
         /\ t2.child[dir][t.child[Other(dir)][x]] = x
         /\ \A y \in Nodes : t2.parent[y] =
              IF y = x THEN t.child[Other(dir)][x]
              ELSE IF y = t.child[Other(dir)][x] THEN t.parent[x] ELSE t.parent[y]
<1> DEFINE c == t.child[Other(dir)][x]
           q == t.parent[x]
           up == [t.child EXCEPT ![side][q] = c]
           down == [up EXCEPT ![Other(dir)][x] = up[dir][c]]
           child == [down EXCEPT ![dir][c] = x]
           parents == [t.parent EXCEPT ![c] = q, ![x] = c]
<1>0. /\ side \in Sides /\ dir \in Sides /\ x \in A /\ r \in A /\ x # r
      /\ TreeOK(t) /\ AllocOK(t, A) /\ A \subseteq Nodes /\ NIL \notin A /\ Rooted(t, r)
      /\ t.parent[x] # NIL /\ t.child[Other(dir)][x] # NIL
      /\ t2 = Rotate(t, side, dir, x)
  BY DEF Turns
<1> USE <1>0
<1>1. /\ Other(dir) \in Sides /\ Other(dir) # dir
      /\ x \in Nodes /\ r \in Nodes /\ x # NIL
  BY DEF Other, Sides
<1>2. t.child \in [Sides -> Link] /\ t.parent \in Link
  BY DEF TreeOK
<1>3. /\ \A y \in Nodes : t.parent[y] \in A \cup {NIL}
      /\ \A y \in Nodes, s \in Sides : t.child[s][y] \in A \cup {NIL}
      /\ \A y \in Nodes \ A : t.parent[y] = NIL /\ \A s \in Sides : t.child[s][y] = NIL
  BY DEF AllocOK
<1>4. c \in A /\ q \in A /\ c \in Nodes /\ q \in Nodes /\ c # NIL /\ c # r
  BY <1>1, <1>3 DEF Rooted
<1>5. t2 = [t EXCEPT !.child = child, !.parent = parents]
  BY <1>1, <1>4 DEF Rotate, Other
<1> HIDE DEF c, q
<1>6. t2.color = t.color /\ t2.parent = parents /\ t2.child = child
  <2> HIDE DEF child, parents
  <2>1. QED
    BY <1>5 DEF TreeOK
<1>7. \A y \in Nodes : t2.parent[y] = IF y = x THEN c ELSE IF y = c THEN q ELSE t.parent[y]
  BY <1>1, <1>2, <1>4, <1>6 DEF Link
<1>8. /\ up \in [Sides -> Link]
      /\ \A y \in Nodes, s \in Sides :
           up[s][y] = IF s = side /\ y = q THEN c ELSE t.child[s][y]
  BY <1>1, <1>2, <1>4 DEF Link
<1> HIDE DEF up
<1>9. /\ down \in [Sides -> Link]
      /\ \A y \in Nodes, s \in Sides :
           down[s][y] = IF s = Other(dir) /\ y = x THEN up[dir][c] ELSE up[s][y]
  <2>1. up[dir][c] \in Nodes \cup {NIL}
    BY <1>1, <1>4, <1>8 DEF Link
  <2>2. QED
    BY <1>1, <1>4, <1>8, <2>1 DEF Link
<1> HIDE DEF down
<1>10. \A y \in Nodes, s \in Sides :
         child[s][y] = IF s = dir /\ y = c THEN x ELSE down[s][y]
  BY <1>1, <1>4, <1>9 DEF Link
<1> HIDE DEF child, parents
<1>11. AllocOK(t2, A)
  <2>1. \A y \in Nodes : t2.parent[y] \in A \cup {NIL}
    BY <1>1, <1>3, <1>4, <1>7
  <2>2. \A y \in Nodes, s \in Sides : up[s][y] \in A \cup {NIL}
    BY <1>1, <1>3, <1>4, <1>8
  <2>3. \A y \in Nodes, s \in Sides : down[s][y] \in A \cup {NIL}
    BY <1>1, <1>4, <1>9, <2>2
  <2>4. \A y \in Nodes, s \in Sides : child[s][y] \in A \cup {NIL}
    BY <1>1, <1>10, <2>3
  <2>5. ASSUME NEW y \in Nodes \ A
        PROVE  t2.parent[y] = NIL /\ \A s \in Sides : child[s][y] = NIL
    <3>1. t2.parent[y] = NIL
      BY <1>1, <1>3, <1>4, <1>7
    <3>2. ASSUME NEW s \in Sides PROVE child[s][y] = NIL
      BY <1>1, <1>3, <1>4, <1>8, <1>9, <1>10
    <3>3. QED
      BY <3>1, <3>2
  <2>6. QED
    BY <1>6, <2>1, <2>4, <2>5 DEF AllocOK
<1>12. Rooted(t2, r)
  <2>1. t2.parent[r] = NIL
    BY <1>1, <1>4, <1>7 DEF Rooted
  <2>2. \A y \in Nodes, s \in Sides : up[s][y] # r
    BY <1>4, <1>8 DEF Rooted
  <2>3. \A y \in Nodes, s \in Sides : down[s][y] # r
    BY <1>4, <1>9, <2>2
  <2>4. \A y \in Nodes, s \in Sides : child[s][y] # r
    BY <1>10, <2>3
  <2>5. QED
    BY <1>6, <2>1, <2>4 DEF Rooted
<1>13. ASSUME Wide(t, r) PROVE Wide(t2, r)
  BY <1>1, <1>4, <1>6, <1>8, <1>9, <1>10, <1>13 DEF Wide
<1>14. t2.child[dir][c] = x
  BY <1>4, <1>6, <1>10
<1>15. QED
  BY <1>6, <1>7, <1>11, <1>12, <1>13, <1>14 DEF c, q

\* The steps of the traversal, and those between calls.
LEMMA RootQuiet ==
  ASSUME TypeInv, RootInv, UNCHANGED <<root, keys>>, Unthreaded' = Unthreaded,
         pc \notin {"case1", "case4", "case5", "crash"},
         pc' \notin {"case1", "case4", "case5"}, pc' = "descend" => curr' \in Allocated
  PROVE  RootInv'
<1>1. Allocated' = Allocated
  BY DEF Allocated
<1>2. Shape(Unthreaded, Allocated, root, pc', node')
  BY ShapeQuiet DEF RootInv, RootOK
<1>3. RootOK(Unthreaded, Allocated, root, pc', node', curr')
  <2> HIDE DEF Unthreaded
  <2>1. QED
    BY <1>2 DEF RootInv, RootOK
<1>4. QED
  BY <1>1, <1>3 DEF RootInv

LEMMA RootPrint ==
  ASSUME TypeInv, RootInv, TraversalsRestore, PrintEnter \/ PrintNode \/ Seek \/ rb_tree_destroy
  PROVE  RootInv'
<1>1. /\ UNCHANGED <<root, keys>>
      /\ pc \in {"idle", "print", "seek"} /\ pc' \in {"idle", "print", "seek", "destroyed"}
  BY DEF PrintEnter, PrintNode, Seek, rb_tree_destroy
<1>2. Unthreaded' = Unthreaded
  <2>1. CASE PrintEnter
    BY <2>1 DEF PrintEnter, Unthreaded
  <2>2. CASE PrintNode
    BY <2>2 DEF PrintNode, Unthreaded, TraversalsRestore
  <2>3. CASE Seek
    <3>1. TreeOK(tree)
      BY TypeOKParts DEF TypeInv
    <3>2. tree'.parent = tree.parent /\ tree'.color = tree.color
      BY <2>3, <3>1 DEF Seek, Thread, Unthread, TreeOK
    <3>3. pc = "seek" /\ pc' \in {"print", "seek"} /\ before' = before
      BY <2>3 DEF Seek
    <3>4. QED
      BY <3>2, <3>3 DEF Unthreaded
  <2>4. CASE rb_tree_destroy
    BY <2>4 DEF rb_tree_destroy, Unthreaded
  <2>5. QED
    BY <2>1, <2>2, <2>3, <2>4
<1>3. QED
  BY <1>1, <1>2, RootQuiet

LEMMA RootInsert ==
  ASSUME TypeInv, TypeInv', RootInv, NEW k \in Keys, InsertEnter(k)
  PROVE  RootInv'
<1>1. pc = "idle" /\ tree' = tree /\ Unthreaded = tree
  BY UnthreadedIs DEF InsertEnter
<1>2. CASE root # NIL
  <2>1. UNCHANGED <<root, keys>> /\ curr' = root /\ pc' = "descend"
    BY <1>2 DEF InsertEnter
  <2>2. Unthreaded' = Unthreaded
    BY <1>1, <2>1, UnthreadedNext
  <2>3. root \in Allocated
    <3>1. keys # <<>> /\ Len(keys) \in Nat /\ keys \in Seq(Keys)
      BY <1>2, AllocFacts, TypeOKParts DEF TypeInv
    <3>2. Len(keys) # 0
      BY <3>1
    <3>3. 1 \in Allocated
      BY <3>1, <3>2 DEF Allocated
    <3>4. QED
      BY <3>3 DEF RootInv, RootOK
  <2>4. QED
    BY <1>1, <2>1, <2>2, <2>3, RootQuiet
<1>3. CASE root = NIL
  <2> DEFINE n == Len(keys) + 1
  <2>1. keys' = Append(keys, k) /\ root' = Len(keys') /\ node' = root' /\ pc' = "case1"
        /\ Len(keys) < MaxNodes
    BY <1>3 DEF InsertEnter
  <2>2. Allocated = {} /\ Allocated' = Allocated \cup {n} /\ n \in Nodes /\ n # NIL
    BY <1>3, <2>1, AllocFacts, AllocGrow DEF Allocated
  <2>3. root' = n /\ node' = n
    BY <2>1, KeysGrow
  <2>4. AllocOK(tree, {}) /\ \A x \in Nodes : tree.color[x] = "red"
    BY <1>1, <2>2 DEF RootInv, RootOK
  <2>5. \A x \in Nodes : tree.parent[x] = NIL /\ \A s \in Sides : tree.child[s][x] = NIL
    BY <2>4 DEF AllocOK
  <2>6. Unthreaded' = tree
    BY <1>1, <2>1, UnthreadedNext
  <2> HIDE DEF n
  <2>7. Shape(tree, {n}, n, "case1", n)
    BY <2>2, <2>5 DEF Shape, Leaf
  <2>8. AllocOK(tree, {n})
    BY <2>5 DEF AllocOK
  <2>9. Rooted(tree, n)
    BY <2>2, <2>5 DEF Rooted
  <2>10. RootOK(tree, {n}, n, "case1", n, curr')
    BY <2>4, <2>7, <2>8, <2>9 DEF RootOK
  <2>11. QED
    BY <2>1, <2>2, <2>3, <2>6, <2>10 DEF RootInv
<1>4. QED
  BY <1>2, <1>3

LEMMA RootDescend ==
  ASSUME TypeInv, TypeInv', RootInv, Descend
  PROVE  RootInv'
<1> DEFINE side == Turn(arg, keys[curr])
           n == Len(keys) + 1
           A == Allocated
<1>1. pc = "descend" /\ root' = root /\ arg' = arg
  BY DEF Descend
<1>2. /\ Unthreaded = tree /\ TreeOK(tree) /\ side \in Sides /\ Len(keys) < MaxNodes /\ arg \in Keys
      /\ root # NIL /\ A \subseteq Nodes /\ NIL \notin A
  BY <1>1, UnthreadedIs, AllocFacts, TypeOKParts DEF TypeInv, LabelInv, Turn, Sides
<1>3. /\ AllocOK(tree, A) /\ (\A x \in Nodes \ A : tree.color[x] = "red")
      /\ curr \in A /\ root \in A /\ Rooted(tree, root) /\ tree.color[root] = "black"
      /\ Shape(tree, A, root, "descend", node)
  BY <1>1, <1>2 DEF RootInv, RootOK
<1>4. CASE tree.child[side][curr] # NIL
  <2>1. curr' = tree.child[side][curr] /\ UNCHANGED <<tree, keys, node, pc, root>>
    BY <1>4 DEF Descend
  <2>2. curr' \in A
    BY <1>2, <1>3, <1>4, <2>1 DEF AllocOK
  <2>3. Unthreaded' = Unthreaded
    BY <1>1, <1>2, <2>1, UnthreadedNext
  <2>4. QED
    BY <1>1, <2>1, <2>2, <2>3, RootQuiet
<1>5. CASE tree.child[side][curr] = NIL
  <2>1. /\ keys' = Append(keys, arg) /\ node' = n /\ pc' = "case1"
        /\ tree' = [tree EXCEPT !.child[side][curr] = n, !.parent[n] = curr]
    BY <1>5 DEF Descend
  <2>2. Allocated' = A \cup {n} /\ n \in Nodes /\ n \notin A /\ n # NIL
    BY <1>2, <2>1, AllocGrow DEF Allocated
  <2>3. Unthreaded' = tree'
    BY <2>1, UnthreadedNext
  <2> HIDE DEF n, side, A
  <2>4. Grown(tree, tree', A, curr, side, n)
    BY <1>2, <1>3, <1>5, <2>1, <2>2 DEF Grown
  <2>5. /\ tree'.color = tree.color
        /\ \A x \in Nodes : tree'.parent[x] = IF x = n THEN curr ELSE tree.parent[x]
        /\ \A x \in Nodes, s \in Sides :
             tree'.child[s][x] = IF s = side /\ x = curr THEN n ELSE tree.child[s][x]
    BY <2>4, GrownFields
  <2>6. AllocOK(tree', A \cup {n})
    <3>1. /\ \A x \in Nodes : tree.parent[x] \in A \cup {NIL}
          /\ \A x \in Nodes, s \in Sides : tree.child[s][x] \in A \cup {NIL}
          /\ \A x \in Nodes \ A : tree.parent[x] = NIL /\ \A s \in Sides : tree.child[s][x] = NIL
      BY <1>3 DEF AllocOK
    <3>2. \A x \in Nodes : tree'.parent[x] \in (A \cup {n}) \cup {NIL}
      BY <1>3, <2>5, <3>1
    <3>3. \A x \in Nodes, s \in Sides : tree'.child[s][x] \in (A \cup {n}) \cup {NIL}
      BY <2>5, <3>1
    <3>4. \A x \in Nodes \ (A \cup {n}) :
            tree'.parent[x] = NIL /\ \A s \in Sides : tree'.child[s][x] = NIL
      BY <1>3, <2>5, <3>1
    <3>5. QED
      BY <3>2, <3>3, <3>4 DEF AllocOK
  <2>7. Rooted(tree', root)
    BY <1>2, <1>3, <2>2, <2>5 DEF Rooted
  <2>8. tree'.color[n] = "red" /\ Leaf(tree', n) /\ tree'.parent[n] = curr
    <3>1. \A s \in Sides : tree.child[s][n] = NIL
      BY <1>3, <2>2 DEF AllocOK
    <3>2. curr # n
      BY <1>3, <2>2
    <3>3. QED
      BY <1>3, <2>2, <2>5, <3>1, <3>2 DEF Leaf
  <2>9. side \in Sides /\ Other(side) \in Sides /\ Other(side) # side
        /\ \A s \in Sides : s = side \/ s = Other(side)
    BY <1>2 DEF Other, Sides, side
  <2>10. Shape(tree', A \cup {n}, root, "case1", n)
    <3>1. CASE Wide(tree, root)
      <4>1. Wide(tree', root)
        BY <1>2, <1>3, <2>2, <2>5, <3>1 DEF Wide
      <4>2. QED
        BY <4>1 DEF Shape
    <3>2. CASE A = {root} /\ Leaf(tree, root)
      <4>1. curr = root
        BY <1>3, <3>2
      <4>2. tree'.child[side][root] = n /\ tree'.child[Other(side)][root] = NIL
        BY <1>2, <1>3, <2>5, <2>9, <3>2, <4>1 DEF Leaf
      <4>3. n # root
        BY <1>3, <2>2
      <4>4. Pair(tree', root, n, side) /\ A \cup {n} = {root, n}
        BY <2>8, <3>2, <4>1, <4>2, <4>3 DEF Pair
      <4>5. QED
        BY <2>8, <2>9, <4>4 DEF Shape
    <3>3. CASE \E y \in A, s \in Sides : A = {root, y} /\ Pair(tree, root, y, s) /\ Leaf(tree, y)
      <4>1. PICK y \in A, s \in Sides : A = {root, y} /\ Pair(tree, root, y, s) /\ Leaf(tree, y)
        BY <3>3
      <4>2. /\ tree.child[s][root] = y /\ tree.child[Other(s)][root] = NIL /\ y # root
            /\ tree.parent[y] = root /\ tree.color[y] = "red" /\ y \in Nodes /\ root \in Nodes
            /\ n # root /\ n # y
        BY <1>2, <1>3, <2>2, <4>1 DEF Pair
      <4>3. Other(s) \in Sides /\ \A q \in Sides : q = s \/ q = Other(s)
        BY <4>1 DEF Other, Sides
      <4>4. CASE curr = root
        <5>1. side # s
          BY <1>2, <1>5, <4>2, <4>4 DEF side
        <5>2. tree'.child[s][root] = y /\ tree'.child[Other(s)][root] = n
          BY <2>5, <2>9, <4>2, <4>3, <4>4, <5>1
        <5>3. Wide(tree', root)
          BY <1>2, <2>2, <4>1, <4>2, <4>3, <5>2 DEF Wide
        <5>4. QED
          BY <5>3 DEF Shape
      <4>5. CASE curr = y
        <5>1. tree'.child[s][root] = y /\ tree'.child[Other(s)][root] = NIL
          BY <2>5, <4>2, <4>3, <4>5
        <5>2. tree'.parent[y] = root /\ tree'.color[y] = "red"
          BY <2>5, <4>2
        <5>3. tree'.child[side][y] = n /\ tree'.child[Other(side)][y] = NIL
          BY <2>5, <2>9, <4>1, <4>2, <4>5 DEF Leaf
        <5>4. Chain(tree', root, y, n, s, side)
          BY <2>8, <4>2, <4>5, <5>1, <5>2, <5>3 DEF Chain, Pair
        <5>5. A \cup {n} = {root, y, n}
          BY <4>1
        <5>6. QED
          BY <2>9, <5>4, <5>5 DEF Shape
      <4>6. QED
        BY <1>3, <4>1, <4>4, <4>5
    <3>4. QED
      BY <1>3, <3>1, <3>2, <3>3 DEF Shape
  <2>11. \A x \in Nodes \ (A \cup {n}) : tree'.color[x] = "red"
    BY <1>3, <2>5
  <2>12. RootOK(tree', A \cup {n}, root, "case1", n, curr')
    BY <1>3, <2>5, <2>6, <2>7, <2>10, <2>11 DEF RootOK
  <2>13. QED
    BY <1>1, <2>1, <2>2, <2>3, <2>12 DEF RootInv
<1>6. QED
  BY <1>4, <1>5

\* The facts with which an insertion case begins.
LEMMA CaseBegins ==
  ASSUME TypeInv, RootInv, pc \in {"case1", "case4", "case5"}
  PROVE  /\ TreeOK(tree) /\ Allocated \subseteq Nodes /\ NIL \notin Allocated
         /\ AllocOK(tree, Allocated) /\ (\A x \in Nodes \ Allocated : tree.color[x] = "red")
         /\ node \in Allocated /\ root \in Allocated /\ Rooted(tree, root)
         /\ tree.color[root] = "black" \/ (pc = "case1" /\ node = root)
         /\ pc # "case1" => tree.parent[node] # NIL /\ tree.parent[tree.parent[node]] # NIL
         /\ Shape(tree, Allocated, root, pc, node)
         /\ tree.parent[node] \in Allocated \cup {NIL}
         /\ tree.parent[node] # NIL => tree.parent[tree.parent[node]] \in Allocated \cup {NIL}
<1>1. Unthreaded = tree /\ TreeOK(tree) /\ Allocated \subseteq Nodes /\ NIL \notin Allocated
  BY UnthreadedIs, AllocFacts, TypeOKParts DEF TypeInv
<1>2. RootOK(tree, Allocated, root, pc, node, curr)
  BY <1>1 DEF RootInv
<1>3. AllocOK(tree, Allocated) /\ node \in Allocated
  BY <1>2 DEF RootOK
<1>4. tree.parent[node] \in Allocated \cup {NIL}
      /\ (tree.parent[node] # NIL => tree.parent[tree.parent[node]] \in Allocated \cup {NIL})
  BY <1>1, <1>3 DEF AllocOK
<1>5. QED
  BY <1>1, <1>2, <1>3, <1>4 DEF RootOK

\* What is below the root only has the black root above it.
LEMMA ShapeOfCase1 ==
  ASSUME TypeInv, RootInv, pc = "case1", parent(node) # NIL
  PROVE  /\ node # root /\ tree.color[root] = "black"
         /\ \/ Wide(tree, root)
            \/ \E y \in Allocated, s \in Sides :
                 /\ Allocated = {root, y} /\ Pair(tree, root, y, s) /\ Leaf(tree, y)
                 /\ parent(node) = root
            \/ \E y \in Allocated, s \in Sides, u \in Sides :
                 Allocated = {root, y, node} /\ Chain(tree, root, y, node, s, u)
<1>1. /\ node \in Allocated /\ root \in Allocated /\ Rooted(tree, root)
      /\ tree.color[root] = "black" \/ node = root
      /\ Shape(tree, Allocated, root, "case1", node)
  BY CaseBegins
<1>2. node # root
  BY <1>1 DEF Rooted, parent
<1>3. ASSUME NEW y \in Allocated, NEW s \in Sides, Allocated = {root, y}, Pair(tree, root, y, s)
      PROVE  parent(node) = root
  BY <1>1, <1>2, <1>3 DEF Pair, parent
<1>4. QED
  BY <1>1, <1>2, <1>3 DEF Shape

LEMMA RootCase12 ==
  ASSUME TypeInv, TypeInv', RootInv, Case1 \/ Case2
  PROVE  RootInv'
<1> DEFINE A == Allocated
<1>1. pc = "case1" /\ pc' = "idle" /\ UNCHANGED <<root, keys, node, curr>> /\ Allocated' = A
  BY DEF Case1, Case2, Allocated
<1>2. /\ TreeOK(tree) /\ A \subseteq Nodes /\ NIL \notin A
      /\ AllocOK(tree, A) /\ (\A x \in Nodes \ A : tree.color[x] = "red")
      /\ node \in A /\ root \in A /\ Rooted(tree, root)
      /\ tree.color[root] = "black" \/ node = root
      /\ Shape(tree, A, root, "case1", node)
  BY <1>1, CaseBegins
<1>3. Unthreaded' = tree'
  BY <1>1, UnthreadedNext
<1> HIDE DEF A
<1>4. /\ tree'.child = tree.child /\ tree'.parent = tree.parent
      /\ \A x \in Nodes \ {node} : tree'.color[x] = tree.color[x]
      /\ tree'.color[root] = "black"
  <2>1. CASE Case1
    <3>1. tree' = [tree EXCEPT !.color = Paint("black", {node})]
      BY <2>1 DEF Case1
    <3>2. tree'.child = tree.child /\ tree'.parent = tree.parent /\ tree'.color = Paint("black", {node})
      BY <1>2, <3>1 DEF TreeOK
    <3>3. QED
      BY <1>2, <3>2 DEF Paint
  <2>2. CASE Case2
    <3>1. tree' = tree /\ parent(node) # NIL
      BY <2>2 DEF Case2
    <3>2. QED
      BY <1>1, <1>2, <3>1, ShapeOfCase1
  <2>3. QED
    BY <2>1, <2>2
<1>5. AllocOK(tree', A) /\ Rooted(tree', root) /\ \A x \in Nodes \ A : tree'.color[x] = "red"
  BY <1>2, <1>4 DEF AllocOK, Rooted
<1>6. Shape(tree', A, root, "idle", node)
  <2>1. CASE Wide(tree, root)
    BY <1>4, <2>1 DEF Wide, Shape
  <2>2. CASE A = {root} /\ Leaf(tree, root)
    BY <1>4, <2>2 DEF Leaf, Shape
  <2>3. CASE \E y \in A, s \in Sides : A = {root, y} /\ Pair(tree, root, y, s) /\ Leaf(tree, y)
    <3>1. PICK y \in A, s \in Sides : A = {root, y} /\ Pair(tree, root, y, s) /\ Leaf(tree, y)
      BY <2>3
    <3>2. tree'.color[y] = "red"
      <4>1. CASE Case1
        <5>1. node # y
          BY <1>2, <3>1, <4>1 DEF Case1, Pair, parent
        <5>2. QED
          BY <1>2, <1>4, <3>1, <5>1 DEF Pair
      <4>2. CASE Case2
        BY <3>1, <4>2 DEF Case2, Pair
      <4>3. QED
        BY <4>1, <4>2
    <3>3. Pair(tree', root, y, s) /\ Leaf(tree', y)
      BY <1>4, <3>1, <3>2 DEF Pair, Leaf
    <3>4. QED
      BY <3>1, <3>3 DEF Shape
  <2>4. ASSUME NEW y \in A, NEW s \in Sides, NEW u \in Sides, Chain(tree, root, y, node, s, u)
        PROVE  FALSE
    <3>1. tree.parent[node] = y /\ y # NIL /\ tree.color[y] = "red"
      BY <1>2, <2>4 DEF Chain, Pair
    <3>2. QED
      BY <3>1 DEF Case1, Case2, parent
  <2>5. QED
    BY <1>2, <2>1, <2>2, <2>3, <2>4 DEF Shape
<1>7. RootOK(tree', A, root, "idle", node, curr)
  BY <1>2, <1>4, <1>5, <1>6 DEF RootOK
<1>8. QED
  BY <1>1, <1>3, <1>7 DEF RootInv

LEMMA RootCase3 ==
  ASSUME TypeInv, TypeInv', RootInv, Case3
  PROVE  RootInv'
<1> DEFINE A == Allocated
           p == parent(node)
           g == grandparent(node)
<1>1. /\ pc = "case1" /\ p # NIL /\ tree.color[p] = "red"
      /\ UNCHANGED <<root, keys, curr>> /\ Allocated' = A
  BY DEF Case3, Allocated
<1>2. /\ TreeOK(tree) /\ A \subseteq Nodes /\ NIL \notin A
      /\ AllocOK(tree, A) /\ (\A x \in Nodes \ A : tree.color[x] = "red")
      /\ node \in A /\ root \in A /\ Rooted(tree, root)
      /\ p \in A \cup {NIL} /\ tree.parent[p] \in A \cup {NIL}
  BY <1>1, CaseBegins DEF parent
<1>3. g = tree.parent[p]
  BY <1>1 DEF grandparent, parent
<1>4. /\ node # root /\ tree.color[root] = "black"
      /\ \/ Wide(tree, root)
         \/ p = root
         \/ \E y \in A, s \in Sides, u \in Sides :
              A = {root, y, node} /\ Chain(tree, root, y, node, s, u)
  BY <1>1, ShapeOfCase1
<1>5. p # root
  BY <1>1, <1>4
<1>6. pc' \in {"case1", "case4", "crash"}
  BY <1>1 DEF Case3
<1>7. Unthreaded' = tree'
  BY <1>6, UnthreadedNext
<1>8. ASSUME NEW y \in A, NEW s \in Sides, NEW u \in Sides, Chain(tree, root, y, node, s, u)
      PROVE  ~RedUncle
  <2>1. p = y /\ g = root /\ y # NIL /\ root # NIL
    BY <1>2, <1>3, <1>8 DEF Chain, Pair, parent
  <2>2. tree.child[s][root] = y /\ tree.child[Other(s)][root] = NIL
    BY <1>8 DEF Chain, Pair
  <2>3. uncle(node) = IF y = left(root) THEN right(root) ELSE left(root)
    BY <2>1 DEF uncle
  <2>4. uncle(node) = NIL
    <3>1. CASE s = "left"
      BY <2>2, <2>3, <3>1 DEF left, right, Other
    <3>2. CASE s = "right"
      <4>1. left(root) = NIL
        BY <2>2, <3>2 DEF left, Other
      <4>2. QED
        BY <2>1, <2>3, <4>1
    <3>3. QED
      BY <3>1, <3>2 DEF Sides
  <2>5. QED
    BY <2>4 DEF RedUncle
<1>9. CASE RedUncle
  <2>1. Wide(tree, root) /\ g # NIL
    <3>1. g # NIL
      BY <1>9 DEF RedUncle, uncle
    <3>2. QED
      BY <1>4, <1>5, <1>8, <1>9, <3>1
  <2>2. /\ tree' = [tree EXCEPT !.color = [Paint("black", {p, uncle(node)}) EXCEPT ![g] = "red"]]
        /\ node' = g /\ pc' = "case1"
    BY <1>1, <1>9 DEF Case3
  <2>3. uncle(node) \in A
    <3>1. uncle(node) # NIL /\ uncle(node) \in {left(g), right(g)}
      BY <1>9, <2>1 DEF RedUncle, uncle
    <3>2. g \in Nodes
      BY <1>2, <1>3, <2>1
    <3>3. QED
      BY <1>2, <3>1, <3>2 DEF AllocOK, left, right, Sides
  <2> HIDE DEF p, g, A
  <2>4. /\ tree'.child = tree.child /\ tree'.parent = tree.parent
        /\ tree'.color = [Paint("black", {p, uncle(node)}) EXCEPT ![g] = "red"]
    BY <1>2, <2>2 DEF TreeOK
  <2>5. \A x \in Nodes : tree'.color[x] = IF x = g THEN "red"
                          ELSE IF x \in {p, uncle(node)} THEN "black" ELSE tree.color[x]
    BY <2>4 DEF Paint
  <2>6. p \in A /\ g \in A
    BY <1>1, <1>2, <1>3, <2>1
  <2>7. \A x \in Nodes \ A : tree'.color[x] = "red"
    BY <1>2, <2>3, <2>5, <2>6
  <2>8. tree'.color[root] = "black" \/ g = root
    BY <1>2, <1>4, <2>5
  <2>9. AllocOK(tree', A) /\ Rooted(tree', root)
    BY <1>2, <2>4 DEF AllocOK, Rooted
  <2>10. Wide(tree', root)
    BY <2>1, <2>4 DEF Wide
  <2>11. RootOK(tree', A, root, "case1", g, curr)
    BY <1>2, <2>6, <2>7, <2>8, <2>9, <2>10 DEF RootOK, Shape
  <2>12. QED
    BY <1>1, <1>7, <2>2, <2>11 DEF RootInv
<1>10. CASE ~RedUncle
  <2>1. UNCHANGED <<tree, node>> /\ pc' = IF g = NIL THEN "crash" ELSE "case4"
    BY <1>10 DEF Case3
  <2>2. Wide(tree, root) => Shape(tree, A, root, "case4", node)
    BY DEF Shape
  <2>3. (\E y \in A, s \in Sides, u \in Sides :
           A = {root, y, node} /\ Chain(tree, root, y, node, s, u))
          => Shape(tree, A, root, "case4", node)
    BY DEF Shape
  <2>4. Shape(tree, A, root, "case4", node)
    BY <1>4, <1>5, <2>2, <2>3
  <2>5. g # NIL => tree.parent[node] # NIL /\ tree.parent[tree.parent[node]] # NIL
    BY <1>1, <1>3 DEF parent
  <2> HIDE DEF A, g
  <2>6. RootOK(tree, A, root, pc', node, curr)
    BY <1>2, <1>4, <2>1, <2>4, <2>5 DEF RootOK
  <2>7. QED
    BY <1>1, <1>7, <2>1, <2>6 DEF RootInv
<1>11. QED
  BY <1>9, <1>10

LEMMA RootCase4 ==
  ASSUME TypeInv, TypeInv', RootInv, Case4
  PROVE  RootInv'
<1> DEFINE A == Allocated
           p == parent(node)
           g == grandparent(node)
<1>1. pc = "case4" /\ UNCHANGED <<root, keys, curr>> /\ Allocated' = A
      /\ pc' = IF node' = NIL THEN "idle" ELSE "case5"
  BY DEF Case4, Allocated
<1>2. /\ TreeOK(tree) /\ A \subseteq Nodes /\ NIL \notin A
      /\ AllocOK(tree, A) /\ (\A x \in Nodes \ A : tree.color[x] = "red")
      /\ node \in A /\ root \in A /\ Rooted(tree, root) /\ tree.color[root] = "black"
      /\ Shape(tree, A, root, "case4", node)
      /\ p \in A /\ tree.parent[p] \in A
  BY <1>1, CaseBegins DEF parent
<1>3. g = tree.parent[p] /\ node # NIL /\ p # NIL /\ g # NIL
  BY <1>2 DEF grandparent, parent
<1>4. p # root
  BY <1>2, <1>3 DEF Rooted
<1>5. Wide(tree, root) \/ \E y \in A, s \in Sides, u \in Sides :
                            A = {root, y, node} /\ Chain(tree, root, y, node, s, u)
  BY <1>2 DEF Shape
<1>6. pc' \notin {"print", "seek"} /\ Unthreaded' = tree'
  BY <1>1, UnthreadedNext
<1>7. ASSUME NEW dir \in Sides, tree' = Rotate(tree, dir, dir, p), node' = tree'.child[dir][node],
             tree.child[Other(dir)][p] = node, tree.child[dir][g] = p
      PROVE  RootInv'
  <2>1. /\ tree'.color = tree.color /\ AllocOK(tree', A) /\ Rooted(tree', root)
        /\ Wide(tree, root) => Wide(tree', root)
        /\ tree'.child[dir][node] = p
        /\ \A y \in Nodes : tree'.parent[y] =
             IF y = p THEN node ELSE IF y = node THEN g ELSE tree.parent[y]
    <3> HIDE DEF p, g, A
    <3>1. tree.child[Other(dir)][p] # NIL /\ tree.parent[p] # NIL
      BY <1>3, <1>7
    <3>2. /\ tree'.color = tree.color /\ AllocOK(tree', A) /\ Rooted(tree', root)
          /\ Wide(tree, root) => Wide(tree', root)
          /\ tree'.child[dir][tree.child[Other(dir)][p]] = p
          /\ \A y \in Nodes : tree'.parent[y] =
               IF y = p THEN tree.child[Other(dir)][p]
               ELSE IF y = tree.child[Other(dir)][p] THEN tree.parent[p] ELSE tree.parent[y]
      <4>1. /\ TreeOK(tree) /\ AllocOK(tree, A) /\ A \subseteq Nodes /\ NIL \notin A
            /\ Rooted(tree, root) /\ p # root /\ p \in A /\ root \in A
        BY <1>2, <1>4
      <4>2. tree' = Rotate(tree, dir, dir, p)
        BY <1>7
      <4>3. Turns(tree, tree', A, dir, dir, p, root)
        BY <3>1, <4>1, <4>2 DEF Turns
      <4>4. QED
        BY <4>3, RotatedRoot
    <3>3. QED
      BY <1>3, <1>7, <3>2
  <2> HIDE DEF p, g, A
  <2>2. node' = p /\ pc' = "case5"
    BY <1>1, <1>3, <1>7, <2>1
  <2>3. tree'.parent[p] = node /\ tree'.parent[node] # NIL
    BY <1>2, <1>3, <2>1
  <2>4. Shape(tree', A, root, "case5", p)
    <3>1. CASE Wide(tree, root)
      BY <2>1, <3>1 DEF Shape
    <3>2. ASSUME NEW y \in A, NEW s \in Sides, NEW u \in Sides, Chain(tree, root, y, node, s, u)
          PROVE  Shape(tree', A, root, "case5", p)
      <4>1. p = y /\ g = root /\ y # node /\ node # root /\ Leaf(tree, node) /\ y # root
        BY <1>3, <3>2 DEF Chain, Pair, p, parent
      <4>2. Rotated(tree, tree', A, dir, dir, p, node, g)
        BY <1>2, <1>3, <1>7, <4>1 DEF Rotated, p, parent
      <4>3. /\ tree'.child[dir][g] = node
            /\ tree'.child[Other(dir)][node] = tree.child[Other(dir)][node]
        BY <4>2, RotatedFields
      <4>4. tree'.parent[node] = g
        BY <1>2, <2>1, <4>1
      <4>5. Other(dir) \in Sides /\ tree'.child[Other(dir)][node] = NIL
        BY <1>7, <4>1, <4>3 DEF Leaf, Other, Sides
      <4>6. (IF tree'.child["left"][node] = p THEN "left" ELSE "right") = dir
        <5>1. CASE dir = "left"
          BY <2>1, <5>1
        <5>2. CASE dir = "right"
          BY <1>3, <4>5, <5>2 DEF Other
        <5>3. QED
          BY <5>1, <5>2 DEF Sides
      <4>7. Doomed(tree', root, p)
        BY <1>3, <2>3, <4>1, <4>3, <4>4, <4>6 DEF Doomed
      <4>8. QED
        BY <4>7 DEF Shape
    <3>3. QED
      BY <1>5, <3>1, <3>2
  <2>5. RootOK(tree', A, root, "case5", p, curr)
    BY <1>2, <2>1, <2>3, <2>4 DEF RootOK
  <2>6. QED
    BY <1>1, <1>6, <2>2, <2>5 DEF RootInv
<1>8. CASE UNCHANGED <<tree, node>> /\ ~(right(p) = node /\ p = left(g))
           /\ ~(left(p) = node /\ p = right(g))
  <2> HIDE DEF A
  <2>1. pc' = "case5" /\ node' = node /\ tree' = tree
    BY <1>1, <1>3, <1>8
  <2>2. Shape(tree, A, root, "case5", node)
    <3>1. CASE Wide(tree, root)
      BY <3>1 DEF Shape
    <3>2. ASSUME NEW y \in A, NEW s \in Sides, NEW u \in Sides, Chain(tree, root, y, node, s, u)
          PROVE  Shape(tree, A, root, "case5", node)
      <4>1. /\ p = y /\ g = root /\ tree.child[s][root] = y /\ tree.child[Other(s)][root] = NIL
            /\ tree.child[u][y] = node /\ tree.child[Other(u)][y] = NIL
        BY <1>3, <3>2 DEF Chain, Pair, parent
      <4>2. s = u
        BY <1>8, <4>1 DEF left, right, Sides
      <4>3. (IF tree.child["left"][y] = node THEN "left" ELSE "right") = u
        BY <1>3, <4>1 DEF Sides, Other
      <4>4. Doomed(tree, root, node)
        BY <1>3, <4>1, <4>2, <4>3 DEF Doomed, parent
      <4>5. QED
        BY <4>4 DEF Shape
    <3>3. QED
      BY <1>5, <3>1, <3>2
  <2>3. tree.parent[node] # NIL /\ tree.parent[tree.parent[node]] # NIL
    BY <1>3 DEF parent
  <2>4. RootOK(tree, A, root, "case5", node, curr)
    BY <1>2, <2>2, <2>3 DEF RootOK
  <2>5. QED
    BY <1>1, <1>6, <2>1, <2>4 DEF RootInv
<1>9. QED
  <2>1. CASE right(p) = node /\ p = left(g)
    <3>1. tree' = Rotate(tree, "left", "left", p) /\ node' = tree'.child["left"][node]
      BY <2>1 DEF Case4
    <3>2. tree.child[Other("left")][p] = node /\ tree.child["left"][g] = p
      BY <2>1 DEF right, left, Other
    <3>3. QED
      BY <1>7, <3>1, <3>2 DEF Sides
  <2>2. CASE ~(right(p) = node /\ p = left(g)) /\ left(p) = node /\ p = right(g)
    <3>1. tree' = Rotate(tree, "right", "right", p) /\ node' = tree'.child["right"][node]
      BY <2>2 DEF Case4
    <3>2. tree.child[Other("right")][p] = node /\ tree.child["right"][g] = p
      BY <2>2 DEF right, left, Other
    <3>3. QED
      BY <1>7, <3>1, <3>2 DEF Sides
  <2>3. CASE ~(right(p) = node /\ p = left(g)) /\ ~(left(p) = node /\ p = right(g))
    BY <1>8, <2>3 DEF Case4
  <2>4. QED
    BY <2>1, <2>2, <2>3

LEMMA RootCase5 ==
  ASSUME TypeInv, TypeInv', RootInv, Case5
  PROVE  RootInv'
<1> DEFINE A == Allocated
           p == parent(node)
           g == grandparent(node)
           dir == IF left(p) = node THEN "right" ELSE "left"
           side == IF left(p) = node THEN "left" ELSE "right"
           painted == [tree EXCEPT !.color = [Paint("black", {p}) EXCEPT ![g] = "red"]]
<1>1. /\ pc = "case5" /\ UNCHANGED <<root, keys, curr, node>> /\ Allocated' = A
      /\ IF tree.child[side][g] # NIL /\ parent(g) = NIL
         THEN pc' = "crash" /\ UNCHANGED tree
         ELSE pc' = "idle" /\ tree' = Rotate(painted, side, dir, g)
  BY DEF Case5, Allocated
<1>2. /\ TreeOK(tree) /\ A \subseteq Nodes /\ NIL \notin A
      /\ AllocOK(tree, A) /\ (\A x \in Nodes \ A : tree.color[x] = "red")
      /\ node \in A /\ root \in A /\ Rooted(tree, root) /\ tree.color[root] = "black"
      /\ Shape(tree, A, root, "case5", node)
      /\ p \in A /\ tree.parent[p] \in A
  BY <1>1, CaseBegins DEF parent
<1>3. g = tree.parent[p] /\ p # NIL /\ g # NIL /\ g \in A /\ parent(g) = tree.parent[g]
  BY <1>2 DEF grandparent, parent
<1>4. Unthreaded' = tree'
  BY <1>1, UnthreadedNext
<1>5. side \in Sides /\ dir \in Sides /\ Other(dir) = side
  BY DEF Sides, Other
<1>6. CASE tree.child[side][g] # NIL /\ parent(g) = NIL
  <2>1. pc' = "crash" /\ tree' = tree
    BY <1>1, <1>6
  <2> HIDE DEF A
  <2>2. RootOK(tree, A, root, "crash", node, curr)
    BY <1>2 DEF RootOK
  <2>3. QED
    BY <1>1, <1>4, <2>1, <2>2 DEF RootInv
<1>7. CASE ~(tree.child[side][g] # NIL /\ parent(g) = NIL)
  <2>1. pc' = "idle" /\ tree' = Rotate(painted, side, dir, g)
    BY <1>1, <1>7
  <2>2. Wide(tree, root) /\ g # root
    <3>1. ASSUME Doomed(tree, root, node) PROVE FALSE
      <4>1. g = root /\ tree.child[side][root] # NIL
        BY <1>3, <3>1 DEF Doomed, parent, left
      <4>2. QED
        BY <1>2, <1>3, <1>7, <4>1 DEF Rooted
    <3>2. Wide(tree, root)
      BY <1>2, <3>1 DEF Shape
    <3>3. g # root
      <4>1. g = root => tree.child[side][g] # NIL /\ parent(g) = NIL
        BY <1>2, <1>3, <1>5, <3>2 DEF Wide, Rooted
      <4>2. QED
        BY <1>7, <4>1
    <3>4. QED
      BY <3>2, <3>3
  <2> HIDE DEF A, p, g, side, dir
  <2>3. /\ painted.child = tree.child /\ painted.parent = tree.parent
        /\ painted.color = [Paint("black", {p}) EXCEPT ![g] = "red"]
    BY <1>2 DEF TreeOK
  <2>4. TreeOK(painted)
    <3>1. Paint("black", {p}) \in [Nodes -> Colors]
      BY <1>2, PaintOK DEF Colors
    <3> DEFINE color == [Paint("black", {p}) EXCEPT ![g] = "red"]
    <3>2. color \in [Nodes -> Colors]
      BY <3>1 DEF Colors
    <3>3. painted = [child |-> tree.child, parent |-> tree.parent, color |-> color]
      <4> HIDE DEF color
      <4>1. ASSUME NEW cc PROVE [tree EXCEPT !.color = cc] =
                                  [child |-> tree.child, parent |-> tree.parent, color |-> cc]
        BY <1>2 DEF TreeOK
      <4>2. QED
        BY <4>1 DEF color
    <3> HIDE DEF color, painted
    <3>4. QED
      BY <1>2, <3>2, <3>3 DEF TreeOK
  <2>5. \A x \in Nodes : painted.color[x] = IF x = g THEN "red" ELSE IF x = p THEN "black" ELSE tree.color[x]
    BY <2>3 DEF Paint
  <2> HIDE DEF painted
  <2>6. AllocOK(painted, A) /\ Rooted(painted, root) /\ Wide(painted, root)
    BY <1>2, <2>2, <2>3 DEF AllocOK, Rooted, Wide
  <2>7. painted.color[root] = "black" /\ \A x \in Nodes \ A : painted.color[x] = "red"
    BY <1>2, <1>3, <2>2, <2>5
  <2>8. tree'.color = painted.color /\ AllocOK(tree', A) /\ Rooted(tree', root) /\ Wide(tree', root)
    <3>1. CASE tree.child[side][g] = NIL
      <4>1. tree' = painted
        BY <1>5, <2>1, <2>3, <3>1 DEF Rotate, Other
      <4>2. QED
        BY <2>6, <4>1
    <3>2. CASE tree.child[side][g] # NIL
      <4>1. painted.parent[g] # NIL /\ painted.child[Other(dir)][g] # NIL
        BY <1>3, <1>5, <1>7, <2>3, <3>2
      <4>2. QED
        <5>1. g \in A /\ root \in A /\ A \subseteq Nodes /\ NIL \notin A /\ g # root
          BY <1>2, <1>3, <2>2
        <5>2. tree' = Rotate(painted, side, dir, g) /\ side \in Sides /\ dir \in Sides
          BY <1>5, <2>1
        <5>0. TreeOK(painted) /\ AllocOK(painted, A) /\ Rooted(painted, root)
          BY <2>4, <2>6
        <5>3. Turns(painted, tree', A, side, dir, g, root)
          BY <4>1, <5>0, <5>1, <5>2 DEF Turns
        <5>4. QED
          BY <2>6, <5>3, RotatedRoot
    <3>3. QED
      BY <3>1, <3>2
  <2>9. RootOK(tree', A, root, "idle", node, curr)
    BY <1>2, <2>7, <2>8 DEF RootOK, Shape
  <2>10. QED
    BY <1>1, <1>4, <2>1, <2>9 DEF RootInv
<1>8. QED
  BY <1>6, <1>7

LEMMA RootInvNext ==
  TypeInv /\ TypeInv' /\ TraversalsRestore /\ RootInv /\ [Next]_vars => RootInv'
<1> SUFFICES ASSUME TypeInv, TypeInv', TraversalsRestore, RootInv, [Next]_vars PROVE RootInv'
  OBVIOUS
<1>1. CASE UNCHANGED vars
  <2>1. Allocated' = Allocated /\ Unthreaded' = Unthreaded
    BY <1>1 DEF vars, Allocated, Unthreaded
  <2>2. UNCHANGED <<root, pc, node, curr>>
    BY <1>1 DEF vars
  <2>3. QED
    BY <2>1, <2>2 DEF RootInv
<1>2. CASE Next
  BY <1>2, RootInsert, RootDescend, RootCase12, RootCase3, RootCase4, RootCase5, RootPrint
     DEF Next, Insertion
<1>3. QED
  BY <1>1, <1>2

LEMMA RootInvInit == Init => RootInv
<1> SUFFICES ASSUME Init PROVE RootInv
  OBVIOUS
<1>1. Allocated = {} /\ TypeInv /\ pc = "idle"
  BY TypeInvInit DEF Init, Allocated
<1>2. Unthreaded = tree
  BY <1>1, UnthreadedIs
<1>3. /\ \A x \in Nodes : tree.parent[x] = NIL /\ tree.color[x] = "red"
      /\ \A x \in Nodes, s \in Sides : tree.child[s][x] = NIL
  BY DEF Init
<1>4. RootOK(tree, {}, root, "idle", node, curr)
  BY <1>3 DEF RootOK, AllocOK, Shape
<1>5. QED
  BY <1>1, <1>2, <1>4 DEF RootInv

\* "Root is always black" (rbtree.c:323), whatever insertions do to the links of
\* the tree: after every sequence of calls in which each traversal has taken up the
\* threads that it laid.  A program that never traverses is one case of it, and one
\* that only traverses trees with sound links another (RbTreePrintRestores).
THEOREM RbTreeRootBlack == Spec /\ []TraversalsRestore => []RootBlack
<1>1. TypeInv /\ RootInv => RootBlack
  <2> SUFFICES ASSUME TypeInv, RootInv, pc = "idle", root # NIL
               PROVE  parent(root) = NIL /\ tree.color[root] = "black"
    BY DEF RootBlack
  <2>1. Unthreaded = tree
    BY UnthreadedIs
  <2>2. Allocated # {}
    <3>1. keys # <<>> /\ Len(keys) \in Nat /\ keys \in Seq(Keys)
      BY AllocFacts, TypeOKParts DEF TypeInv
    <3>2. Len(keys) # 0
      BY <3>1
    <3>3. 1 \in Allocated
      BY <3>1, <3>2 DEF Allocated
    <3>4. QED
      BY <3>3
  <2>3. QED
    BY <2>1, <2>2 DEF RootInv, RootOK, Rooted, parent
<1>2. QED
  BY <1>1, TypeInvInit, TypeInvNext, RootInvInit, RootInvNext, PTL DEF Spec

--------------------------------------------------------------------------------
(* Binary trees, by the links l and r to the left and to the right child   *)
(* and par to the parent, on the nodes A with the root rt.                 *)

Binary(l, r, par, A, rt) ==
  /\ NIL \notin A /\ rt \in A /\ par[rt] = NIL
  /\ \A x \in A : l[x] \in A \cup {NIL} /\ r[x] \in A \cup {NIL}
  /\ \A x \in A : l[x] # NIL => par[l[x]] = x /\ l[x] # r[x]
  /\ \A x \in A : r[x] # NIL => par[r[x]] = x
  /\ \A x \in A \ {rt} : par[x] \in A /\ (x = l[par[x]] \/ x = r[par[x]])
  /\ \A S \in SUBSET A : S # {} /\ (\A x \in S : par[x] \in S \cup {NIL}) => rt \in S

\* The subtree of x: the least set with x in it and every node whose parent is in it.
Below(par, A, x) ==
  {y \in A : \A S \in SUBSET A :
               x \in S /\ (\A z \in A : par[z] \in S => z \in S) => y \in S}

\* x, its right child, that one's right child, ...
Spine(r, A, x) ==
  {y \in A : \A S \in SUBSET A :
               x \in S /\ (\A z \in S : r[z] # NIL => r[z] \in S) => y \in S}

\* The nodes whose left subtree y is in: those that follow y and are above it.
LeftOf(l, par, A, y) == {h \in A : l[h] # NIL /\ y \in Below(par, A, l[h])}

\* Node y is on the right spine of h's left subtree, so that h follows it in order
\* if it has no right child.
Owns(l, r, A, h, y) == h \in A /\ l[h] # NIL /\ y \in Spine(r, A, l[h])

LEMMA BelowClosed ==
  ASSUME NEW par, NEW A, NEW x \in A
  PROVE  /\ Below(par, A, x) \in SUBSET A /\ x \in Below(par, A, x)
         /\ \A z \in A : par[z] \in Below(par, A, x) => z \in Below(par, A, x)
BY DEF Below

LEMMA BelowLeast ==
  ASSUME NEW par, NEW A, NEW x \in A, NEW S \in SUBSET A, x \in S,
         \A z \in A : par[z] \in S => z \in S
  PROVE  Below(par, A, x) \subseteq S
BY DEF Below

\* What is below x is x or has its parent below x.
LEMMA BelowUp ==
  ASSUME NEW par, NEW A, NEW x \in A, NEW y \in Below(par, A, x), y # x
  PROVE  par[y] \in Below(par, A, x)
<1> DEFINE B == Below(par, A, x)
           S == {z \in B : z = x \/ par[z] \in B}
<1>1. B \in SUBSET A /\ x \in B /\ \A z \in A : par[z] \in B => z \in B
  BY BelowClosed
<1> HIDE DEF B
<1>2. S \in SUBSET A /\ x \in S /\ \A z \in A : par[z] \in S => z \in S
  BY <1>1
<1> HIDE DEF S
<1>3. B \subseteq S
  BY <1>2, BelowLeast DEF B
<1>4. QED
  BY <1>3 DEF S, B

LEMMA BelowTransitive ==
  ASSUME NEW par, NEW A, NEW x \in A, NEW y \in Below(par, A, x)
  PROVE  Below(par, A, y) \subseteq Below(par, A, x)
<1>1. /\ Below(par, A, x) \in SUBSET A
      /\ \A z \in A : par[z] \in Below(par, A, x) => z \in Below(par, A, x)
  BY BelowClosed
<1>2. QED
  BY <1>1, BelowLeast

\* No node is below its child.
LEMMA NotBelowChild ==
  ASSUME NEW l, NEW r, NEW par, NEW A, NEW rt, Binary(l, r, par, A, rt),
         NEW x \in A, par[x] \in A
  PROVE  par[x] \notin Below(par, A, x)
<1> SUFFICES ASSUME par[x] \in Below(par, A, x) PROVE FALSE
  OBVIOUS
<1> DEFINE B == Below(par, A, x)
<1>1. B \in SUBSET A /\ x \in B
  BY BelowClosed
<1>2. \A y \in B : par[y] \in B
  BY BelowUp
<1> HIDE DEF B
<1>3. rt \in B
  BY <1>1, <1>2 DEF Binary
<1>4. QED
  BY <1>1, <1>2, <1>3 DEF Binary

\* The root is in nobody's left subtree; the left child of c is in the same ones
\* as c and in c's, the right child in the same ones as c.
LEMMA LeftOfRoot ==
  ASSUME NEW l, NEW r, NEW par, NEW A, NEW rt, Binary(l, r, par, A, rt)
  PROVE  LeftOf(l, par, A, rt) = {}
<1> SUFFICES ASSUME NEW h \in A, l[h] # NIL, rt \in Below(par, A, l[h]) PROVE FALSE
  BY DEF LeftOf
<1>1. l[h] \in A /\ par[l[h]] = h /\ par[rt] = NIL /\ NIL \notin A
  BY DEF Binary
<1>2. rt # l[h]
  BY <1>1
<1>3. par[rt] \in Below(par, A, l[h])
  BY <1>1, <1>2, BelowUp
<1>4. QED
  BY <1>1, <1>3, BelowClosed

LEMMA BelowChild ==
  ASSUME NEW par, NEW A, NEW x \in A, NEW c \in A, par[c] \in A
  PROVE  c \in Below(par, A, x) <=> (c = x \/ par[c] \in Below(par, A, x))
BY BelowClosed, BelowUp

LEMMA LeftOfLeft ==
  ASSUME NEW l, NEW r, NEW par, NEW A, NEW rt, Binary(l, r, par, A, rt),
         NEW c \in A, l[c] # NIL
  PROVE  LeftOf(l, par, A, l[c]) = LeftOf(l, par, A, c) \cup {c}
<1>1. l[c] \in A /\ par[l[c]] = c
  BY DEF Binary
<1>2. ASSUME NEW h \in A, l[h] # NIL
      PROVE  l[c] \in Below(par, A, l[h]) <=> (h = c \/ c \in Below(par, A, l[h]))
  <2>1. l[h] \in A /\ par[l[h]] = h
    BY <1>2 DEF Binary
  <2>2. l[c] = l[h] <=> h = c
    BY <1>1, <2>1
  <2>3. QED
    BY <1>1, <2>1, <2>2, BelowChild
<1>3. QED
  BY <1>2 DEF LeftOf

LEMMA LeftOfRight ==
  ASSUME NEW l, NEW r, NEW par, NEW A, NEW rt, Binary(l, r, par, A, rt),
         NEW c \in A, r[c] # NIL
  PROVE  LeftOf(l, par, A, r[c]) = LeftOf(l, par, A, c)
<1>1. r[c] \in A /\ par[r[c]] = c
  BY DEF Binary
<1>2. ASSUME NEW h \in A, l[h] # NIL
      PROVE  r[c] \in Below(par, A, l[h]) <=> c \in Below(par, A, l[h])
  <2>1. l[h] \in A /\ par[l[h]] = h /\ l[h] # r[h]
    BY <1>2 DEF Binary
  <2>2. r[c] # l[h]
    BY <1>1, <2>1
  <2>3. QED
    BY <1>1, <2>1, <2>2, BelowChild
<1>3. QED
  BY <1>2 DEF LeftOf

\* No node is in its own left subtree.
LEMMA NotLeftOfItself ==
  ASSUME NEW l, NEW r, NEW par, NEW A, NEW rt, Binary(l, r, par, A, rt), NEW h \in A
  PROVE  h \notin LeftOf(l, par, A, h)
<1>1. ASSUME l[h] # NIL PROVE h \notin Below(par, A, l[h])
  <2>1. l[h] \in A /\ par[l[h]] = h
    BY <1>1 DEF Binary
  <2>2. QED
    BY <2>1, NotBelowChild
<1>2. QED
  BY <1>1 DEF LeftOf

LEMMA SpineClosed ==
  ASSUME NEW l, NEW r, NEW par, NEW A, NEW rt, Binary(l, r, par, A, rt), NEW x \in A
  PROVE  /\ Spine(r, A, x) \in SUBSET A /\ x \in Spine(r, A, x)
         /\ \A z \in Spine(r, A, x) : r[z] # NIL => r[z] \in Spine(r, A, x)
<1>1. \A z \in A : r[z] # NIL => r[z] \in A
  BY DEF Binary
<1>2. QED
  BY <1>1 DEF Spine

LEMMA SpineLeast ==
  ASSUME NEW r, NEW A, NEW x \in A, NEW S \in SUBSET A, x \in S,
         \A z \in S : r[z] # NIL => r[z] \in S
  PROVE  Spine(r, A, x) \subseteq S
BY DEF Spine

\* A spine has one end.
LEMMA SpineEnd ==
  ASSUME NEW l, NEW r, NEW par, NEW A, NEW rt, Binary(l, r, par, A, rt), NEW x \in A,
         NEW y \in Spine(r, A, x), NEW z \in Spine(r, A, x), r[y] = NIL, r[z] = NIL
  PROVE  y = z
<1> DEFINE S == {v \in Spine(r, A, x) : y \in Spine(r, A, v)}
<1>1. /\ Spine(r, A, x) \in SUBSET A /\ x \in Spine(r, A, x)
      /\ \A v \in Spine(r, A, x) : r[v] # NIL => r[v] \in Spine(r, A, x)
  BY SpineClosed
<1>2. ASSUME NEW v \in S, r[v] # NIL PROVE r[v] \in S
  <2>1. v \in A /\ r[v] \in A
    BY <1>1, <1>2 DEF Binary
  <2> DEFINE T == {v} \cup Spine(r, A, r[v])
  <2>2. T \in SUBSET A /\ v \in T /\ \A w \in T : r[w] # NIL => r[w] \in T
    BY <2>1, SpineClosed
  <2> HIDE DEF T
  <2>3. y \in T
    BY <2>1, <2>2, SpineLeast
  <2>4. y # v
    BY <1>2
  <2>5. QED
    BY <1>1, <1>2, <2>3, <2>4 DEF T
<1>3. S \in SUBSET A /\ x \in S
  BY <1>1
<1> HIDE DEF S
<1>4. z \in S
  BY <1>2, <1>3, SpineLeast
<1>5. y \in Spine(r, A, z) /\ z \in A
  BY <1>1, <1>4 DEF S
<1>6. Spine(r, A, z) \subseteq {z}
  <2>1. {z} \in SUBSET A /\ z \in {z} /\ \A v \in {z} : r[v] # NIL => r[v] \in {z}
    BY <1>5
  <2>2. QED
    BY <1>5, <2>1, SpineLeast
<1>7. QED
  BY <1>5, <1>6

\* The nodes of the right spine of h's left subtree are in the left subtrees of h
\* and of those in whose left subtrees h is.
LEMMA OwnsLeftOf ==
  ASSUME NEW l, NEW r, NEW par, NEW A, NEW rt, Binary(l, r, par, A, rt),
         NEW h, NEW y, Owns(l, r, A, h, y)
  PROVE  y \in A /\ h \in A /\ l[h] # NIL
         /\ LeftOf(l, par, A, y) = LeftOf(l, par, A, h) \cup {h}
<1> DEFINE O == LeftOf(l, par, A, h) \cup {h}
           S == {v \in A : LeftOf(l, par, A, v) = O}
<1>1. h \in A /\ l[h] # NIL /\ y \in Spine(r, A, l[h]) /\ l[h] \in A
  BY DEF Owns, Binary
<1>2. l[h] \in S
  BY <1>1, LeftOfLeft
<1>3. ASSUME NEW v \in S, r[v] # NIL PROVE r[v] \in S
  <2>1. r[v] \in A
    BY <1>3 DEF Binary
  <2>2. QED
    BY <1>3, <2>1, LeftOfRight
<1> HIDE DEF S, O
<1>4. S \in SUBSET A
  BY DEF S
<1>5. y \in S
  BY <1>1, <1>2, <1>3, <1>4, SpineLeast
<1>6. QED
  BY <1>1, <1>5 DEF S, O

LEMMA OwnsOnce ==
  ASSUME NEW l, NEW r, NEW par, NEW A, NEW rt, Binary(l, r, par, A, rt),
         NEW h, NEW k, NEW y, Owns(l, r, A, h, y), Owns(l, r, A, k, y)
  PROVE  h = k
<1> SUFFICES ASSUME h # k PROVE FALSE
  OBVIOUS
<1>1. /\ h \in A /\ k \in A /\ l[h] # NIL /\ l[k] # NIL
      /\ LeftOf(l, par, A, h) \cup {h} = LeftOf(l, par, A, k) \cup {k}
  BY OwnsLeftOf
<1>2. h \in LeftOf(l, par, A, k) /\ k \in LeftOf(l, par, A, h)
  BY <1>1
<1>3. k \in Below(par, A, l[h]) /\ h \in Below(par, A, l[k])
  BY <1>2 DEF LeftOf
<1>4. l[h] \in A /\ l[k] \in A /\ par[l[h]] = h /\ par[l[k]] = k
  BY <1>1 DEF Binary
<1>5. l[h] \in Below(par, A, l[k])
  BY <1>3, <1>4, BelowClosed
<1>6. k \in Below(par, A, l[k])
  BY <1>3, <1>4, <1>5, BelowTransitive
<1>7. QED
  BY <1>1, <1>4, <1>6, NotBelowChild

\* A node that is in a left subtree at all is on the right spine of one.
LEMMA OwnerExists ==
  ASSUME NEW l, NEW r, NEW par, NEW A, NEW rt, Binary(l, r, par, A, rt),
         NEW y \in A, LeftOf(l, par, A, y) # {}
  PROVE  \E h \in A : Owns(l, r, A, h, y)
<1> DEFINE Good(v) == LeftOf(l, par, A, v) = {} \/ \E h \in A : Owns(l, r, A, h, v)
           S == {v \in A : ~Good(v)}
<1>1. Good(rt)
  BY LeftOfRoot
<1>2. ASSUME NEW v \in A, v # rt, Good(par[v]) PROVE Good(v)
  <2>1. par[v] \in A /\ (v = l[par[v]] \/ v = r[par[v]]) /\ v # NIL
    BY <1>2 DEF Binary
  <2>2. CASE v = l[par[v]]
    <3>1. v \in Spine(r, A, v)
      BY SpineClosed
    <3>2. QED
      BY <2>1, <2>2, <3>1 DEF Owns
  <2>3. CASE v = r[par[v]] /\ LeftOf(l, par, A, par[v]) = {}
    BY <2>1, <2>3, LeftOfRight
  <2>4. CASE v = r[par[v]] /\ \E h \in A : Owns(l, r, A, h, par[v])
    <3>1. PICK h \in A : Owns(l, r, A, h, par[v])
      BY <2>4
    <3>2. l[h] \in A /\ par[v] \in Spine(r, A, l[h])
      BY <3>1 DEF Owns, Binary
    <3>3. v \in Spine(r, A, l[h])
      BY <2>1, <2>4, <3>2, SpineClosed
    <3>4. QED
      BY <3>1, <3>3 DEF Owns
  <2>5. QED
    BY <1>2, <2>1, <2>2, <2>3, <2>4
<1> HIDE DEF Good
<1>3. ASSUME S # {} PROVE FALSE
  <2>1. \A v \in S : par[v] \in S \cup {NIL}
    <3> SUFFICES ASSUME NEW v \in S PROVE par[v] \in S
      OBVIOUS
    <3>1. v # rt
      BY <1>1
    <3>2. par[v] \in A
      BY <3>1 DEF Binary
    <3>3. QED
      BY <1>2, <3>1, <3>2
  <2>2. S \in SUBSET A
    OBVIOUS
  <2>3. rt \in S
    <3> HIDE DEF S
    <3>1. QED
      BY <1>3, <2>1, <2>2 DEF Binary
  <2>4. QED
    BY <1>1, <2>3
<1>4. Good(y)
  BY <1>3
<1>5. QED
  BY <1>4 DEF Good

--------------------------------------------------------------------------------
(* The threads of rb_tree_print_in_order.                                  *)

\* The right links cr are those of the tree, and the threads to the nodes in open.
Threads(l, r, A, open, cr) ==
  \A y \in A :
    /\ r[y] # NIL => cr[y] = r[y]
    /\ r[y] = NIL => \/ cr[y] = NIL /\ \A h \in open : ~Owns(l, r, A, h, y)
                     \/ cr[y] \in open /\ Owns(l, r, A, cr[y], y)

\* The traversal stands on c, or is done: the threads lead to the nodes in whose
\* left subtrees c is, and to c if it was reached by its thread.
Stands(l, par, A, open, c) ==
  IF c = NIL THEN open = {}
  ELSE /\ c \in A
       /\ \/ open = LeftOf(l, par, A, c)
          \/ open = LeftOf(l, par, A, c) \cup {c} /\ l[c] # NIL

\* Of the nodes in open only the left subtrees are printed.
Waiting(r, par, A, open, y) ==
  \E h \in open : y = h \/ (r[h] # NIL /\ y \in Below(par, A, r[h]))

\* The nodes that are not in the set P of printed ones will still be met.
Covered(r, par, A, open, c, P) ==
  \A y \in A : \/ y \in P
               \/ Waiting(r, par, A, open, y)
               \/ c # NIL /\ c \notin open /\ y \in Below(par, A, c)

Morris(l, r, par, A, rt, open, cr, c, P) ==
  /\ Binary(l, r, par, A, rt) /\ open \in SUBSET A
  /\ Threads(l, r, A, open, cr) /\ Stands(l, par, A, open, c) /\ Covered(r, par, A, open, c, P)

\* The right links of cr2 are those of cr, but for that of p, which leads to node to.
Relinked(A, cr, p, to, cr2) == \A y \in A : cr2[y] = IF y = p THEN to ELSE cr[y]

\* A subtree is its root and the two subtrees below that.
LEMMA BelowSplit ==
  ASSUME NEW l, NEW r, NEW par, NEW A, NEW rt, Binary(l, r, par, A, rt),
         NEW c \in A, NEW y \in Below(par, A, c), y # c
  PROVE  \/ l[c] # NIL /\ y \in Below(par, A, l[c])
         \/ r[c] # NIL /\ y \in Below(par, A, r[c])
<1> DEFINE L == IF l[c] # NIL THEN Below(par, A, l[c]) ELSE {}
           R == IF r[c] # NIL THEN Below(par, A, r[c]) ELSE {}
           S == {c} \cup L \cup R
<1>1. /\ (l[c] # NIL => l[c] \in A) /\ (r[c] # NIL => r[c] \in A)
      /\ NIL \notin A
  BY DEF Binary
<1>2. L \in SUBSET A /\ (l[c] # NIL => l[c] \in L) /\ \A z \in A : par[z] \in L => z \in L
  <2>1. CASE l[c] = NIL
    BY <2>1
  <2>2. CASE l[c] # NIL
    <3>1. l[c] \in A
      BY <2>2 DEF Binary
    <3>2. QED
      BY <2>2, <3>1, BelowClosed
  <2>3. QED
    BY <2>1, <2>2
<1>3. R \in SUBSET A /\ (r[c] # NIL => r[c] \in R) /\ \A z \in A : par[z] \in R => z \in R
  <2>1. CASE r[c] = NIL
    BY <2>1
  <2>2. CASE r[c] # NIL
    <3>1. r[c] \in A
      BY <2>2 DEF Binary
    <3>2. QED
      BY <2>2, <3>1, BelowClosed
  <2>3. QED
    BY <2>1, <2>2
<1> HIDE DEF L, R
<1>4. ASSUME NEW z \in A, par[z] \in S PROVE z \in S
  <2>1. CASE par[z] = c
    <3>1. z # rt /\ z # NIL
      BY <2>1 DEF Binary
    <3>2. z = l[c] \/ z = r[c]
      BY <2>1, <3>1 DEF Binary
    <3>3. QED
      BY <1>2, <1>3, <3>1, <3>2
  <2>2. CASE par[z] # c
    BY <1>2, <1>3, <1>4, <2>2
  <2>3. QED
    BY <2>1, <2>2
<1>5. S \in SUBSET A /\ c \in S
  BY <1>2, <1>3
<1> HIDE DEF S
<1>6. y \in S
  BY <1>4, <1>5, BelowLeast
<1>7. QED
  BY <1>6 DEF S, L, R

\* The traversal begins.
LEMMA MorrisBegins ==
  ASSUME NEW l, NEW r, NEW par, NEW A, NEW rt, Binary(l, r, par, A, rt), NEW P
  PROVE  Morris(l, r, par, A, rt, {}, r, rt, P)
<1>1. rt \in A /\ rt # NIL
  BY DEF Binary
<1>2. Threads(l, r, A, {}, r)
  BY DEF Threads
<1>3. Stands(l, par, A, {}, rt)
  BY <1>1, LeftOfRoot DEF Stands
<1>4. A \subseteq Below(par, A, rt)
  <2> DEFINE B == Below(par, A, rt)
             S == A \ B
  <2>1. rt \in B /\ \A z \in A : par[z] \in B => z \in B
    BY <1>1, BelowClosed
  <2> HIDE DEF B
  <2>2. \A x \in S : par[x] \in S \cup {NIL}
    BY <2>1 DEF Binary
  <2>3. S \in SUBSET A /\ rt \notin S
    BY <2>1
  <2> HIDE DEF S
  <2>4. S = {}
    BY <2>2, <2>3 DEF Binary
  <2>5. QED
    BY <2>4 DEF S, B
<1>5. Covered(r, par, A, {}, rt, P)
  BY <1>1, <1>4 DEF Covered
<1>6. QED
  BY <1>2, <1>3, <1>5 DEF Morris

\* The left subtree of c and c are printed: the right link leads on, be it to the
\* right child or along a thread.
LEMMA MorrisGoesOn ==
  ASSUME NEW l, NEW r, NEW par, NEW A, NEW rt, Binary(l, r, par, A, rt),
         NEW c \in A, NEW open, open = LeftOf(l, par, A, c), NEW cr, NEW P,
         Threads(l, r, A, open, cr),
         \A y \in A : \/ y \in P
                      \/ Waiting(r, par, A, open, y)
                      \/ r[c] # NIL /\ y \in Below(par, A, r[c])
  PROVE  Morris(l, r, par, A, rt, open, cr, cr[c], P)
<1>1. open \in SUBSET A
  BY DEF LeftOf
<1>2. CASE r[c] # NIL
  <2>1. cr[c] = r[c] /\ r[c] \in A
    BY <1>2 DEF Threads, Binary
  <2>2. open = LeftOf(l, par, A, r[c])
    BY <1>2, LeftOfRight
  <2>3. r[c] \notin open
    BY <2>1, <2>2, NotLeftOfItself
  <2>4. Stands(l, par, A, open, r[c])
    BY <1>2, <2>1, <2>2 DEF Stands
  <2>5. Covered(r, par, A, open, r[c], P)
    BY <1>2, <2>3 DEF Covered
  <2>6. QED
    BY <1>1, <2>1, <2>4, <2>5 DEF Morris
<1>3. CASE r[c] = NIL
  <2>1. \A y \in A : y \in P \/ Waiting(r, par, A, open, y)
    BY <1>3
  <2>2. Covered(r, par, A, open, cr[c], P)
    BY <2>1 DEF Covered
  <2>3. Stands(l, par, A, open, cr[c])
    <3>1. CASE cr[c] = NIL /\ \A h \in open : ~Owns(l, r, A, h, c)
      <4>1. ASSUME NEW h \in A, Owns(l, r, A, h, c) PROVE h \in open
        BY <4>1, OwnsLeftOf
      <4>2. open = {}
        BY <3>1, <4>1, OwnerExists
      <4>3. QED
        BY <3>1, <4>2 DEF Stands
    <3>2. CASE cr[c] \in open /\ Owns(l, r, A, cr[c], c)
      <4>1. cr[c] \in A /\ l[cr[c]] # NIL /\ open = LeftOf(l, par, A, cr[c]) \cup {cr[c]}
        BY <3>2, OwnsLeftOf
      <4>2. cr[c] # NIL
        BY <4>1 DEF Binary
      <4>3. QED
        BY <4>1, <4>2 DEF Stands
    <3>3. QED
      BY <1>3, <3>1, <3>2 DEF Threads
  <2>4. QED
    BY <1>1, <2>2, <2>3 DEF Morris
<1>4. QED
  BY <1>2, <1>3

\* Node c has no left child: it is printed, and the right link leads on.
LEMMA MorrisPrints ==
  ASSUME NEW l, NEW r, NEW par, NEW A, NEW rt, NEW open, NEW cr, NEW c, NEW P, NEW P2,
         Morris(l, r, par, A, rt, open, cr, c, P), c # NIL, l[c] = NIL,
         P \subseteq P2, c \in P2
  PROVE  Morris(l, r, par, A, rt, open, cr, cr[c], P2)
<1>1. /\ Binary(l, r, par, A, rt) /\ c \in A /\ open = LeftOf(l, par, A, c)
      /\ Threads(l, r, A, open, cr) /\ Covered(r, par, A, open, c, P)
  BY DEF Morris, Stands
<1>2. ASSUME NEW y \in A
      PROVE  \/ y \in P2
             \/ Waiting(r, par, A, open, y)
             \/ r[c] # NIL /\ y \in Below(par, A, r[c])
  <2>1. CASE y \in P \/ Waiting(r, par, A, open, y)
    BY <2>1
  <2>2. CASE y \in Below(par, A, c)
    BY <1>1, <2>2, BelowSplit
  <2>3. QED
    BY <1>1, <2>1, <2>2 DEF Covered
<1>3. QED
  BY <1>1, <1>2, MorrisGoesOn

\* The end of the spine, p, has no thread yet: one is laid, and c's left subtree
\* comes first.
LEMMA MorrisLays ==
  ASSUME NEW l, NEW r, NEW par, NEW A, NEW rt, NEW open, NEW cr, NEW c, NEW P, NEW p, NEW cr2,
         Morris(l, r, par, A, rt, open, cr, c, P), c # NIL, l[c] # NIL,
         p \in Spine(r, A, l[c]), cr[p] = NIL,
         Relinked(A, cr, p, c, cr2)
  PROVE  Morris(l, r, par, A, rt, open \cup {c}, cr2, l[c], P)
<1>1. /\ Binary(l, r, par, A, rt) /\ c \in A /\ l[c] \in A /\ open \in SUBSET A
      /\ Threads(l, r, A, open, cr) /\ Covered(r, par, A, open, c, P) /\ NIL \notin A
  BY DEF Morris, Stands, Binary
<1>2. Owns(l, r, A, c, p) /\ p \in A
  BY <1>1, OwnsLeftOf DEF Owns
<1>3. r[p] = NIL /\ (\A h \in open : ~Owns(l, r, A, h, p)) /\ c \notin open
  BY <1>1, <1>2 DEF Threads
<1>4. open = LeftOf(l, par, A, c)
  BY <1>3 DEF Morris, Stands
<1>5. LeftOf(l, par, A, l[c]) = open \cup {c}
  BY <1>1, <1>4, LeftOfLeft
<1>6. l[c] \notin open \cup {c}
  BY <1>1, <1>5, NotLeftOfItself
<1>7. Threads(l, r, A, open \cup {c}, cr2)
  <2> SUFFICES ASSUME NEW y \in A
               PROVE  /\ r[y] # NIL => cr2[y] = r[y]
                      /\ r[y] = NIL =>
                           \/ cr2[y] = NIL /\ \A h \in open \cup {c} : ~Owns(l, r, A, h, y)
                           \/ cr2[y] \in open \cup {c} /\ Owns(l, r, A, cr2[y], y)
    BY DEF Threads
  <2>1. CASE y = p
    BY <1>2, <1>3, <2>1 DEF Relinked
  <2>2. CASE y # p
    <3>1. cr2[y] = cr[y]
      BY <2>2 DEF Relinked
    <3>2. r[y] = NIL => ~Owns(l, r, A, c, y)
      <4>1. ASSUME r[y] = NIL, Owns(l, r, A, c, y) PROVE y = p
        <5>1. y \in Spine(r, A, l[c])
          BY <4>1 DEF Owns
        <5>2. QED
          BY <1>1, <1>3, <4>1, <5>1, SpineEnd
      <4>2. QED
        BY <2>2, <4>1
    <3>3. QED
      BY <1>1, <3>1, <3>2 DEF Threads
  <2>3. QED
    BY <2>1, <2>2
<1>8. Stands(l, par, A, open \cup {c}, l[c])
  BY <1>1, <1>5 DEF Stands
<1>9. Covered(r, par, A, open \cup {c}, l[c], P)
  <2> SUFFICES ASSUME NEW y \in A
               PROVE  \/ y \in P
                      \/ Waiting(r, par, A, open \cup {c}, y)
                      \/ y \in Below(par, A, l[c])
    BY <1>6 DEF Covered
  <2>1. CASE y \in P \/ Waiting(r, par, A, open, y)
    BY <2>1 DEF Waiting
  <2>2. CASE y = c
    BY <2>2 DEF Waiting
  <2>3. CASE y \in Below(par, A, c) /\ y # c
    BY <1>1, <2>3, BelowSplit DEF Waiting
  <2>4. QED
    BY <1>1, <2>1, <2>2, <2>3 DEF Covered
<1>10. QED
  BY <1>1, <1>7, <1>8, <1>9 DEF Morris

\* The right link of the spine's node p leads to c: it is the thread, which is taken
\* up, c is printed, and its right link leads on.
LEMMA MorrisUnlays ==
  ASSUME NEW l, NEW r, NEW par, NEW A, NEW rt, NEW open, NEW cr, NEW c, NEW P, NEW P2,
         NEW p, NEW cr2,
         Morris(l, r, par, A, rt, open, cr, c, P), c # NIL, l[c] # NIL,
         p \in Spine(r, A, l[c]), cr[p] = c,
         Relinked(A, cr, p, NIL, cr2),
         P \subseteq P2, c \in P2
  PROVE  Morris(l, r, par, A, rt, open \ {c}, cr2, cr2[c], P2)
<1>1. /\ Binary(l, r, par, A, rt) /\ c \in A /\ l[c] \in A /\ open \in SUBSET A
      /\ Threads(l, r, A, open, cr) /\ Covered(r, par, A, open, c, P) /\ NIL \notin A
  BY DEF Morris, Stands, Binary
<1>2. /\ Owns(l, r, A, c, p) /\ p \in A
      /\ LeftOf(l, par, A, p) = LeftOf(l, par, A, c) \cup {c}
  <2>1. Owns(l, r, A, c, p)
    BY <1>1 DEF Owns
  <2>2. QED
    BY <1>1, <2>1, OwnsLeftOf
<1>3. c \notin LeftOf(l, par, A, c)
  BY <1>1, NotLeftOfItself
<1>4. r[p] = NIL
  <2>1. ASSUME r[p] # NIL PROVE FALSE
    <3>1. r[p] = c
      BY <1>1, <1>2, <2>1 DEF Threads
    <3>2. LeftOf(l, par, A, c) = LeftOf(l, par, A, p)
      BY <1>1, <1>2, <2>1, <3>1, LeftOfRight
    <3>3. QED
      BY <1>2, <1>3, <3>2
  <2>2. QED
    BY <2>1
<1>5. c \in open
  BY <1>1, <1>2, <1>4 DEF Threads
<1>6. open \ {c} = LeftOf(l, par, A, c)
  BY <1>3, <1>5 DEF Morris, Stands
<1>7. Threads(l, r, A, open \ {c}, cr2)
  <2> SUFFICES ASSUME NEW y \in A
               PROVE  /\ r[y] # NIL => cr2[y] = r[y]
                      /\ r[y] = NIL =>
                           \/ cr2[y] = NIL /\ \A h \in open \ {c} : ~Owns(l, r, A, h, y)
                           \/ cr2[y] \in open \ {c} /\ Owns(l, r, A, cr2[y], y)
    BY DEF Threads
  <2>1. CASE y = p
    <3>1. \A h \in open \ {c} : ~Owns(l, r, A, h, p)
      BY <1>1, <1>2, OwnsOnce
    <3>2. QED
      BY <1>4, <2>1, <3>1 DEF Relinked
  <2>2. CASE y # p
    <3>1. cr2[y] = cr[y]
      BY <2>2 DEF Relinked
    <3>2. ASSUME r[y] = NIL, Owns(l, r, A, c, y) PROVE FALSE
      <4>1. y \in Spine(r, A, l[c])
        BY <3>2 DEF Owns
      <4>2. y = p
        BY <1>1, <1>4, <3>2, <4>1, SpineEnd
      <4>3. QED
        BY <2>2, <4>2
    <3>3. QED
      BY <1>1, <3>1, <3>2 DEF Threads
  <2>3. QED
    BY <2>1, <2>2
<1>8. ASSUME NEW y \in A
      PROVE  \/ y \in P2
             \/ Waiting(r, par, A, open \ {c}, y)
             \/ r[c] # NIL /\ y \in Below(par, A, r[c])
  <2>1. y \in P \/ Waiting(r, par, A, open, y)
    BY <1>1, <1>5 DEF Covered
  <2>2. QED
    BY <2>1 DEF Waiting
<1> DEFINE rest == open \ {c}
<1>9. Morris(l, r, par, A, rt, rest, cr2, cr2[c], P2)
  <2> HIDE DEF rest
  <2>1. rest = LeftOf(l, par, A, c) /\ Threads(l, r, A, rest, cr2)
    BY <1>6, <1>7 DEF rest
  <2>2. \A y \in A : \/ y \in P2
                     \/ Waiting(r, par, A, rest, y)
                     \/ r[c] # NIL /\ y \in Below(par, A, r[c])
    BY <1>8 DEF rest
  <2>3. QED
    BY <1>1, <2>1, <2>2, MorrisGoesOn
<1>10. QED
  BY <1>9

\* The traversal of the tree whose links were b when it began: it stands on c, looks
\* for the end of the spine at p, and has printed P.
Walks(b, t, A, rt, c, p, at, P, open) ==
  /\ Morris(b["left"], b["right"], t.parent, A, rt, open, t.child["right"], c, P)
  /\ t.child["left"] = b["left"]
  /\ \A y \in Nodes \ A : t.child["right"][y] = b["right"][y]
  /\ P \subseteq A
  /\ at = "seek" => /\ c # NIL /\ b["left"][c] # NIL
                    /\ p \in Spine(b["right"], A, b["left"][c])

Outputs(s) == {s[i] : i \in DOMAIN s}

WalkInv ==
  pc \in {"print", "seek"} =>
    \E open : Walks(before, tree, Allocated, root, curr, prev, pc, Outputs(printed), open)

LEMMA OutputsGrow ==
  ASSUME NEW s \in Seq(Nodes), NEW x \in Nodes
  PROVE  Outputs(Append(s, x)) = Outputs(s) \cup {x}
<1>1. DOMAIN s = 1..Len(s) /\ Len(s) \in Nat /\ DOMAIN Append(s, x) = 1..(Len(s) + 1)
  OBVIOUS
<1>2. \A i \in 1..Len(s) : Append(s, x)[i] = s[i]
  OBVIOUS
<1>3. Append(s, x)[Len(s) + 1] = x
  OBVIOUS
<1>4. 1..(Len(s) + 1) = (1..Len(s)) \cup {Len(s) + 1}
  BY <1>1
<1>5. QED
  BY <1>1, <1>2, <1>3, <1>4 DEF Outputs

\* A sound tree whose nodes all lead up to the root is a binary tree.
LEMMA SoundBinary ==
  ASSUME NEW t, NEW A \in SUBSET Nodes, NIL \notin A, NEW rt \in A, t.parent[rt] = NIL,
         AllocOK(t, A), SoundTree(t, A, rt), Climbs(t, A, rt)
  PROVE  Binary(t.child["left"], t.child["right"], t.parent, A, rt)
<1> DEFINE l == t.child["left"]
           r == t.child["right"]
<1>1. \A x \in A : l[x] \in A \cup {NIL} /\ r[x] \in A \cup {NIL}
  BY DEF AllocOK, Sides
<1>2. \A x \in A : (l[x] # NIL => t.parent[l[x]] = x) /\ (r[x] # NIL => t.parent[r[x]] = x)
  BY DEF SoundTree, Sides
<1>3. \A x \in A \ {rt} : /\ t.parent[x] \in A
                          /\ \/ x = l[t.parent[x]] /\ x # r[t.parent[x]]
                             \/ x = r[t.parent[x]] /\ x # l[t.parent[x]]
  <2> SUFFICES ASSUME NEW x \in A \ {rt}
               PROVE  /\ t.parent[x] \in A
                      /\ \/ x = l[t.parent[x]] /\ x # r[t.parent[x]]
                         \/ x = r[t.parent[x]] /\ x # l[t.parent[x]]
    OBVIOUS
  <2>1. t.parent[x] \in A
    BY DEF AllocOK, SoundTree
  <2>2. PICK s \in Sides : \A u \in Sides : t.child[u][t.parent[x]] = x <=> u = s
    BY DEF SoundTree
  <2>3. "left" \in Sides /\ "right" \in Sides /\ "left" # "right" /\ s \in {"left", "right"}
    BY DEF Sides
  <2>4. QED
    BY <2>1, <2>2, <2>3
<1>4. \A x \in A : l[x] # NIL => l[x] # r[x]
  <2> SUFFICES ASSUME NEW x \in A, l[x] # NIL PROVE l[x] # r[x]
    OBVIOUS
  <2>1. l[x] \in A /\ t.parent[l[x]] = x
    BY <1>1, <1>2
  <2>2. l[x] # rt
    BY <2>1
  <2>3. QED
    BY <1>3, <2>1, <2>2
<1> HIDE DEF l, r
<1>5. Binary(l, r, t.parent, A, rt)
  BY <1>1, <1>2, <1>3, <1>4 DEF Binary, Climbs
<1>6. QED
  BY <1>5 DEF l, r

\* The inner loop follows the right links of the tree, until it meets its end.
LEMMA SpineGoesOn ==
  ASSUME NEW l, NEW r, NEW par, NEW A, NEW rt, NEW open, NEW cr, NEW c, NEW P, NEW p,
         Morris(l, r, par, A, rt, open, cr, c, P), c # NIL, l[c] # NIL,
         p \in Spine(r, A, l[c]), cr[p] \notin {NIL, c}
  PROVE  cr[p] \in Spine(r, A, l[c])
<1>1. Binary(l, r, par, A, rt) /\ c \in A /\ l[c] \in A /\ Threads(l, r, A, open, cr)
  BY DEF Morris, Stands, Binary
<1>2. p \in A /\ Owns(l, r, A, c, p)
  BY <1>1, SpineClosed DEF Owns
<1>3. r[p] # NIL
  <2>1. ASSUME r[p] = NIL PROVE FALSE
    <3>1. Owns(l, r, A, cr[p], p)
      BY <1>1, <1>2, <2>1 DEF Threads
    <3>2. QED
      BY <1>1, <1>2, <3>1, OwnsOnce
  <2>2. QED
    BY <2>1
<1>4. cr[p] = r[p]
  BY <1>1, <1>2, <1>3 DEF Threads
<1>5. QED
  BY <1>1, <1>3, <1>4, SpineClosed

\* At its end the traversal has taken up every thread.
LEMMA MorrisEnds ==
  ASSUME NEW l, NEW r, NEW par, NEW A, NEW rt, NEW open, NEW cr, NEW P,
         Morris(l, r, par, A, rt, open, cr, NIL, P)
  PROVE  A \subseteq P /\ \A y \in A : cr[y] = r[y]
<1>1. open = {}
  BY DEF Morris, Stands
<1>2. QED
  BY <1>1 DEF Morris, Threads, Covered, Waiting

--------------------------------------------------------------------------------
(* The steps of the traversal.                                             *)

LEMMA PrintEnterWalks ==
  ASSUME TypeInv, TreeInv, SoundBetweenCalls, PrintEnter
  PROVE  WalkInv'
<1>1. /\ pc = "idle" /\ root # NIL /\ curr' = root /\ printed' = <<>> /\ before' = tree.child
      /\ pc' = "print" /\ tree' = tree /\ root' = root /\ keys' = keys /\ prev' = prev
  BY DEF PrintEnter
<1>2. Allocated' = Allocated
  BY <1>1 DEF Allocated
<1>3. Allocated \in SUBSET Nodes /\ NIL \notin Allocated /\ root \in Allocated
  BY <1>1, AllocFacts DEF TreeInv
<1>4. SoundTree(tree, Allocated, root)
  BY <1>1, SoundIs DEF SoundBetweenCalls
<1>5. Binary(tree.child["left"], tree.child["right"], tree.parent, Allocated, root)
  BY <1>1, <1>3, <1>4, SoundBinary DEF TreeInv
<1>6. Outputs(printed') = {}
  BY <1>1 DEF Outputs
<1>7. Walks(tree.child, tree, Allocated, root, root, prev, "print", {}, {})
  <2>1. Morris(tree.child["left"], tree.child["right"], tree.parent, Allocated, root, {},
               tree.child["right"], root, {})
    BY <1>5, MorrisBegins
  <2>2. QED
    BY <2>1 DEF Walks
<1>8. Walks(before', tree', Allocated', root', curr', prev', pc', Outputs(printed'), {})
  BY <1>1, <1>2, <1>6, <1>7
<1>9. QED
  BY <1>8 DEF WalkInv

\* The parts of the invariant that a step of the traversal starts from.
LEMMA WalkFacts ==
  ASSUME TypeInv, TreeInv, pc \in {"print", "seek"}, NEW open,
         Walks(before, tree, Allocated, root, curr, prev, pc, Outputs(printed), open)
  PROVE  /\ Morris(before["left"], before["right"], tree.parent, Allocated, root, open,
                   tree.child["right"], curr, Outputs(printed))
         /\ tree.child["left"] = before["left"]
         /\ \A y \in Nodes \ Allocated : tree.child["right"][y] = before["right"][y]
         /\ Outputs(printed) \subseteq Allocated
         /\ Allocated \subseteq Nodes /\ printed \in Seq(Nodes)
         /\ curr # NIL => curr \in Allocated
         /\ TreeOK(tree)
<1>1. Allocated \subseteq Nodes /\ printed \in Seq(Nodes) /\ TreeOK(tree)
  BY AllocFacts, TypeOKParts DEF TypeInv
<1>2. curr # NIL => curr \in Allocated
  BY DEF TreeInv
<1>3. QED
  BY <1>1, <1>2 DEF Walks

LEMMA PrintNodeWalks ==
  ASSUME TypeInv, TreeInv, WalkInv, PrintNode
  PROVE  WalkInv'
<1>1. /\ pc = "print" /\ tree' = tree /\ root' = root /\ keys' = keys /\ before' = before
  BY DEF PrintNode
<1>2. Allocated' = Allocated
  BY <1>1 DEF Allocated
<1>3. PICK open : Walks(before, tree, Allocated, root, curr, prev, pc, Outputs(printed), open)
  BY <1>1 DEF WalkInv
<1> DEFINE l == before["left"]
           r == before["right"]
           cr == tree.child["right"]
           P == Outputs(printed)
<1>4. /\ Morris(l, r, tree.parent, Allocated, root, open, cr, curr, P)
      /\ tree.child["left"] = l
      /\ \A y \in Nodes \ Allocated : cr[y] = r[y]
      /\ P \subseteq Allocated /\ Allocated \subseteq Nodes /\ printed \in Seq(Nodes)
      /\ curr # NIL => curr \in Allocated
  BY <1>1, <1>3, WalkFacts
<1>5. CASE curr = NIL
  BY <1>5 DEF PrintNode, WalkInv
<1>6. CASE curr # NIL /\ left(curr) = NIL
  <2>1. pc' = "print" /\ curr' = cr[curr] /\ printed' = Append(printed, curr) /\ prev' = prev
    BY <1>1, <1>6 DEF PrintNode, right
  <2>2. Outputs(printed') = P \cup {curr}
    BY <1>4, <1>6, <2>1, OutputsGrow
  <2>3. l[curr] = NIL /\ curr \in Allocated
    BY <1>4, <1>6 DEF left
  <2>4. Morris(l, r, tree.parent, Allocated, root, open, cr, cr[curr], P \cup {curr})
    <3> HIDE DEF l, r, cr, P
    <3>1. QED
      BY <1>4, <1>6, <2>3, MorrisPrints
  <2>5. Walks(before, tree, Allocated, root, cr[curr], prev, "print", P \cup {curr}, open)
    BY <1>4, <2>3, <2>4 DEF Walks
  <2>6. Walks(before', tree', Allocated', root', curr', prev', pc', Outputs(printed'), open)
    BY <1>1, <1>2, <2>1, <2>2, <2>5
  <2>7. QED
    BY <2>6 DEF WalkInv
<1>7. CASE curr # NIL /\ left(curr) # NIL
  <2>1. pc' = "seek" /\ curr' = curr /\ printed' = printed /\ prev' = l[curr]
    BY <1>1, <1>4, <1>7 DEF PrintNode, left
  <2>2. l[curr] # NIL
    BY <1>4, <1>7 DEF left
  <2>3. l[curr] \in Spine(r, Allocated, l[curr])
    <3>1. Binary(l, r, tree.parent, Allocated, root)
      BY <1>4 DEF Morris
    <3>2. l[curr] \in Allocated
      BY <1>4, <1>7, <2>2, <3>1 DEF Binary
    <3>3. QED
      BY <3>1, <3>2, SpineClosed
  <2>4. Walks(before, tree, Allocated, root, curr, l[curr], "seek", P, open)
    BY <1>4, <1>7, <2>2, <2>3 DEF Walks
  <2>5. Walks(before', tree', Allocated', root', curr', prev', pc', Outputs(printed'), open)
    BY <1>1, <1>2, <2>1, <2>4
  <2>6. QED
    BY <2>5 DEF WalkInv
<1>8. QED
  BY <1>5, <1>6, <1>7

\* The links after a thread is laid or taken up.
LEMMA ThreadFields ==
  ASSUME TreeOK(tree), NEW to, prev \in Nodes
  PROVE  /\ Thread(to).parent = tree.parent
         /\ Thread(to).child["left"] = tree.child["left"]
         /\ \A y \in Nodes :
              Thread(to).child["right"][y] = IF y = prev THEN to ELSE tree.child["right"][y]
<1> DEFINE t2 == Thread(to)
<1>1. t2.parent = tree.parent /\ t2.child = [tree.child EXCEPT !["right"][prev] = to]
  BY DEF Thread, TreeOK
<1>2. tree.child \in [Sides -> Link] /\ "left" \in Sides /\ "right" \in Sides
      /\ tree.child["right"] \in Link
  BY DEF TreeOK, Sides
<1> HIDE DEF t2
<1>3. t2.child["left"] = tree.child["left"]
  BY <1>1, <1>2
<1>4. t2.child["right"] = [tree.child["right"] EXCEPT ![prev] = to]
  BY <1>1, <1>2
<1>5. QED
  BY <1>1, <1>2, <1>3, <1>4 DEF t2, Link

LEMMA SeekWalks ==
  ASSUME TypeInv, TreeInv, WalkInv, Seek
  PROVE  WalkInv'
<1>1. /\ pc = "seek" /\ root' = root /\ keys' = keys /\ before' = before
  BY DEF Seek
<1>2. Allocated' = Allocated
  BY <1>1 DEF Allocated
<1>3. PICK open : Walks(before, tree, Allocated, root, curr, prev, pc, Outputs(printed), open)
  BY <1>1 DEF WalkInv
<1> DEFINE l == before["left"]
           r == before["right"]
           cr == tree.child["right"]
           cr2 == tree'.child["right"]
           P == Outputs(printed)
           spine == Spine(r, Allocated, l[curr])
<1>4. /\ Morris(l, r, tree.parent, Allocated, root, open, cr, curr, P)
      /\ tree.child["left"] = l
      /\ \A y \in Nodes \ Allocated : cr[y] = r[y]
      /\ P \subseteq Allocated /\ Allocated \subseteq Nodes /\ printed \in Seq(Nodes)
      /\ curr # NIL => curr \in Allocated
      /\ TreeOK(tree)
  BY <1>1, <1>3, WalkFacts
<1>5. curr # NIL /\ l[curr] # NIL /\ prev \in spine /\ curr \in Allocated
  BY <1>1, <1>3, <1>4 DEF Walks
<1>6. prev \in Allocated /\ prev \in Nodes
  <2>1. Binary(l, r, tree.parent, Allocated, root)
    BY <1>4 DEF Morris
  <2>2. l[curr] \in Allocated
    BY <1>5, <2>1 DEF Binary
  <2>3. QED
    BY <1>4, <1>5, <2>1, <2>2, SpineClosed
<1>7. CASE Onward
  <2>1. prev' = cr[prev] /\ tree' = tree /\ pc' = pc /\ curr' = curr /\ printed' = printed
        /\ cr[prev] \notin {NIL, curr}
    BY <1>7 DEF Seek, Onward, right
  <2>2. cr[prev] \in spine
    <3> HIDE DEF l, r, cr, P
    <3>1. QED
      BY <1>4, <1>5, <2>1, SpineGoesOn
  <2>3. Walks(before, tree, Allocated, root, curr, cr[prev], "seek", P, open)
    BY <1>4, <1>5, <2>2 DEF Walks
  <2>4. Walks(before', tree', Allocated', root', curr', prev', pc', Outputs(printed'), open)
    BY <1>1, <1>2, <2>1, <2>3
  <2>5. QED
    BY <2>4 DEF WalkInv
<1>8. CASE right(prev) = NIL
  <2>1. tree' = Thread(curr) /\ curr' = left(curr) /\ pc' = "print" /\ prev' = prev
        /\ printed' = printed
    BY <1>5, <1>8 DEF Seek, Onward
  <2>2. /\ tree'.parent = tree.parent /\ tree'.child["left"] = l
        /\ \A y \in Nodes : cr2[y] = IF y = prev THEN curr ELSE cr[y]
    BY <1>4, <1>6, <2>1, ThreadFields
  <2>3. cr[prev] = NIL /\ curr' = l[curr]
    BY <1>4, <1>8, <2>1 DEF left, right
  <2>4. Morris(l, r, tree.parent, Allocated, root, open \cup {curr}, cr2, l[curr], P)
    <3>1. Relinked(Allocated, cr, prev, curr, cr2)
      BY <1>4, <2>2 DEF Relinked
    <3>2. Morris(l, r, tree.parent, Allocated, root, open, cr, curr, P)
      BY <1>4
    <3>3. curr # NIL /\ l[curr] # NIL /\ prev \in Spine(r, Allocated, l[curr]) /\ cr[prev] = NIL
      BY <1>5, <2>3
    <3> HIDE DEF l, r, cr, cr2, P, spine
    <3>4. QED
      BY <3>1, <3>2, <3>3, MorrisLays
  <2>5. \A y \in Nodes \ Allocated : cr2[y] = r[y]
    BY <1>4, <1>6, <2>2
  <2>6. Walks(before, tree', Allocated, root, l[curr], prev, "print", P, open \cup {curr})
    BY <1>4, <2>2, <2>4, <2>5 DEF Walks
  <2>7. Walks(before', tree', Allocated', root', curr', prev', pc', Outputs(printed'),
              open \cup {curr})
    BY <1>1, <1>2, <2>1, <2>3, <2>6
  <2>8. QED
    BY <2>7 DEF WalkInv
<1>9. CASE right(prev) = curr
  <2>1. tree' = Thread(NIL) /\ curr' = cr2[curr] /\ pc' = "print" /\ prev' = prev
        /\ printed' = Append(printed, curr)
    BY <1>5, <1>9 DEF Seek, Onward, Unthread
  <2>2. /\ tree'.parent = tree.parent /\ tree'.child["left"] = l
        /\ \A y \in Nodes : cr2[y] = IF y = prev THEN NIL ELSE cr[y]
    BY <1>4, <1>6, <2>1, ThreadFields
  <2>3. cr[prev] = curr
    BY <1>9 DEF right
  <2>4. Morris(l, r, tree.parent, Allocated, root, open \ {curr}, cr2, cr2[curr], P \cup {curr})
    <3>1. Relinked(Allocated, cr, prev, NIL, cr2)
      BY <1>4, <2>2 DEF Relinked
    <3>2. P \subseteq P \cup {curr} /\ curr \in P \cup {curr}
      OBVIOUS
    <3>3. Morris(l, r, tree.parent, Allocated, root, open, cr, curr, P)
      BY <1>4
    <3>4. curr # NIL /\ l[curr] # NIL /\ prev \in Spine(r, Allocated, l[curr]) /\ cr[prev] = curr
      BY <1>5, <2>3
    <3> HIDE DEF l, r, cr, cr2, P, spine
    <3>5. QED
      BY <3>1, <3>2, <3>3, <3>4, MorrisUnlays
  <2>5. \A y \in Nodes \ Allocated : cr2[y] = r[y]
    BY <1>4, <1>6, <2>2
  <2>6. Outputs(printed') = P \cup {curr}
    BY <1>4, <1>5, <2>1, OutputsGrow
  <2>7. Walks(before, tree', Allocated, root, cr2[curr], prev, "print", P \cup {curr},
              open \ {curr})
    BY <1>4, <1>5, <2>2, <2>4, <2>5 DEF Walks
  <2>8. Walks(before', tree', Allocated', root', curr', prev', pc', Outputs(printed'),
              open \ {curr})
    BY <1>1, <1>2, <2>1, <2>6, <2>7
  <2>9. QED
    BY <2>8 DEF WalkInv
<1>10. QED
  BY <1>7, <1>8, <1>9 DEF Seek

LEMMA WalkInvNext ==
  TypeInv /\ TreeInv /\ SoundBetweenCalls /\ WalkInv /\ [Next]_vars => WalkInv'
<1> SUFFICES ASSUME TypeInv, TreeInv, SoundBetweenCalls, WalkInv, [Next]_vars PROVE WalkInv'
  OBVIOUS
<1>1. CASE UNCHANGED vars
  <2>1. Allocated' = Allocated
    BY <1>1 DEF vars, Allocated
  <2>2. QED
    BY <1>1, <2>1 DEF vars, WalkInv
<1>2. ASSUME pc' \notin {"print", "seek"} PROVE WalkInv'
  BY <1>2 DEF WalkInv
<1>3. ASSUME NEW k \in Keys, InsertEnter(k) PROVE pc' \notin {"print", "seek"}
  BY <1>3 DEF InsertEnter
<1>4. ASSUME Insertion PROVE pc' \notin {"print", "seek"}
  BY <1>4 DEF Insertion, Descend, Case1, Case2, Case3, Case4, Case5
<1>5. ASSUME rb_tree_destroy PROVE pc' \notin {"print", "seek"}
  BY <1>5 DEF rb_tree_destroy
<1>6. QED
  BY <1>1, <1>2, <1>3, <1>4, <1>5, PrintEnterWalks, PrintNodeWalks, SeekWalks DEF Next

\* The traversal of a tree takes up every thread that it lays and prints every node,
\* as long as no call spoils the links.
THEOREM RbTreePrintRestores == Spec /\ []SoundBetweenCalls => []PrintRestores
<1>1. TypeInv /\ TreeInv /\ WalkInv => PrintRestores
  <2> SUFFICES ASSUME TypeInv, TreeInv, WalkInv, pc = "print", curr = NIL
               PROVE  tree.child = before /\ Outputs(printed) = Allocated
    BY DEF PrintRestores, Outputs
  <2>1. PICK open : Walks(before, tree, Allocated, root, curr, prev, pc, Outputs(printed), open)
    BY DEF WalkInv
  <2>2. /\ Morris(before["left"], before["right"], tree.parent, Allocated, root, open,
                   tree.child["right"], NIL, Outputs(printed))
        /\ tree.child["left"] = before["left"]
        /\ \A y \in Nodes \ Allocated : tree.child["right"][y] = before["right"][y]
        /\ Outputs(printed) \subseteq Allocated /\ TreeOK(tree)
    BY <2>1, WalkFacts
  <2>3. /\ Allocated \subseteq Outputs(printed)
        /\ \A y \in Allocated : tree.child["right"][y] = before["right"][y]
    BY <2>2, MorrisEnds
  <2>4. tree.child \in [Sides -> Link] /\ before \in [Sides -> Link]
    BY <2>2, TypeOKParts DEF TypeInv, TreeOK
  <2>5. tree.child["right"] = before["right"]
    <3>1. tree.child["right"] \in Link /\ before["right"] \in Link
      BY <2>4 DEF Sides
    <3>2. \A y \in Nodes : tree.child["right"][y] = before["right"][y]
      BY <2>2, <2>3
    <3>3. QED
      BY <3>1, <3>2 DEF Link
  <2>6. tree.child = before
    BY <2>2, <2>4, <2>5 DEF Sides
  <2>7. QED
    BY <2>2, <2>3, <2>6
<1>2. Init => WalkInv
  BY DEF Init, WalkInv
<1>3. QED
  BY <1>1, <1>2, TypeInvInit, TypeInvNext, TreeInvInit, TreeInvNext, WalkInvNext, PTL DEF Spec
================================================================================
