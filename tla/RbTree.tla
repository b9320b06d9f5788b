--------------------------------- MODULE RbTree ---------------------------------
(***************************************************************************)
(* src/rbtree.c: insertion into a red-black tree, its in-order traversal   *)
(* and its destruction, one iteration of a loop or one case per step.      *)
(*                                                                         *)
(* tree is the nodes' pointers and colours: child["left"], child["right"], *)
(* parent and color.  Nodes are numbered in the order in which they are    *)
(* allocated; 0 is NULL.  A write through NULL ends the program.           *)
(***************************************************************************)
EXTENDS Integers, Sequences, FiniteSets

CONSTANTS
  MaxNodes,     \* bound: the nodes that are allocated
  Keys,
  key_compare   \* tree->ops->key_compare, a function of two keys

NIL == 0
Nodes == 1..MaxNodes
Sides == {"left", "right"}

ASSUME RbTreeAssumption ==
  /\ MaxNodes \in Nat
  /\ key_compare \in [Keys \X Keys -> Int]

VARIABLES
  tree,   \* the links and colours of the nodes
  root,   \* tree->root
  keys,   \* the keys of the nodes, in the order of their allocation
  pc,     \* what the caller is doing
  arg,    \* the key that is being inserted
  node,   \* the node that the insertion cases work on
  curr, prev,  \* the locals of the descent and of the traversal
  printed,     \* the nodes that rb_tree_print_in_order has printed
  before       \* the links when it began (auxiliary)

vars == <<tree, root, keys, pc, arg, node, curr, prev, printed, before>>

Allocated == 1..Len(keys)
left(x) == tree.child["left"][x]
right(x) == tree.child["right"][x]

Link == [Nodes -> Nodes \cup {NIL}]

TypeOK ==
  /\ tree \in [child : [Sides -> Link], parent : Link, color : [Nodes -> {"black", "red"}]]
  /\ {root, node, curr, prev} \subseteq Nodes \cup {NIL}
  /\ keys \in Seq(Keys) /\ Len(keys) <= MaxNodes
  /\ root = NIL <=> keys = <<>>
  /\ pc \in {"idle", "descend", "case1", "case4", "case5", "print", "seek", "destroyed", "crash"}
  /\ arg \in Keys
  /\ printed \in Seq(Nodes)
  /\ before \in [Sides -> Link]

\* DEFINE_TREE, and the fields that rb_node_alloc gives to every node.
Init ==
  /\ tree = [child |-> [s \in Sides |-> [x \in Nodes |-> NIL]],
             parent |-> [x \in Nodes |-> NIL],
             color |-> [x \in Nodes |-> "red"]]
  /\ root = NIL
  /\ keys = <<>>
  /\ pc = "idle"
  /\ arg \in Keys
  /\ node = NIL /\ curr = NIL /\ prev = NIL
  /\ printed = <<>>
  /\ before = tree.child

--------------------------------------------------------------------------------
(* bst_insert.                                                             *)

\* The slip of keeping the first node in the local variable only.
InsertEnter_Rootless(k) ==
  /\ pc = "idle" /\ root = NIL /\ keys = <<>> /\ arg' = k
  /\ keys' = Append(keys, k) /\ node' = Len(keys') /\ pc' = "case1"
  /\ UNCHANGED <<tree, root, curr, prev, printed, before>>

InsertEnter(k) ==
  /\ pc = "idle" /\ Len(keys) < MaxNodes
  /\ arg' = k
  /\ IF root = NIL
     THEN /\ keys' = Append(keys, k)
          /\ root' = Len(keys')
          /\ node' = root'
          /\ pc' = "case1"
          /\ UNCHANGED curr
     ELSE /\ curr' = root
          /\ pc' = "descend"
          /\ UNCHANGED <<keys, root, node>>
  /\ UNCHANGED <<tree, prev, printed, before>>

Turn(k1, k2) == IF key_compare[k1, k2] < 0 THEN "left" ELSE "right"

\* One iteration: down to a child, or the new node where there is none.
Descend ==
  LET side == Turn(arg, keys[curr])
      n == Len(keys) + 1
  IN  /\ pc = "descend"
      /\ IF tree.child[side][curr] # NIL
         THEN curr' = tree.child[side][curr] /\ UNCHANGED <<tree, keys, node, pc>>
         ELSE /\ keys' = Append(keys, arg)
              /\ tree' = [tree EXCEPT !.child[side][curr] = n, !.parent[n] = curr]
              /\ node' = n
              /\ pc' = "case1"
              /\ UNCHANGED curr
      /\ UNCHANGED <<root, arg, prev, printed, before>>

--------------------------------------------------------------------------------
(* The insertion cases.                                                    *)

parent(x) == tree.parent[x]
grandparent(x) == IF parent(x) = NIL THEN NIL ELSE parent(parent(x))

uncle(x) ==
  LET gp == grandparent(x)
  IN  IF gp = NIL THEN NIL ELSE IF parent(x) = left(gp) THEN right(gp) ELSE left(gp)

\* The four rotations: x turns in direction dir below its child on the other
\* side, which becomes the child of x's parent on the given side.
Rotate(t, side, dir, x) ==
  LET other == IF dir = "left" THEN "right" ELSE "left"
      c == t.child[other][x]
      p == t.parent[x]
      up == [t.child EXCEPT ![side][p] = c]
      down == [up EXCEPT ![other][x] = up[dir][c]]
  IN  IF x = NIL \/ c = NIL THEN t
      ELSE [t EXCEPT !.child = [down EXCEPT ![dir][c] = x],
                     !.parent = [@ EXCEPT ![c] = p, ![x] = c]]

Paint(color, xs) == [x \in Nodes |-> IF x \in xs THEN color ELSE tree.color[x]]

\* The slip of leaving the root as it was coloured last.
Case1_Colourless ==
  pc = "case1" /\ parent(node) = NIL /\ pc' = "idle"
  /\ UNCHANGED <<tree, root, keys, arg, node, curr, prev, printed, before>>

Case1 ==
  /\ pc = "case1" /\ parent(node) = NIL
  /\ tree' = [tree EXCEPT !.color = Paint("black", {node})]
  /\ pc' = "idle"
  /\ UNCHANGED <<root, keys, arg, node, curr, prev, printed, before>>

\* The slip of stopping below any parent.
Case2_Unchecked ==
  pc = "case1" /\ parent(node) # NIL /\ pc' = "idle"
  /\ UNCHANGED <<tree, root, keys, arg, node, curr, prev, printed, before>>

Case2 ==
  /\ pc = "case1" /\ parent(node) # NIL
  /\ tree.color[parent(node)] = "black"
  /\ pc' = "idle"
  /\ UNCHANGED <<tree, root, keys, arg, node, curr, prev, printed, before>>

RedUncle == uncle(node) # NIL /\ tree.color[uncle(node)] = "red"

Case3 ==
  /\ pc = "case1" /\ parent(node) # NIL
  /\ tree.color[parent(node)] = "red"
  /\ IF RedUncle
     THEN /\ tree' = [tree EXCEPT !.color =
                        [Paint("black", {parent(node), uncle(node)})
                           EXCEPT ![grandparent(node)] = "red"]]
          /\ node' = grandparent(node)
          /\ UNCHANGED pc
     ELSE /\ pc' = IF grandparent(node) = NIL THEN "crash" ELSE "case4"
          /\ UNCHANGED <<tree, node>>
  /\ UNCHANGED <<root, keys, arg, curr, prev, printed, before>>

Case4 ==
  LET p == parent(node)
      g == grandparent(node)
  IN  /\ pc = "case4"
      /\ \/ /\ right(p) = node /\ p = left(g)
            /\ tree' = Rotate(tree, "left", "left", p)
            /\ node' = tree'.child["left"][node]
         \/ /\ right(p) # node \/ p # left(g)
            /\ left(p) = node /\ p = right(g)
            /\ tree' = Rotate(tree, "right", "right", p)
            /\ node' = tree'.child["right"][node]
         \/ /\ right(p) # node \/ p # left(g)
            /\ left(p) # node \/ p # right(g)
            /\ UNCHANGED <<tree, node>>
      /\ pc' = IF node' = NIL THEN "idle" ELSE "case5"
      /\ UNCHANGED <<root, keys, arg, curr, prev, printed, before>>

\* The rotation writes to the parent of the grandparent.
Case5 ==
  LET p == parent(node)
      g == grandparent(node)
      dir == IF left(p) = node THEN "right" ELSE "left"
      side == IF left(p) = node THEN "left" ELSE "right"
      painted == [tree EXCEPT !.color = [Paint("black", {p}) EXCEPT ![g] = "red"]]
  IN  /\ pc = "case5"
      /\ IF tree.child[side][g] # NIL /\ parent(g) = NIL
         THEN pc' = "crash" /\ UNCHANGED tree
         ELSE pc' = "idle" /\ tree' = Rotate(painted, side, dir, g)
      /\ UNCHANGED <<root, keys, arg, node, curr, prev, printed, before>>

--------------------------------------------------------------------------------
(* rb_tree_print_in_order, which threads the tree while it walks it.       *)

PrintEnter ==
  /\ pc = "idle" /\ root # NIL
  /\ curr' = root
  /\ printed' = <<>>
  /\ before' = tree.child
  /\ pc' = "print"
  /\ UNCHANGED <<tree, root, keys, arg, node, prev>>

\* One iteration of the outer loop.
PrintNode ==
  /\ pc = "print"
  /\ \/ /\ curr = NIL
        /\ pc' = "idle"
        /\ UNCHANGED <<curr, prev, printed>>
     \/ /\ curr # NIL /\ left(curr) = NIL
        /\ printed' = Append(printed, curr)
        /\ curr' = right(curr)
        /\ UNCHANGED <<pc, prev>>
     \/ /\ curr # NIL /\ left(curr) # NIL
        /\ prev' = left(curr)
        /\ pc' = "seek"
        /\ UNCHANGED <<curr, printed>>
  /\ UNCHANGED <<tree, root, keys, arg, node, before>>

Thread(to) == [tree EXCEPT !.child["right"][prev] = to]

\* The slip of leaving the thread in the tree.
Unthread_Kept == tree

Unthread == Thread(NIL)

\* The slip of overlooking the thread that leads back to curr.
Onward_Blind == right(prev) # NIL

\* The inner loop goes on.
Onward == right(prev) \notin {NIL, curr}

\* The inner loop, and the thread that is laid or taken up at its end.
Seek ==
  /\ pc = "seek"
  /\ \/ /\ Onward
        /\ prev' = right(prev)
        /\ UNCHANGED <<tree, pc, curr, printed>>
     \/ /\ right(prev) = NIL
        /\ tree' = Thread(curr)
        /\ curr' = left(curr)
        /\ pc' = "print"
        /\ UNCHANGED <<prev, printed>>
     \/ /\ right(prev) = curr
        /\ tree' = Unthread
        /\ printed' = Append(printed, curr)
        /\ curr' = tree'.child["right"][curr]
        /\ pc' = "print"
        /\ UNCHANGED prev
  /\ UNCHANGED <<root, keys, arg, node, before>>

--------------------------------------------------------------------------------

\* The tree is not used again.  That rb_tree_destroy recurs along the links and
\* frees the nodes it meets is left out.
rb_tree_destroy ==
  /\ pc = "idle"
  /\ pc' = "destroyed"
  /\ UNCHANGED <<tree, root, keys, arg, node, curr, prev, printed, before>>

Insertion == Descend \/ Case1 \/ Case2 \/ Case3 \/ Case4 \/ Case5

Next ==
  \/ \E k \in Keys : InsertEnter(k)
  \/ Insertion
  \/ PrintEnter \/ PrintNode \/ Seek
  \/ rb_tree_destroy

Spec == Init /\ [][Next]_vars

\* A call that has begun goes on.
FairSpec == Spec /\ WF_vars(Insertion \/ PrintNode \/ Seek)

--------------------------------------------------------------------------------
(* Properties.                                                             *)

\* The links are those of a tree: a node's children have it as their parent, and
\* every other node than the root is the child of its parent on one side.  A rotation
\* breaks this when it links below the wrong side of the great-grandparent, and when
\* the subtree that changes its place keeps its old parent.
Sound(child) ==
  /\ \A x \in Allocated, s \in Sides : child[s][x] # NIL => parent(child[s][x]) = x
  /\ \A x \in Allocated \ {root} :
       /\ parent(x) # NIL
       /\ \E s \in Sides : \A r \in Sides : child[r][parent(x)] = x <=> r = s

\* "Root is always black" (rbtree.c:323): between calls it has no parent and is
\* black, however far rb_tree_insert_case3 has climbed and whatever rotations did.
RootBlack == pc = "idle" /\ root # NIL => parent(root) = NIL /\ tree.color[root] = "black"

\* As long as the links are a tree's, no red node has a red child when an insertion
\* has returned: the cases repaint or rotate until the violation that the new node
\* may cause is gone.
NoRedRed ==
  pc = "idle" /\ Sound(tree.child) =>
    \A x \in Allocated : \A s \in Sides :
      tree.color[x] = "red" /\ tree.child[s][x] # NIL =>
         tree.color[tree.child[s][x]] = "black"

\* The traversal of a tree has taken up every thread it has laid, and has printed
\* every node.
PrintRestores ==
  pc = "print" /\ curr = NIL /\ Sound(before) =>
    tree.child = before /\ {printed[i] : i \in DOMAIN printed} = Allocated

\* Every call on a tree returns, or has crashed: neither the descent, nor the
\* insertion cases that climb the tree, nor the traversal of the threaded tree go
\* round in circles.
CallsReturn ==
  (pc # "idle" /\ Sound(IF pc \in {"print", "seek"} THEN before ELSE tree.child))
    ~> pc \in {"idle", "destroyed", "crash"}
================================================================================
