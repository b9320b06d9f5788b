-------------------------------- MODULE ListOps --------------------------------
(***************************************************************************)
(* include/ckit/list.h: circular lists with links in both directions.  The *)
(* anchor of a list is a node of its ring.  L is the memory that holds the *)
(* nodes: their fields next and prev.                                      *)
(***************************************************************************)

\* INIT_LIST of every node.
INIT_LIST(Nodes) == [next |-> [n \in Nodes |-> n], prev |-> [n \in Nodes |-> n]]

list_add_front(L, anchor, to_add) ==
  [next |-> [L.next EXCEPT ![to_add] = L.next[anchor], ![anchor] = to_add],
   prev |-> [L.prev EXCEPT ![to_add] = anchor, ![L.next[anchor]] = to_add]]

list_add_back(L, anchor, to_add) ==
  [next |-> [L.next EXCEPT ![to_add] = anchor, ![L.prev[anchor]] = to_add],
   prev |-> [L.prev EXCEPT ![to_add] = L.prev[anchor], ![anchor] = to_add]]

\* The slip of leaving the link back from the successor.
list_del_OneWay(L, to_del) ==
  [next |-> [L.next EXCEPT ![L.prev[to_del]] = L.next[to_del], ![to_del] = to_del],
   prev |-> [L.prev EXCEPT ![to_del] = to_del]]

\* A deleted node is an empty list of its own.
list_del(L, to_del) ==
  [next |-> [L.next EXCEPT ![L.prev[to_del]] = L.next[to_del], ![to_del] = to_del],
   prev |-> [L.prev EXCEPT ![L.next[to_del]] = L.prev[to_del], ![to_del] = to_del]]

list_move(L, to_move, anchor) == list_add_front(list_del(L, to_move), anchor, to_move)

list_empty(L, list) == L.next[list] = list

list_front(L, list) == L.next[list]
================================================================================
