-------------------------------- MODULE RBTree --------------------------------
(***************************************************************************)
(* The intrusive tree behind timers and dictionaries                       *)
(* (src/Core/ADT/RBTree.cpp), operation by operation on the pointers of    *)
(* the nodes, which belong to the user of the tree and outlive it.         *)
(*                                                                         *)
(* insert() walks down through a reference to Root itself, so the walk     *)
(* moves Root, and the new node ends as Root instead of as a child.        *)
(* Everything below follows from that: no node ever has a child, the       *)
(* Parent pointers form the only structure, and the rotations and the      *)
(* recolouring are never reached.  They are not modelled: an operation     *)
(* that would start them raises the flag "fixup" of the tree.              *)
(***************************************************************************)

CONSTANTS
  Nodes,
  Null     \* nullptr

ASSUME NodesAssumption == Null \notin Nodes

Trees == [root : Nodes \cup {Null},
          left : [Nodes -> Nodes \cup {Null}],
          right : [Nodes -> Nodes \cup {Null}],
          parent : [Nodes -> Nodes \cup {Null}],
          black : [Nodes -> BOOLEAN],
          fixup : BOOLEAN]

\* RBTree() and RBNode(): a node outside a tree is its own parent.
NewTree ==
  [root |-> Null,
   left |-> [n \in Nodes |-> Null],
   right |-> [n \in Nodes |-> Null],
   parent |-> [n \in Nodes |-> n],
   black |-> [n \in Nodes |-> FALSE],
   fixup |-> FALSE]

\* The last node on the way down from m of a node that compares greater than
\* the nodes of lesser, and not greater than the others.
Bottom(t, m, lesser) ==
  LET below(p) == IF p \in lesser THEN t.right[p] ELSE t.left[p]
      last[p \in Nodes] == IF below(p) = Null THEN p ELSE last[below(p)]
  IN  last[m]

\* insertColor: a red parent would start the loop of rotations.
InsertColor(t, n) ==
  LET p == t.parent[n] IN
  IF p # Null /\ ~t.black[p]
    THEN [t EXCEPT !.fixup = TRUE]
    ELSE [t EXCEPT !.black[t.root] = TRUE]

\* Mutant: insert as it must have been meant, with the walk beside Root and
\* the new node linked below its parent.
InsertBelow(t, n, lesser) ==
  LET p == IF t.root = Null THEN Null ELSE Bottom(t, t.root, lesser)
      u == [t EXCEPT !.parent[n] = p, !.left[n] = Null, !.right[n] = Null]
  IN  InsertColor(IF p = Null THEN [u EXCEPT !.root = n]
                  ELSE IF p \in lesser THEN [u EXCEPT !.right[p] = n]
                  ELSE [u EXCEPT !.left[p] = n],
                  n)

\* insert: lesser are the nodes the new one compares greater than.
Insert(t, n, lesser) ==
  LET p == IF t.root = Null THEN Null ELSE Bottom(t, t.root, lesser)
  IN  InsertColor([t EXCEPT !.root = n, !.parent[n] = p,
                            !.left[n] = Null, !.right[n] = Null], n)

\* remove: a node with a child would be replaced by it and the path recoloured.
Remove(t, n) ==
  LET p == t.parent[n]
      u == [t EXCEPT !.parent[n] = n, !.left[n] = Null, !.right[n] = Null]
  IN  IF t.left[n] # Null \/ t.right[n] # Null THEN [t EXCEPT !.fixup = TRUE]
      ELSE IF p = Null THEN [u EXCEPT !.root = Null]
      ELSE IF t.left[p] = n THEN [u EXCEPT !.left[p] = Null]
      ELSE [u EXCEPT !.right[p] = Null]

Leftmost(t, m) ==
  LET first[p \in Nodes] == IF t.left[p] = Null THEN p ELSE first[t.left[p]]
  IN  first[m]

\* begin.
Begin(t) == IF t.root = Null THEN Null ELSE Leftmost(t, t.root)

\* next: null for a node outside every tree.
NextOf(t, n) ==
  LET up[p \in Nodes] ==
        LET q == t.parent[p] IN IF q = Null \/ p # t.right[q] THEN q ELSE up[q]
  IN  IF t.parent[n] = n THEN Null
      ELSE IF t.right[n] # Null THEN Leftmost(t, t.right[n])
      ELSE up[n]

\* No node has a child, and every node that was ever Root is black.
Flat(t) ==
  /\ \A n \in Nodes : t.left[n] = Null /\ t.right[n] = Null
  /\ t.root # Null => t.black[t.root]
===============================================================================
