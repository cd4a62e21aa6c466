------------------------------- MODULE MCMark -------------------------------
(***************************************************************************)
(* Instances of FeMark: every heap of a few cells whose contents come from *)
(* the set Nodes.                                                          *)
(***************************************************************************)
EXTENDS FeMark, TLC

Blank == [kind |-> "leaf", car |-> Imm, cdr |-> Imm, kids |-> {}, host |-> FALSE]

Pair(a, d) == [Blank EXCEPT !.kind = "pair", !.car = a, !.cdr = d]
Link(d) == [Blank EXCEPT !.kind = "link", !.cdr = d]
Map(s) == [Blank EXCEPT !.kind = "map", !.kids = s]
Ptr(s) == [Blank EXCEPT !.kind = "ptr", !.kids = s]
Leaf == Blank
Free == [Blank EXCEPT !.kind = "free"]

CONSTANTS o1, o2, o3

\* Every pair of cells, so that every graph of pairs occurs, and each other kind
\* of cell; host pointers are NULL.
AllKinds ==
  {Pair(a, d) : a, d \in Obj}
  \cup {Pair(o1, Imm), Link(o1), Map({o1, o2}), Map({o2, o3}), Ptr({o2}), Leaf, Free}

=============================================================================
