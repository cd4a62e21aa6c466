------------------------------- MODULE MCHeap -------------------------------
(***************************************************************************)
(* Instances of FeHeap for TLC: a short text of one slab, a long one of    *)
(* two, and the empty text, which needs none.                              *)
(***************************************************************************)
EXTENDS FeHeap

MCSize == [t \in Text |-> CASE t = "long" -> 2 [] t = "x" -> 1 [] OTHER -> 0]

\* Values of every kind in four cells; symbols with their values in five cells
\* and one slab; strings made into symbols in seven cells.
MCHosts ==
  {[cells |-> 1 .. 4, slabs |-> {11, 12}, stack |-> 2, calls |-> {"cons", "string", "map"},
    texts |-> {"x", "long"}],
   [cells |-> 1 .. 5, slabs |-> {11}, stack |-> 4, calls |-> {"string", "symbol", "set"},
    texts |-> {"x", ""}],
   [cells |-> 1 .. 7, slabs |-> {11, 12}, stack |-> 5, calls |-> {"string", "intern"},
    texts |-> {"x"}]}

=============================================================================
