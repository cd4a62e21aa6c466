------------------------------ MODULE MCMemory ------------------------------
(***************************************************************************)
(* Instances of FeMemory: blocks of a few units, so that each request of   *)
(* each program is refused by some limit.                                  *)
(***************************************************************************)
EXTENDS FeMemory

MCSizes ==
  [k \in Kinds |->
     CASE k \in {"map", "slots", "text"} -> 2
       [] k = "source" -> 3
       [] OTHER -> 1]

\* A bound: maps are not mixed with spans and files, which take six blocks.
Apart ==
  \/ op \notin {"map", "resize"} /\ maps = {} /\ lost = {} /\ Cardinality(live) <= 6
  \/ op \notin {"span", "file"} /\ spans = {} /\ names = {} /\ \A a \in Arrays : array[a] = <<>>
=============================================================================
