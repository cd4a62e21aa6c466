------------------------------ MODULE FeMapSpec ------------------------------
(***************************************************************************)
(* What the map API of fe.h promises to its callers: a finite function     *)
(* from names to values, whatever the table behind it does.  An operation  *)
(* that allocates may fail, and then changes nothing.                      *)
(***************************************************************************)
EXTENDS Naturals, Sequences, FiniteSets, Functions, SequencesExt

CONSTANTS Name, Value, Nil

VARIABLES
  content,
  reply    \* the last operation, with its arguments and its result

Init == content = <<>> /\ reply = [op |-> "none"]

Set ==
  \E k \in Name, v \in Value :
    /\ content' = [n \in DOMAIN content \cup {k} |-> IF n = k THEN v ELSE content[n]]
    /\ reply' = [op |-> "set", key |-> k, value |-> v]

Get ==
  /\ \E k \in Name :
       reply' = [op |-> "get", key |-> k, value |-> IF k \in DOMAIN content THEN content[k] ELSE Nil]
  /\ UNCHANGED content

Has ==
  /\ \E k \in Name : reply' = [op |-> "has", key |-> k, found |-> k \in DOMAIN content]
  /\ UNCHANGED content

Delete ==
  \E k \in Name :
    /\ content' = Restrict(content, DOMAIN content \ {k})
    /\ reply' = [op |-> "delete", key |-> k, found |-> k \in DOMAIN content]

Count ==
  /\ reply' = [op |-> "count", n |-> Cardinality(DOMAIN content)]
  /\ UNCHANGED content

\* Every name once, in an order that the caller cannot rely on.
Keys ==
  /\ \E s \in SetToSeqs(DOMAIN content) : reply' = [op |-> "keys", keys |-> s]
  /\ UNCHANGED content

Fail == reply' = [op |-> "error"] /\ UNCHANGED content

Next == Set \/ Get \/ Has \/ Delete \/ Count \/ Keys \/ Fail

Spec == Init /\ [][Next]_<<content, reply>>

=============================================================================
