------------------------------ MODULE MCProcess ------------------------------
(***************************************************************************)
(* Instances of FexProcess.                                                *)
(***************************************************************************)
EXTENDS FexProcess

Limit(n) == [s \in Stream |-> IF s = "out" THEN n ELSE 0]

\* With a deadline, a program that does anything: with input and one captured
\* stream, or with both streams; without one, cat, for an input that the pipes
\* cannot hold.
MCCalls ==
  [program : {"any"}, capture : {{"out"}}, input : {0, 1}, limit : {Limit(0), Limit(1)},
   deadline : {TRUE}, sigpipe : {FALSE}]
  \cup
  [program : {"any"}, capture : {Stream}, input : {0}, limit : {Limit(1)},
   deadline : {TRUE}, sigpipe : {FALSE}]
  \cup
  [program : {"any"}, capture : {{}}, input : {1}, limit : {Limit(0)},
   deadline : {TRUE}, sigpipe : {TRUE}]
  \cup
  [program : {"cat"}, capture : SUBSET Stream, input : {0, 7}, limit : {Limit(0), Limit(2)},
   deadline : {FALSE}, sigpipe : {FALSE}]

=============================================================================
