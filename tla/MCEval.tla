------------------------------- MODULE MCEval -------------------------------
(***************************************************************************)
(* Small programs for FeEval.  The scoping programs have the shape         *)
(*   { s1; let f = fn(p) body; s2; e; }                                    *)
(* so that f may capture, shadow or miss a variable that s1 or s2 declares *)
(* or assigns.                                                             *)
(***************************************************************************)
EXTENDS FeEval

MCSymbol == {"x", "y", "f", "g", "p", "q"}

Atoms == {Num(1), Var("x"), Var("y")}
Calls == {Call(Var("f"), <<>>), Call(Var("f"), <<Num(2)>>), Call(Call(Var("f"), <<Num(3)>>), <<>>)}

\* Bodies of f, without a let in the last place.
Inner == {Var("x"), Var("p"), Do(<<Set("x", Var("p")), Var("x")>>)}
Body ==
  Inner
  \cup {Fn(<<>>, i) : i \in Inner}
  \cup {Do(<<Let("x", v), i>>) : v \in {Var("p"), Var("x")}, i \in Inner}
  \cup {Do(<<Let("y", Fn(<<"x">>, i)), Call(Var("y"), <<Num(4)>>)>>) : i \in Inner}
  \cup {Do(<<Let("y", Fn(<<"q">>, i)), Call(Var("y"), <<Num(4)>>)>>) : i \in Inner}
  \cup {Do(<<If(Var("p"), Return(i), NilForm), Num(5)>>) : i \in Inner}
  \cup {Do(<<While(Prim("pos", Var("p")),
                   Do(<<Let("x", Var("p")), Set("p", Prim("dec", Var("p"))), Set("y", Var("x"))>>)),
             Var("y")>>)}

\* Statements, without a let in the last place of a block.
Statement ==
  {Let("x", Num(1)), Let("x", Var("y")), Let("y", Var("x")), Set("x", Num(1)), Set("y", Num(9)),
   Do(<<Let("x", Num(7)), Set("y", Var("x"))>>),
   If(Var("x"), Do(<<Let("y", Num(6)), Set("x", Var("y"))>>), Set("y", Num(8)))}

\* A let in the last place of the source binds a global, and not yet for its
\* own value.
TopLevel ==
  LET last == {Let("x", v) : v \in Atoms \ {Var("x")}}
  IN last \cup {Do(<<s, l>>) : s \in Statement, l \in last}

ScopingPrograms ==
  {Do(<<s1, Let("f", Fn(<<"p">>, b)), s2, e>>) :
     s1 \in Statement, b \in Body,
     s2 \in Statement \cup {Call(Var("f"), <<Num(2)>>), Let("y", Call(Var("f"), <<Num(2)>>))},
     e \in {Var("x"), Var("y")} \cup Calls}
  \cup TopLevel

\* Tail-recursive programs that call themselves n times.
More == Prim("pos", Var("x"))
Less == Prim("dec", Var("x"))
Loops(n) ==
  LET run(b) == Do(<<Let("f", Fn(<<"x">>, b)), Let("y", Call(Var("f"), <<Num(n)>>)), Var("y")>>) IN
  { run(If(More, Call(Var("f"), <<Less>>), Num(7))),
    run(Do(<<If(Prim("not", More), Return(Num(7)), NilForm), Return(Call(Var("f"), <<Less>>))>>)),
    run(Do(<<Let("y", Less), If(More, Do(<<Set("y", Less), Call(Var("f"), <<Var("y")>>)>>), Num(7))>>)),
    Do(<<Let("g", NilForm), Let("f", Fn(<<"x">>, If(More, Call(Var("g"), <<Less>>), Num(7)))),
         Set("g", Fn(<<"x">>, If(More, Return(Call(Var("f"), <<Less>>)), Num(7)))),
         Call(Var("f"), <<Num(n)>>)>>),
    run(If(More, Call(Fn(<<"y">>, Call(Var("f"), <<Var("y")>>)), <<Less>>), Num(7))) }

LoopPrograms == UNION {Loops(n) : n \in 0 .. 12}

MCPrograms == ScopingPrograms \cup LoopPrograms

=============================================================================
