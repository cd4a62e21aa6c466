------------------------------ MODULE MCRooting ------------------------------
(***************************************************************************)
(* The compiler and the evaluator of FexRooting over small arenas, short   *)
(* sources and small programs.                                             *)
(***************************************************************************)
EXTENDS FexRooting

Hosts == {"do_string", "try_compile"}

\* Nested lists, calls, function literals, modules and control statements; one
\* operator, by itself; and a sequence of declarations.
Nested ==
  {"node", "number", "literal", "group", "list", "element", "fn", "parameter", "call", "argument",
   "statement", "return", "if", "else", "while", "braces", "module", "import", "nothing"}
Operator == {"node", "unary", "binary", "unequal", "assign", "dot", "call"}
Declarations ==
  {"node", "nodes", "string", "unary", "let", "export", "named", "exported", "parameter",
   "list", "element", "import"}

None == <<"none", "none">>
Compiled(hosts, syntax, n) ==
  [host : hosts, syntax : {syntax}, fuel : {n}, program : {None}, collections : {1}]

Compilations ==
  Compiled({"do_string"}, Nested, 5) \cup Compiled({"try_compile"}, Nested, 4)
  \cup Compiled(Hosts, Operator, 2) \cup Compiled({"do_string"}, Declarations, 5)

\* Several operators in one expression.
Operators == Compiled({"do_string"}, {"node", "binary"}, 3)

-----------------------------------------------------------------------------
(* Programs  { let x = [..]; let f = fn(p) maker; consumer }: what a         *)
(* function gives back, and what is done with the value of a call of f.      *)

P == Var("p")
X == Var("x")
New == Prim("makemap", <<>>)
Do(es) == Prim("do", es)
List(es) == Prim("list", es)
Pair(a, b) == Prim("cons", <<a, b>>)
If(c, a, b) == Prim("if", <<c, a, b>>)
Back(e) == Prim("return", <<e>>)

Makers ==
  [list |-> List(<<P, New>>),
   pair |-> Pair(P, New),
   early |-> Do(<<If(Literal, P, If(P, Back(List(<<P>>)), P)), Literal>>),
   closure |-> Fn("inner"),
   global |-> Do(<<Set("g", List(<<P>>)), Back(Var("g"))>>),
   loop |-> Do(<<Prim("while", <<P, Do(<<Set("g", Pair(P, Var("g"))), Set("p", Literal)>>)>>), Var("g")>>),
   param |-> P,
   local |-> Do(<<Let("y", List(<<P>>)), Var("y")>>),
   block |-> Do(<<Let("y", List(<<P>>)), Pair(Var("y"), Var("y"))>>)]

Result == Apply(Var("f"), <<New>>)

Consumers ==
  [value |-> Result,
   let |-> Do(<<Let("z", Result), New, Var("z")>>),
   set |-> Do(<<Set("g", Result), New, Var("g")>>),
   list |-> List(<<Result, Result>>),
   first |-> Pair(Result, New),
   second |-> Pair(New, Result),
   is |-> Prim("is", <<Result, New>>),
   car |-> Pair(Prim("car", <<List(<<Result>>)>>), New),
   setcdr |-> Do(<<Prim("setcdr", <<X, Result>>), New, X>>),
   setcdr_of |-> Do(<<Prim("setcdr", <<Result, New>>), X>>),
   callee |-> Apply(Result, <<New>>),
   return |-> Back(Result),
   global |-> List(<<Let("g", Result)>>),
   rebind |-> Apply(Var("f"), <<Set("f", Literal)>>),
   if |-> If(Result, New, Literal),
   append |-> Prim("append", <<List(<<New>>), List(<<Result>>)>>),
   single |-> Prim("append", <<List(<<Result>>)>>),
   reverse |-> Prim("reverse", <<List(<<New, Result>>)>>),
   map |-> Prim("map", <<Var("f"), List(<<New, New>>)>>),
   filter |-> Prim("filter", <<Var("f"), List(<<New, New>>)>>),
   fold |-> Prim("fold", <<Var("f"), New, List(<<New, New>>)>>)]

Keys == ((DOMAIN Makers) \X (DOMAIN Consumers)) \cup {None}

MCPrograms ==
  [k \in Keys |->
     IF k = None THEN [main |-> Literal, fns |-> <<>>]
     ELSE [main |-> Do(<<Let("x", List(<<New>>)), Let("f", Fn("mk")), Consumers[k[2]]>>),
           fns |-> [mk |-> [params |-> <<"p">>, body |-> Makers[k[1]]],
                    inner |-> [params |-> <<"q">>, body |-> Pair(P, Var("q"))]]]]

Evaluated(ks) == [host : {"try_eval"}, syntax : {{}}, fuel : {0}, program : ks, collections : {1}]

\* The value of a parameter or a local variable, given back by its name, is on
\* no root stack.  These uses of it allocate before they root it.
Unrooted ==
  ({"param", "local"} \X {"first", "second", "is", "return"})
  \cup ({"local"} \X {"setcdr_of", "map", "fold"})

\* The list of the free variables of a function whose block has a let.
FreeList == {<<"block", "value">>}

\* The callee is assigned while its arguments are evaluated.
Rebound == {<<"pair", "rebind">>}

Evaluations ==
  Evaluated((({"pair"} \X (DOMAIN Consumers))
             \cup (((DOMAIN Makers) \ {"block"}) \X {"list"})
             \cup {<<"closure", "callee">>, <<"param", "fold">>}
             \cup ({"local"} \X {"let", "set", "append", "filter"})) \ Rebound)

MCSources == Compilations \cup Evaluations
=============================================================================
