------------------------------ MODULE FeLexical ------------------------------
(***************************************************************************)
(* The language as doc/FeX-lang.md describes it: the forms, the values, and *)
(* a machine that finds the meaning of a program under lexical scoping.     *)
(* A block opens a scope; a let extends it for its own value and for the    *)
(* forms after it; a function closes over all of its environment.           *)
(***************************************************************************)
EXTENDS Integers, Sequences, FiniteSets

CONSTANTS
  Symbol,    \* the names of variables
  Programs   \* the programs whose meaning is asked for

ASSUME LexicalAssumption == IsFiniteSet(Symbol)

VARIABLES
  program,   \* the program
  activity,  \* the forms being evaluated, innermost last
  memory,    \* the cells of the variables
  meaning    \* the value of the program, or None

lexvars == <<program, activity, memory, meaning>>

-----------------------------------------------------------------------------
(* Forms. *)

Num(n) == [op |-> "num", n |-> n]
NilForm == [op |-> "nil"]
Var(s) == [op |-> "var", name |-> s]
Let(s, e) == [op |-> "let", name |-> s, e |-> e]
Set(s, e) == [op |-> "set", name |-> s, e |-> e]
Do(es) == [op |-> "do", es |-> es]
If(c, a, b) == [op |-> "if", c |-> c, a |-> a, b |-> b]
While(c, e) == [op |-> "while", c |-> c, e |-> e]
Fn(params, e) == [op |-> "fn", params |-> params, e |-> e]
Call(f, args) == [op |-> "call", f |-> f, args |-> args]
Return(e) == [op |-> "return", e |-> e]
Prim(name, e) == [op |-> "prim", name |-> name, e |-> e]

\* The forms inside a form, and the names it mentions itself.
Children(e) ==
  CASE e.op \in {"let", "set", "return", "prim"} -> <<e.e>>
    [] e.op = "if" -> <<e.c, e.a, e.b>>
    [] e.op = "while" -> <<e.c, e.e>>
    [] e.op = "call" -> <<e.f>> \o e.args
Names(e) == IF e.op \in {"let", "set"} THEN {e.name} ELSE {}

-----------------------------------------------------------------------------
(* Values.  A return that is under way is a value of its own. *)

Nil == [t |-> "nil"]
Bool(b) == [t |-> IF b THEN "true" ELSE "false"]
Number(n) == [t |-> "num", n |-> n]
Ret(v) == [t |-> "ret", v |-> v]
Err == [t |-> "error"]
None == [t |-> "none"]

\* Only false and nil are falsey.
Truthy(v) == v.t \notin {"false", "nil"}

\* x - 1, x > 0 and !x.
Primitive(name, v) ==
  CASE name = "not" -> Bool(~Truthy(v))
    [] name # "not" /\ v.t # "num" -> Err
    [] name = "dec" /\ v.t = "num" -> Number(v.n - 1)
    [] name = "pos" /\ v.t = "num" -> Bool(v.n > 0)

RECURSIVE Listed(_)
Listed(S) == IF S = {} THEN <<>> ELSE LET x == CHOOSE x \in S : TRUE IN <<x>> \o Listed(S \ {x})

\* The cells of the global variables, one for each symbol, come first.
Globals == Listed(Symbol)
Global(s) == CHOOSE i \in 1 .. Len(Globals) : Globals[i] = s
NilCells == [i \in 1 .. Len(Globals) |-> Nil]

\* The cell of the first binding of s in a list of bindings.
Cell(s, bs) ==
  LET hits == {i \in 1 .. Len(bs) : bs[i][1] = s} IN
  IF hits = {} THEN Global(s) ELSE bs[CHOOSE i \in hits : \A j \in hits : i <= j][2]

\* Missing arguments are nil, extra ones are ignored.
Arguments(params, vs) == [i \in 1 .. Len(params) |-> IF i <= Len(vs) THEN vs[i] ELSE Nil]

-----------------------------------------------------------------------------
(* The machine.  An activity has a form, an environment (a list of          *)
(* bindings), and the values of its parts so far.                           *)

Activity(e, env) == [e |-> e, env |-> env, vs |-> <<>>]

act == activity[Len(activity)]
form == act.e
vs == act.vs
Known(n) == Len(vs) >= n

\* A part is evaluated in an environment.
Begin(e, env) == activity' = Append(activity, Activity(e, env)) /\ UNCHANGED <<memory, meaning>>

\* A form has the value v, which goes to the enclosing activity; an error ends
\* the program.
Yield(v, cells) ==
  LET n == IF v = Err THEN 0 ELSE Len(activity) - 1 IN
  /\ memory' = cells
  /\ activity' = [i \in 1 .. n |->
       IF i < n THEN activity[i] ELSE [activity[i] EXCEPT !.vs = Append(@, v)]]
  /\ meaning' = IF n = 0 THEN v ELSE None

\* A return leaves every form up to the call.
Leaving == vs # <<>> /\ vs[Len(vs)].t = "ret"

MeanReturn == Leaving /\ form.op # "call" /\ Yield(vs[Len(vs)], memory)

Going(op) == form.op = op /\ ~Leaving

MeanAtom ==
  \/ Going("num") /\ Yield(Number(form.n), memory)
  \/ Going("nil") /\ Yield(Nil, memory)
  \/ Going("var") /\ Yield(memory[Cell(form.name, act.env)], memory)
  \/ Going("fn") /\ Yield([t |-> "fn", env |-> act.env, params |-> form.params, e |-> form.e], memory)

MeanOne ==
  \/ \E op \in {"prim", "return", "set"} : Going(op) /\ ~Known(1) /\ Begin(form.e, act.env)
  \/ Going("prim") /\ Known(1) /\ Yield(Primitive(form.name, vs[1]), memory)
  \/ Going("return") /\ Known(1) /\ Yield(Ret(vs[1]), memory)
  \/ /\ Going("set") /\ Known(1)
     /\ Yield(Nil, [memory EXCEPT ![Cell(form.name, act.env)] = vs[1]])

MeanIf ==
  \/ Going("if") /\ ~Known(1) /\ Begin(form.c, act.env)
  \/ Going("if") /\ Len(vs) = 1 /\ Begin(IF Truthy(vs[1]) THEN form.a ELSE form.b, act.env)
  \/ Going("if") /\ Known(2) /\ Yield(vs[2], memory)

\* Condition and body alternate.
MeanWhile ==
  /\ Going("while")
  /\ IF Len(vs) % 2 = 0 THEN Begin(form.c, act.env)
     ELSE IF Truthy(vs[Len(vs)]) THEN Begin(form.e, act.env)
     ELSE Yield(IF Len(vs) > 1 THEN vs[Len(vs) - 1] ELSE Nil, memory)

\* A block; a let that stands alone is a block too.
MeanBlock ==
  LET es == IF form.op = "do" THEN form.es ELSE <<form>>
      i == Len(vs)
      new == Len(memory) + 1
      e == es[i + 1]
      inner == <<<<e.name, new>>>> \o act.env
      filled == IF i > 0 /\ es[i].op = "let"
                THEN [memory EXCEPT ![Cell(es[i].name, act.env)] = vs[i]] ELSE memory
  IN
  /\ form.op \in {"do", "let"} /\ ~Leaving
  /\ IF i = Len(es) THEN Yield(IF i = 0 THEN Nil ELSE vs[i], filled)
     ELSE IF e.op # "let"
     THEN /\ activity' = Append(activity, Activity(e, act.env))
          /\ memory' = filled /\ UNCHANGED meaning
     ELSE /\ activity' = Append([activity EXCEPT ![Len(activity)].env = inner], Activity(e.e, inner))
          /\ memory' = Append(filled, Nil) /\ UNCHANGED meaning

\* The function, the arguments, the body.
MeanCall ==
  LET n == Len(form.args) + 1
      f == vs[1]
      inner == [i \in 1 .. Len(f.params) |-> <<f.params[i], Len(memory) + i>>] \o f.env
  IN
  /\ form.op = "call"
  /\ CASE vs = <<>> -> Begin(form.f, act.env)
       [] vs # <<>> /\ f.t # "fn" -> activity' = <<>> /\ meaning' = Err /\ UNCHANGED memory
       [] vs # <<>> /\ f.t = "fn" /\ Len(vs) < n -> Begin(form.args[Len(vs)], act.env)
       [] vs # <<>> /\ f.t = "fn" /\ Len(vs) = n ->
            /\ activity' = Append(activity, Activity(f.e, inner))
            /\ memory' = memory \o Arguments(f.params, Tail(vs)) /\ UNCHANGED meaning
       [] Len(vs) > n -> Yield(IF vs[n + 1].t = "ret" THEN vs[n + 1].v ELSE vs[n + 1], memory)

LexInit ==
  /\ program \in Programs
  /\ activity = <<Activity(program, <<>>)>>
  /\ memory = NilCells
  /\ meaning = None

LexNext ==
  /\ meaning = None
  /\ MeanReturn \/ MeanAtom \/ MeanOne \/ MeanIf \/ MeanWhile \/ MeanBlock \/ MeanCall
  /\ UNCHANGED program

\* Functions are the same if both are functions.
SameValue(v, w) == IF v.t = "fn" \/ w.t = "fn" THEN v.t = w.t ELSE v = w

=============================================================================
