--------------------------- MODULE FeInstructions ---------------------------
(***************************************************************************)
(* The instructions in which FexParserCode and FeEvalCode write the C      *)
(* functions that build objects: what the functions do to objects and to   *)
(* the gcstack.  FexRooting has the machine that runs them.                *)
(*                                                                         *)
(* An operand is the name of a local variable, or else a constant.         *)
(***************************************************************************)
EXTENDS Integers, Sequences, FiniteSets

-----------------------------------------------------------------------------
(* Objects and the gcstack. *)

\* fe_cons, and any other object.
Cons(to, a, b) == [op |-> "cons", to |-> to, a |-> a, b |-> b, span |-> FALSE]
Data(to) == Cons(to, "data", "nil")
\* ... followed by fex_record_span.
Node(to, a, b) == [Cons(to, a, b) EXCEPT !.span = TRUE]
Text(to) == Node(to, "data", "nil")
Sym == [op |-> "sym"]
Push(a) == [op |-> "push", a |-> a]
Save(to) == [op |-> "save", to |-> to]
Restore(guard, n) == [op |-> "restore", guard |-> guard, n |-> n]
Car(to, a) == [op |-> "car", to |-> to, a |-> a]
Cdr(to, a) == [op |-> "cdr", to |-> to, a |-> a]
SetCdr(a, b) == [op |-> "setcdr", a |-> a, b |-> b]
\* *tail = cell; tail = fe_cdr_ptr(cell), where tail starts as &head.
Link == [op |-> "link"]
\* The host looks at all of a, or evaluates the program a.
Use(a) == [op |-> "use", a |-> a]

(* Control. *)

Copy(to, a) == [op |-> "copy", to |-> to, v |-> a]
Call(to, f, args) == [op |-> "call", to |-> to, f |-> f, args |-> args]
Ret(a) == [op |-> "ret", v |-> a]
\* Jumps to the block l: always; if a is the constant v; if a is a pair; if a
\* is a cell that begins with v; after an error; by the source text.
Jump(l) == [op |-> "jump", l |-> l]
IfIs(a, v, l) == [op |-> "ifis", v |-> a, is |-> v, l |-> l]
IfPair(a, l) == [op |-> "ifpair", a |-> a, l |-> l]
IfForm(a, v, l) == [op |-> "ifform", a |-> a, is |-> v, l |-> l]
IfError(l) == [op |-> "iferror", l |-> l]
Pick(ls) == [op |-> "pick", ls |-> ls]
\* error(): leaves the compilation if a try scope is active; and fe_error.
Error == [op |-> "error"]
Fail == [op |-> "fail"]

-----------------------------------------------------------------------------
(* The evaluator reads a program.  Of the form that it evaluates, obj, the   *)
(* elements still to come are arg, and the last one taken is expr.           *)

\* fe_nextarg; and the jump if there is none.
NextArg == [op |-> "next"]
IfNone(l) == [op |-> "ifnone", l |-> l]
\* arg becomes the elements of obj, or obj taken apart for analyze.
Elements == [op |-> "elements"]
TakeApart == [op |-> "parts"]
\* The name in obj or in expr, and the next of the parameters in arg.
NameOf(to) == [op |-> "name", to |-> to]
ExprName(to) == [op |-> "exprname", to |-> to]
Param(to) == [op |-> "param", to |-> to]
\* arg becomes the parameters, expr the body of the function with the code a.
Params(a) == [op |-> "params", v |-> a]
Body(a) == [op |-> "body", v |-> a]
\* expr becomes its own element; obj becomes expr.
Inner == [op |-> "inner"]
Again == [op |-> "again"]
\* A jump to the block named after the form; and if the form is an l.
Dispatch == [op |-> "dispatch"]
IfObj(f, l) == [op |-> "ifobj", f |-> f, l |-> l]
IfExpr(f, l) == [op |-> "ifexpr", f |-> f, l |-> l]
\* getbound(a, env), and a jump if list_has(list, a).
Lookup(to, a, env) == [op |-> "lookup", to |-> to, v |-> a, a |-> env]
IfHas(list, a, l) == [op |-> "ifhas", a |-> list, v |-> a, l |-> l]
\* The variable env of the caller, through newenv.
Outer(to) == [op |-> "outer", to |-> to]
SetOuter(a) == [op |-> "setouter", v |-> a]

=============================================================================
