------------------------------- MODULE FeEval -------------------------------
(***************************************************************************)
(* The evaluator of src/src/fe.c: eval with its environments, closures,    *)
(* return sentinel and tail calls, over the forms that the compiler emits. *)
(*                                                                         *)
(* An environment is a list of bindings, or the frame of a function call   *)
(* with a list of locals and a list of upvalues; a binding is a name and a *)
(* cell.  stack is the C stack: one activation of eval for each element.   *)
(* newenv is a pointer to the variable env of the activation below, or     *)
(* NULL.  The program is first given its meaning by FeLexical.             *)
(***************************************************************************)
EXTENDS FeLexical

CONSTANTS
  PeakBound    \* the number of activations that the programs need

VARIABLES
  stack,  \* the activations of eval
  cells,  \* the cdr of the bindings
  value   \* the value of the program, or None

vars == <<lexvars, stack, cells, value>>

-----------------------------------------------------------------------------
(* Environments. *)

Env(locals, upvals) == [locals |-> locals, upvals |-> upvals]
Bind(env, name, c) == [env EXCEPT !.locals = <<<<name, c>>>> \o @]

\* The first binding of sym in the locals, then in the upvalues; otherwise the
\* global cell of the symbol.
getbound(sym, env) == Cell(sym, env.locals \o env.upvals)

RECURSIVE analyze(_, _), analyze_all(_, _), analyze_do(_, _)

\* Fault: the free variables of an inner function are not those of the outer.
analyze_flat(node, bound) ==
  CASE node.op = "var" -> {node.name} \ bound
    [] node.op \in {"num", "nil", "fn"} -> {}
    [] node.op = "do" -> analyze_do(node.es, bound)
    [] OTHER -> analyze_all(Children(node), bound) \cup (Names(node) \ bound)

\* The free variables of a node.  A let that is an element of a do binds its
\* name for the elements after it; any other let leaves its name free.
analyze(node, bound) ==
  CASE node.op = "var" -> {node.name} \ bound
    [] node.op \in {"num", "nil"} -> {}
    [] node.op = "do" -> analyze_do(node.es, bound)
    [] node.op = "fn" -> analyze(node.e, {node.params[i] : i \in 1 .. Len(node.params)}) \ bound
    [] OTHER -> analyze_all(Children(node), bound) \cup (Names(node) \ bound)

analyze_all(es, bound) == UNION {analyze(es[i], bound) : i \in 1 .. Len(es)}

analyze_do(es, bound) ==
  IF es = <<>> THEN {}
  ELSE LET e == Head(es) IN
       IF e.op = "let"
       THEN analyze(e.e, bound) \cup analyze_do(Tail(es), bound \cup {e.name})
       ELSE analyze(e, bound) \cup analyze_do(Tail(es), bound)

-----------------------------------------------------------------------------
(* Activations: obj, env, whether newenv is not NULL, in_func_tail, the     *)
(* values of the parts of obj so far, and res of a loop.                    *)

Activation(obj, env, newenv) ==
  [obj |-> obj, env |-> env, newenv |-> newenv, tail |-> FALSE, got |-> <<>>, res |-> Nil]

top == stack[Len(stack)]
obj == top.obj
got == top.got
At(op) == meaning # None /\ value = None /\ obj.op = op
Put(a) == [stack EXCEPT ![Len(stack)] = a]

\* eval(e, env, NULL), and eval(e, env, &env).
evalarg(e) == stack' = Append(stack, Activation(e, top.env, FALSE)) /\ UNCHANGED <<cells, value>>
evalstmt(e) == stack' = Append(stack, Activation(e, top.env, TRUE)) /\ UNCHANGED <<cells, value>>

\* goto tail_call.  In a function's tail position (return X) is X.
TailCall(e, env, tail) ==
  LET x == IF tail /\ e.op = "return" THEN e.e ELSE e
  IN stack' = Put([top EXCEPT !.obj = x, !.env = env, !.tail = tail, !.got = <<>>, !.res = Nil])

\* eval returns v; a return sentinel is opened if a function's body ended here.
Finish(v, cs) ==
  LET n == IF v = Err THEN 0 ELSE Len(stack) - 1
      w == IF top.tail /\ v.t = "ret" THEN v.v ELSE v
  IN
  /\ cells' = cs
  /\ stack' = [i \in 1 .. n |-> IF i < n THEN stack[i] ELSE [stack[i] EXCEPT !.got = Append(@, w)]]
  /\ value' = IF n = 0 THEN w ELSE None

-----------------------------------------------------------------------------
(* eval, one action for each kind of form. *)

Atom ==
  \/ At("num") /\ Finish(Number(obj.n), cells)
  \/ At("nil") /\ Finish(Nil, cells)
  \/ At("var") /\ Finish(cells[getbound(obj.name, top.env)], cells)

Prim1 ==
  /\ At("prim")
  /\ IF got = <<>> THEN evalarg(obj.e) ELSE Finish(Primitive(obj.name, got[1]), cells)

P_RETURN ==
  /\ At("return")
  /\ IF got = <<>> THEN evalarg(obj.e) ELSE Finish(Ret(got[1]), cells)

\* The new binding goes to *newenv, the env of the activation below, where the
\* value is evaluated too; without newenv the variable is global.
P_LET ==
  LET below == Len(stack) - 1
      new == Bind(stack[below].env, obj.name, Len(cells) + 1)
  IN
  /\ At("let")
  /\ \/ /\ got = <<>> /\ top.newenv
        /\ stack' = Append([stack EXCEPT ![below].env = new], Activation(obj.e, new, FALSE))
        /\ cells' = Append(cells, Nil) /\ UNCHANGED value
     \/ got = <<>> /\ ~top.newenv /\ evalarg(obj.e)
     \/ /\ got # <<>>
        /\ LET c == IF top.newenv THEN stack[below].env.locals[1][2] ELSE Global(obj.name)
           IN Finish(got[1], [cells EXCEPT ![c] = got[1]])

P_SET ==
  /\ At("set")
  /\ IF got = <<>> THEN evalarg(obj.e)
     ELSE Finish(Nil, [cells EXCEPT ![getbound(obj.name, top.env)] = got[1]])

P_IF ==
  /\ At("if")
  /\ IF got = <<>> THEN evalarg(obj.c)
     ELSE /\ TailCall(IF Truthy(got[1]) THEN obj.a ELSE obj.b, top.env, top.tail)
          /\ UNCHANGED <<cells, value>>

\* The condition and the body in turn; the body may extend env.
P_WHILE ==
  /\ At("while")
  /\ CASE got = <<>> -> evalarg(obj.c)
       [] Len(got) = 1 -> IF Truthy(got[1]) THEN evalstmt(obj.e) ELSE Finish(top.res, cells)
       [] Len(got) = 2 ->
            IF got[2].t = "ret" THEN Finish(got[2], cells)
            ELSE /\ stack' = Put([top EXCEPT !.got = <<>>, !.res = got[2]])
                 /\ UNCHANGED <<cells, value>>

\* Every element but the last may extend env; the last is a tail call.
P_DO ==
  LET n == Len(got) IN
  /\ At("do")
  /\ IF n > 0 /\ got[n].t = "ret" THEN Finish(got[n], cells)
     ELSE IF n + 1 = Len(obj.es)
     THEN TailCall(obj.es[n + 1], top.env, top.tail) /\ UNCHANGED <<cells, value>>
     ELSE evalstmt(obj.es[n + 1])

\* A function has the environment of its definition and its free variables.
P_FN ==
  /\ At("fn")
  /\ Finish([t |-> "fn", env |-> top.env, params |-> obj.params, e |-> obj.e,
             free |-> Listed(analyze(obj.e, {obj.params[i] : i \in 1 .. Len(obj.params)}))], cells)

\* The frame of a call: the parameters, the last one first, and the bindings
\* of the free variables in the environment of the definition.
argstoenv(f) ==
  LET n == Len(f.params) IN [i \in 1 .. n |-> <<f.params[n + 1 - i], Len(cells) + n + 1 - i>>]
upvals(f) == [i \in 1 .. Len(f.free) |-> <<f.free[i], getbound(f.free[i], f.env)>>]

\* Fault: the body is evaluated by a nested eval.
ApplyNested(f, args) ==
  /\ stack' = Append(Put([top EXCEPT !.obj = Return(f.e), !.tail = TRUE, !.got = <<>>]),
                     [Activation(f.e, Env(argstoenv(f), upvals(f)), FALSE) EXCEPT !.tail = TRUE])
  /\ cells' = cells \o Arguments(f.params, args)
  /\ UNCHANGED value

\* FE_TFUNC: the body of the function is a tail call.
Apply(f, args) ==
  /\ TailCall(f.e, Env(argstoenv(f), upvals(f)), TRUE)
  /\ cells' = cells \o Arguments(f.params, args)
  /\ UNCHANGED value

\* The function, then evallist, then the call.
CallForm ==
  LET n == Len(got) IN
  /\ At("call")
  /\ CASE n = 0 -> evalarg(obj.f)
       [] n > 0 /\ got[1].t # "fn" -> Finish(Err, cells)
       [] n > 0 /\ got[1].t = "fn" /\ n <= Len(obj.args) -> evalarg(obj.args[n])
       [] n > 0 /\ got[1].t = "fn" /\ n > Len(obj.args) -> Apply(got[1], Tail(got))

eval == Atom \/ Prim1 \/ P_RETURN \/ P_LET \/ P_SET \/ P_IF \/ P_WHILE \/ P_DO \/ P_FN \/ CallForm

\* fe_eval: the empty environment, and no newenv.
Init ==
  /\ LexInit
  /\ stack = <<Activation(program, Env(<<>>, <<>>), FALSE)>>
  /\ cells = NilCells
  /\ value = None

Next ==
  \/ LexNext /\ UNCHANGED <<stack, cells, value>>
  \/ eval /\ UNCHANGED lexvars
  \/ value # None /\ UNCHANGED vars

Spec == Init /\ [][Next]_vars

-----------------------------------------------------------------------------
(* Properties. *)

\* Scoping is lexical ("lexically scoped: closures capture surrounding
\* bindings"): the evaluator gives every program the value that block scopes
\* and closures over the whole surrounding environment give it.  The free
\* variables that analyze finds, the upvalues of a call, the environment that
\* do and while thread, and the tail calls are not observable.
Lexical == value # None => SameValue(value, meaning)

\* Tail calls run in constant C stack space: however often a tail-recursive
\* program calls itself, eval is not nested deeper.
ConstantStack == Len(stack) <= PeakBound

=============================================================================
