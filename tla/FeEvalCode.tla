----------------------------- MODULE FeEvalCode -----------------------------
(***************************************************************************)
(* eval of src/src/fe.c and the functions it calls, and the list functions *)
(* of src/src/fex_builtins.c, as blocks of instructions: what they         *)
(* allocate, in which order, and what is on the gcstack meanwhile.         *)
(*                                                                         *)
(* A program consists of forms.  They are no cells: the code is kept alive *)
(* by whoever evaluates it.  A function has a name for its code.  Forms    *)
(* that call eval for two operands alike are written once.                 *)
(***************************************************************************)
EXTENDS FeInstructions

\* op names the primitive, and so the symbol at the head of the form.
Element(op, name, es) == [op |-> op, name |-> name, es |-> es]
Literal == Element("literal", "nil", <<>>)
Var(s) == Element("var", s, <<>>)
Prim(op, es) == Element(op, "nil", es)
Let(s, e) == Element("let", s, <<e>>)
Set(s, e) == Element("set", s, <<e>>)
Fn(code) == Element("fn", code, <<>>)
Apply(f, es) == Element("call", "nil", <<f>> \o es)

\* What analyze sees in a form: symbols and forms.
Parts(form) ==
  (IF form.op = "call" THEN <<>> ELSE <<Var(form.op)>>)
  \o (IF form.op \in {"let", "set"} THEN <<Var(form.name)>> ELSE <<>>)
  \o form.es

-----------------------------------------------------------------------------
\* eval(e, env, NULL) and eval(e, env, &env) of the next element.
Eval(to) == Call(to, "eval", <<"env", "nil">>)
evalarg(to) == <<NextArg, Eval(to)>>
evalstmt(to) == <<NextArg, Call(to, "eval", <<"env", "yes">>)>>

\* A form that is a pair begins with eval of its head, a symbol here.
Begin == <<Elements, Save("gc"), Push("env")>>
End == <<Jump("end")>>
\* goto tail_call with expr.
TailCall == <<Again, Restore("gc", 0), Jump("tail_call")>>

P_CONS == Begin \o evalarg("va") \o evalarg("vb") \o <<Cons("res", "va", "vb")>> \o End
P_LIST == Begin \o <<Call("res", "evallist", <<"env">>)>> \o End
P_CAR == Begin \o evalarg("va") \o <<IfPair("va", "car_of"), Fail>>
P_IS == Begin \o evalarg("va") \o evalarg("vb") \o <<Use("va"), Use("vb"), Copy("res", "nil")>> \o End
P_SETCDR == Begin \o evalarg("va") \o <<IfPair("va", "setcdr_of"), Fail>>
P_RETURN == Begin \o evalarg("va") \o <<Cons("res", "return", "va")>> \o End
P_SET ==
  Begin \o <<NameOf("sym"), Lookup("binding", "sym", "env")>> \o evalarg("va")
  \o <<SetCdr("binding", "va"), Copy("res", "nil")>> \o End
P_IF == Begin \o evalarg("va") \o <<NextArg, IfIs("va", "nil", "else")>> \o TailCall
P_WHILE == Begin \o <<Save("n"), Jump("condition")>>
P_DO == Begin \o <<Save("save"), Jump("element")>>

\* *newenv is the caller's env: a list of bindings, or a frame.
P_LET ==
  Begin \o <<NameOf("sym"), IfIs("newenv", "nil", "let_global"), Cons("binding", "sym", "nil"),
             Outer("outer"), IfForm("outer", "frame", "let_frame"),
             Cons("new", "binding", "outer"), Jump("let_value")>>
let_frame ==
  <<Cdr("outer", "outer"), Car("locals", "outer"), Cdr("upvals", "outer"),
    Cons("locals", "binding", "locals"), Cons("new", "locals", "upvals"),
    Cons("new", "frame", "new"), Jump("let_value")>>
let_value ==
  <<SetOuter("new"), NextArg, Call("res", "eval", <<"new", "nil">>), SetCdr("binding", "res")>> \o End

\* What is pushed before each cell of a function is made.
Guard(va) == <<Restore("s", 0), Push("free"), Push("env"), Push(va)>>

P_FN ==
  Begin \o <<NameOf("code"), Save("s"), Copy("bound", "nil"), Params("code"), Jump("fn_bound")>>
fn_bound ==
  <<IfNone("fn_free"), Restore("s", 0), Push("bound"), Param("sym"), Cons("bound", "sym", "bound"),
    Jump("fn_bound")>>
fn_free ==
  <<Body("code"), Call("free", "analyze", <<"bound", "nil">>)>>
  \o Guard("nil") \o <<Cons("va", "code", "nil")>>
  \o Guard("va") \o <<Cons("va", "code", "va")>>
  \o Guard("va") \o <<Cons("va", "free", "va")>>
  \o Guard("va") \o <<Cons("va", "env", "va")>>
  \o <<Restore("s", 0), Push("va"), Cons("res", "fn", "va")>> \o End

\* FE_TFUNC, once the arguments are evaluated: upvalues, locals, frame, body.
FE_TFUNC ==
  <<Cdr("guts", "callee"), Car("def_env", "guts"), Cdr("guts", "guts"), Car("free", "guts"),
    Cdr("guts", "guts"), Car("code", "guts"), Copy("upvals", "nil"), Save("s"),
    Push("def_env"), Push("args"), Jump("upvals")>>
capture ==
  <<IfIs("free", "nil", "frame"), Car("sym", "free"), Lookup("binding", "sym", "def_env"),
    Restore("s", 0), Push("upvals"), Push("def_env"), Push("args"), Push("binding"),
    Cons("upvals", "binding", "upvals"), Cdr("free", "free"), Jump("upvals")>>
frame ==
  <<Restore("s", 0), Push("upvals"), Push("args"), Save("frame_save"), Push("upvals"), Push("args"),
    Params("code"), Call("locals", "argstoenv", <<"args">>), Push("locals"),
    Cons("new", "locals", "upvals"), Push("new"), Cons("new", "frame", "new"),
    Restore("frame_save", 0), Copy("env", "new"), Copy("tail", "yes"), Body("code")>> \o TailCall

\* FE_TCFUNC.
Native(f) ==
  Begin \o <<Call("args", "evallist", <<"env">>), Push("args"), Call("res", f, <<"args">>)>> \o End

eval ==
  [entry |-> <<Copy("tail", "nil"), Jump("tail_call")>>,
   tail_call |-> <<IfIs("tail", "yes", "in_func_tail"), Dispatch>>,
   in_func_tail |-> <<IfObj("return", "strip"), Dispatch>>,
   strip |-> <<Elements, NextArg, Again, Dispatch>>,
   literal |-> <<Ret("nil")>>,
   var |-> <<NameOf("sym"), Lookup("binding", "sym", "env"), Cdr("res", "binding"), Ret("res")>>,
   cons |-> P_CONS, list |-> P_LIST, is |-> P_IS, return |-> P_RETURN,
   car |-> P_CAR, car_of |-> <<Car("res", "va")>> \o End,
   setcdr |-> P_SETCDR,
   setcdr_of |-> evalarg("vb") \o <<SetCdr("va", "vb"), Copy("res", "nil")>> \o End,
   set |-> P_SET,
   if |-> P_IF, else |-> <<NextArg>> \o TailCall,
   while |-> P_WHILE,
   condition |-> <<Elements>> \o evalarg("va") \o <<IfIs("va", "nil", "end"), Save("wsave"),
                   Restore("wsave", 0), Push("env")>> \o evalstmt("res")
                 \o <<IfForm("res", "return", "end"), Restore("n", 0), Jump("condition")>>,
   do |-> P_DO,
   element |-> <<NextArg, IfNone("last"), Restore("save", 0), Push("env"),
                 Call("res", "eval", <<"env", "yes">>), IfForm("res", "return", "end"),
                 Jump("element")>>,
   last |-> TailCall,
   let |-> P_LET, let_frame |-> let_frame, let_value |-> let_value,
   let_global |-> evalarg("res") \o <<Lookup("binding", "sym", "nil"), SetCdr("binding", "res")>> \o End,
   fn |-> P_FN, fn_bound |-> fn_bound, fn_free |-> fn_free,
   call |-> Begin \o evalarg("callee") \o <<IfForm("callee", "fn", "arguments"), Fail>>,
   arguments |-> <<Call("args", "evallist", <<"env">>)>> \o FE_TFUNC,
   upvals |-> capture, frame |-> frame,
   makemap |-> Native("builtin_make_map"),
   append |-> Native("builtin_list_append"), reverse |-> Native("builtin_list_reverse"),
   map |-> Native("builtin_map"), filter |-> Native("builtin_filter"), fold |-> Native("builtin_fold"),
   end |-> <<Restore("gc", 0), Push("res"), IfIs("tail", "yes", "opened"), Ret("res")>>,
   opened |-> <<IfForm("res", "return", "unwrap"), Ret("res")>>,
   unwrap |-> <<Cdr("res", "res"), Ret("res")>>]

\* fe_eval of (function value ...), as the list functions call it.  The values
\* are evaluated: a pair among them is taken for a call, of something that is
\* no function.
fe_eval ==
  [eval EXCEPT
     !.entry = <<Copy("env", "nil"), Copy("tail", "nil"), Save("gc"), Push("call"),
                 Car("callee", "call"), Cdr("call", "call"), Call("args", "evalvalues", <<"call">>)>>
               \o FE_TFUNC]

-----------------------------------------------------------------------------
\* Fault: the value is not pushed while the cell for it is allocated.
evallist_bare ==
  [entry |-> <<Copy("head", "nil"), Save("save"), Jump("loop")>>,
   loop |-> <<IfNone("done"), Restore("save", 0), Push("head"), Push("env")>> \o evalarg("value")
            \o <<Restore("save", 0), Push("head"), Push("env"),
                 Cons("cell", "value", "nil"), Link, Jump("loop")>>,
   done |-> <<Restore("save", 0), Ret("head")>>]

evallist ==
  [entry |-> <<Copy("head", "nil"), Save("save"), Jump("loop")>>,
   loop |-> <<IfNone("done"), Restore("save", 0), Push("head"), Push("env")>> \o evalarg("value")
            \o <<Restore("save", 0), Push("head"), Push("env"), Push("value"),
                 Cons("cell", "value", "nil"), Link, Jump("loop")>>,
   done |-> <<Restore("save", 0), Ret("head")>>]

\* evallist of forms that are values.
evalvalues ==
  [entry |-> <<Copy("head", "nil"), Save("save"), Jump("loop")>>,
   loop |-> <<IfIs("lst", "nil", "done"), Car("value", "lst"), Cdr("lst", "lst"),
              IfPair("value", "call"), Restore("save", 0), Push("head"), Push("lst"), Push("value"),
              Cons("cell", "value", "nil"), Link, Jump("loop")>>,
   call |-> <<Fail>>,
   done |-> <<Restore("save", 0), Ret("head")>>]

argstoenv ==
  [entry |-> <<Copy("env", "nil"), Save("save"), Jump("loop")>>,
   loop |-> <<IfNone("done"), Restore("save", 0), Push("args"), Push("env"),
              Param("sym"), Car("value", "args"), Cons("binding", "sym", "value"),
              Restore("save", 0), Push("args"), Push("env"), Push("binding"),
              Cons("env", "binding", "env"), Cdr("args", "args"), Jump("loop")>>,
   done |-> <<Restore("save", 0), Ret("env")>>]

\* The free variables of obj are added to the list free, which belongs to the
\* function at the start of the recursion.
analyze ==
  [entry |-> <<IfObj("literal", "done"), IfObj("var", "symbol"), IfObj("do", "block"),
               IfObj("fn", "function"), TakeApart, Jump("parts")>>,
   symbol |-> <<NameOf("sym"), IfHas("bound", "sym", "done"), IfHas("free", "sym", "done"),
                Cons("free", "sym", "free"), Ret("free")>>,
   done |-> <<Ret("free")>>,
   parts |-> <<IfNone("done"), NextArg, Call("free", "analyze", <<"bound", "free">>), Jump("parts")>>,
   block |-> <<Elements, Save("gc"), Push("bound"), Jump("statements")>>,
   statements |-> <<IfNone("end"), NextArg, IfExpr("let", "let"),
                    Call("free", "analyze", <<"bound", "free">>), Jump("statements")>>,
   let |-> <<ExprName("sym"), Inner, Call("free", "analyze", <<"bound", "free">>),
             Cons("bound", "sym", "bound"), Restore("gc", 0), Push("bound"), Jump("statements")>>,
   end |-> <<Restore("gc", 0), Ret("free")>>,
   function |-> <<Save("gc"), NameOf("code"), Copy("inner", "nil"), Params("code"), Jump("params")>>,
   params |-> <<IfNone("body"), Param("sym"), Cons("inner", "sym", "inner"), Jump("params")>>,
   body |-> <<Body("code"), Call("p", "analyze", <<"inner", "nil">>), Restore("gc", 0), Push("p"),
              Jump("free")>>,
   free |-> <<IfIs("p", "nil", "end"), Car("sym", "p"), Cdr("p", "p"), IfHas("bound", "sym", "free"),
              IfHas("free", "sym", "free"), Cons("free", "sym", "free"), Jump("free")>>]

-----------------------------------------------------------------------------
(* The functions of the library.  What they allocate stays on the gcstack.   *)

\* A new map, of no arguments.
builtin_make_map == [entry |-> <<Data("map"), Ret("map")>>]

builtin_list_append ==
  [entry |-> <<Car("list", "args"), Cdr("args", "args"), IfIs("args", "nil", "single"),
               Copy("head", "nil"), Jump("items")>>,
   single |-> <<Ret("list")>>,
   lists |-> <<IfIs("args", "nil", "done"), Car("list", "args"), Cdr("args", "args"), Jump("items")>>,
   items |-> <<IfIs("list", "nil", "lists"), Car("item", "list"), Cons("cell", "item", "nil"), Link,
               Cdr("list", "list"), Jump("items")>>,
   done |-> <<Ret("head")>>]

builtin_list_reverse ==
  [entry |-> <<Car("list", "args"), Copy("res", "nil"), Jump("loop")>>,
   loop |-> <<IfIs("list", "nil", "done"), Car("item", "list"), Cons("res", "item", "res"),
              Cdr("list", "list"), Jump("loop")>>,
   done |-> <<Ret("res")>>]

\* The next item of list, in (func item).
CallItem ==
  <<IfIs("list", "nil", "done"), Car("item", "list"), Cons("call", "item", "nil"),
    Cons("call", "func", "call"), Call("res", "fe_eval", <<"call">>), Cdr("list", "list")>>
TwoArgs == <<Car("func", "args"), Cdr("args", "args"), Car("list", "args"), Copy("head", "nil")>>

builtin_map ==
  [entry |-> TwoArgs \o <<Jump("loop")>>,
   loop |-> CallItem \o <<Cons("cell", "res", "nil"), Link, Jump("loop")>>,
   done |-> <<Ret("head")>>]

builtin_filter ==
  [entry |-> TwoArgs \o <<Jump("loop")>>,
   loop |-> CallItem \o <<IfIs("res", "nil", "loop"), Cons("cell", "item", "nil"), Link, Jump("loop")>>,
   done |-> <<Ret("head")>>]

builtin_fold ==
  [entry |-> <<Car("func", "args"), Cdr("args", "args"), Car("acc", "args"), Cdr("args", "args"),
               Car("list", "args"), Jump("loop")>>,
   loop |-> <<IfIs("list", "nil", "done"), Car("item", "list"), Cons("call", "acc", "nil"),
              Cons("call", "item", "call"), Cons("call", "func", "call"),
              Call("acc", "fe_eval", <<"call">>), Cdr("list", "list"), Jump("loop")>>,
   done |-> <<Ret("acc")>>]

\* The host prints the value.
fex_try_eval ==
  [entry |-> <<Save("gc_save"), Call("res", "eval", <<"nil", "nil">>), Restore("gc_save", 0),
               Use("res"), Ret("nil")>>]

EvalCode ==
  [eval |-> eval, fe_eval |-> fe_eval, evallist |-> evallist, evalvalues |-> evalvalues,
   argstoenv |-> argstoenv, analyze |-> analyze,
   builtin_make_map |-> builtin_make_map, builtin_list_append |-> builtin_list_append,
   builtin_list_reverse |-> builtin_list_reverse,
   builtin_map |-> builtin_map, builtin_filter |-> builtin_filter, builtin_fold |-> builtin_fold,
   try_eval |-> fex_try_eval]

\* The parameters of the functions that are called with a list in place of a
\* form's parts.
EvalParams ==
  [eval |-> <<"env", "newenv">>, fe_eval |-> <<"call">>, evallist |-> <<"env">>,
   evalvalues |-> <<"lst">>, argstoenv |-> <<"args">>, analyze |-> <<"bound", "free">>,
   builtin_make_map |-> <<"args">>, builtin_list_append |-> <<"args">>,
   builtin_list_reverse |-> <<"args">>,
   builtin_map |-> <<"args">>, builtin_filter |-> <<"args">>, builtin_fold |-> <<"args">>]

=============================================================================
