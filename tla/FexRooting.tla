----------------------------- MODULE FexRooting -----------------------------
(***************************************************************************)
(* How the compiler of src/src/fex.c and the evaluator of src/src/fe.c     *)
(* keep alive what they build.                                             *)
(*                                                                         *)
(* A node of the tree, a binding or a value is a cell of the arena.  The   *)
(* collector runs inside an allocation and frees every cell that the       *)
(* gcstack and the symbols do not reach, so a function that still holds a  *)
(* cell in a C variable depends on what it, its callers and its callees    *)
(* have left on the gcstack.                                               *)
(*                                                                         *)
(* FexParserCode and FeEvalCode have the functions, as blocks of           *)
(* instructions; Next is the machine that runs them.                       *)
(***************************************************************************)
EXTENDS FexParserCode, FeEvalCode, TLC

CONSTANTS
  Cell,      \* the cells of the arena
  Programs,  \* the programs that are evaluated
  Sources    \* what a host does: see Source

\* The constructs that occur in the source text that is compiled, see Pick, and
\* the number of them, a bound of the model; or the program that is evaluated,
\* of forms (main) and functions (fns).  collections is a bound of the model.
Source == [host : {"do_string", "try_compile", "try_eval"}, syntax : SUBSET STRING, fuel : Nat,
           program : DOMAIN Programs, collections : Nat]

\* Cells hold cells and values that are never freed: nil and the other
\* immediates, symbols (the symbol list keeps them), and code.
Free == [car |-> "free", cdr |-> "free"]

\* The binding of the global variable.
Global == CHOOSE c \in Cell : TRUE

ASSUME RootingAssumption == Sources \subseteq Source

VARIABLES
  frames,   \* the C stack: function, block, next instruction, the local
            \* variables that hold cells and those that hold gcstack indices,
            \* and the forms obj, arg and expr
  heap,     \* the cells
  gcstack,  \* the root stack of the context
  spans,    \* the cells that the table of spans has an entry for
  hadError, \* P.had_error of the compilation
  source,   \* what the host does
  fuel,     \* how many constructs are still to come
  collections \* how many collections may still come before the arena is full

memory == <<heap, spans, collections>>
text == <<hadError, fuel>>
vars == <<frames, gcstack, memory, text, source>>

-----------------------------------------------------------------------------
(* The machine. *)

Code == ParserCode @@ EvalCode

Frame(f, env, obj, arg) ==
  [fn |-> f, at |-> "entry", pc |-> 1, env |-> env, saved |-> [n \in {} |-> 0],
   obj |-> obj, arg |-> arg, expr |-> obj]

top == frames[Len(frames)]
Instr == LET f == top IN Code[f.fn][f.at][f.pc]
Running(op) == frames # <<>> /\ Instr.op = op

Val(a) == IF a \in DOMAIN top.env THEN top.env[a] ELSE a
Assign(env, a, v) == [n \in DOMAIN env \cup {a} |-> IF n = a THEN v ELSE env[n]]

\* The top frame goes on after the instruction, with a new value of a local
\* variable, or in another block.
Advance == [top EXCEPT !.pc = @ + 1]
Define(a, v) == [Advance EXCEPT !.env = Assign(@, a, v)]
Goto(l) == [top EXCEPT !.at = l, !.pc = 1]
Continue(f) == frames' = [frames EXCEPT ![Len(frames)] = f]
Test(b) == Continue(IF b THEN Goto(Instr.l) ELSE Advance)
Abandon == frames' = <<>> /\ gcstack' = <<>>

\* Every cell that S leads to.
RECURSIVE ReachFrom(_, _)
ReachFrom(S, new) ==
  LET next == (({heap[c].car : c \in new} \cup {heap[c].cdr : c \in new}) \cap Cell) \ S IN
  IF next = {} THEN S ELSE ReachFrom(S \cup next, next)

Reach(S) == ReachFrom(S, S)

Roots == ({gcstack[i] : i \in 1 .. Len(gcstack)} \cap Cell) \cup {Global}
Locals == UNION {{frames[i].env[n] : n \in DOMAIN frames[i].env} : i \in 1 .. Len(frames)}

\* The cells an allocation may take.  A freed cell that a local variable still
\* names is left out, so that a use of that variable finds it free.
Unused(h) == {c \in Cell : h[c] = Free} \ Locals

\* The spans of the cells that are free are dropped.
fex_span_prune(live) == spans \cap live

\* A collection frees what no root leads to.
collectgarbage ==
  LET R == Reach(Roots) IN
  [heap |-> [c \in Cell |-> IF c \in R THEN heap[c] ELSE Free], spans |-> fex_span_prune(R),
   left |-> IF collections > 0 THEN collections - 1 ELSE 0]

\* An allocation goes on with the arena as it is, or after a collection.
Arenas ==
  {[heap |-> heap, spans |-> spans, left |-> collections]}
  \cup IF collections > 0 \/ Unused(heap) = {} THEN {collectgarbage} ELSE {}

\* A node of the tree gets a span.
fex_record_span(table, c) == IF Instr.span THEN table \cup {c} ELSE table

\* object, and fex_record_span; memory may run out in both.
fe_cons ==
  /\ Running("cons")
  /\ \E a \in Arenas :
       /\ collections' = a.left
       /\ \/ /\ Unused(a.heap) # {}
             /\ LET c == CHOOSE c \in Unused(a.heap) : TRUE IN
                /\ heap' = [a.heap EXCEPT ![c] = [car |-> Val(Instr.a), cdr |-> Val(Instr.b)]]
                /\ spans' = fex_record_span(a.spans, c)
                /\ gcstack' = Append(gcstack, c)
                /\ Continue(Define(Instr.to, c))
          \/ /\ Instr.span \/ Unused(a.heap) = {}
             /\ heap' = a.heap /\ spans' = a.spans
             /\ Abandon
  /\ UNCHANGED text

\* A symbol that is not in the symbol list yet is allocated; it is never freed.
fe_symbol ==
  /\ Running("sym")
  /\ \E a \in Arenas : heap' = a.heap /\ spans' = a.spans /\ collections' = a.left
  /\ Continue(Advance)
  /\ UNCHANGED <<gcstack, text>>

\* nil and the other immediates are not pushed.
fe_pushgc ==
  /\ Running("push")
  /\ gcstack' = IF Val(Instr.a) = "nil" THEN gcstack ELSE Append(gcstack, Val(Instr.a))
  /\ Continue(Advance)
  /\ UNCHANGED <<memory, text>>

fe_savegc ==
  /\ Running("save")
  /\ Continue([Advance EXCEPT !.saved = Assign(@, Instr.to, Len(gcstack))])
  /\ UNCHANGED <<memory, gcstack, text>>

\* The function goes on; the indices it has saved since are of no use any more.
Released(guard) ==
  [Advance EXCEPT !.saved = [g \in {g \in DOMAIN @ : @[g] <= @[guard]} |-> @[g]]]

\* Fault: the last root below the index goes too.
RestoreBelow ==
  /\ Running("restore")
  /\ LET n == top.saved[Instr.guard] + Instr.n - 1 IN
     gcstack' = IF n < Len(gcstack) THEN SubSeq(gcstack, 1, n) ELSE gcstack
  /\ Continue(Released(Instr.guard))
  /\ UNCHANGED <<memory, text>>

fe_restoregc ==
  /\ Running("restore")
  /\ LET n == top.saved[Instr.guard] + Instr.n IN
     gcstack' = IF n < Len(gcstack) THEN SubSeq(gcstack, 1, n) ELSE gcstack
  /\ Continue(Released(Instr.guard))
  /\ UNCHANGED <<memory, text>>

\* The car and the cdr of nil are nil.
CarOf(v) == IF v = "nil" THEN "nil" ELSE heap[v].car
CdrOf(v) == IF v = "nil" THEN "nil" ELSE heap[v].cdr

\* The binding of sym in a list of bindings or a frame, or the global one.
RECURSIVE Bound(_, _)
Bound(sym, list) ==
  IF list = "nil" THEN Global
  ELSE IF heap[heap[list].car].car = sym THEN heap[list].car ELSE Bound(sym, heap[list].cdr)

getbound(sym, env) ==
  IF CarOf(env) # "frame" THEN Bound(sym, env)
  ELSE LET b == Bound(sym, CarOf(CdrOf(env))) IN
       IF b # Global THEN b ELSE Bound(sym, CdrOf(CdrOf(env)))

RECURSIVE list_has(_, _)
list_has(list, item) == list # "nil" /\ (heap[list].car = item \/ list_has(heap[list].cdr, item))

\* Assignments to local variables, and reads of a node or a form.
Move ==
  /\ \/ Running("copy") /\ Continue(Define(Instr.to, Val(Instr.v)))
     \/ Running("car") /\ Continue(Define(Instr.to, CarOf(Val(Instr.a))))
     \/ Running("cdr") /\ Continue(Define(Instr.to, CdrOf(Val(Instr.a))))
     \/ Running("lookup") /\ Continue(Define(Instr.to, getbound(Val(Instr.v), Val(Instr.a))))
     \/ Running("name") /\ Continue(Define(Instr.to, top.obj.name))
     \/ Running("exprname") /\ Continue(Define(Instr.to, top.expr.name))
     \/ Running("param") /\ Continue([Define(Instr.to, Head(top.arg)) EXCEPT !.arg = Tail(@)])
     \/ Running("outer") /\ Continue(Define(Instr.to, frames[Len(frames) - 1].env["env"]))
  /\ UNCHANGED <<memory, gcstack, text>>

Store ==
  /\ Running("setcdr")
  /\ heap' = [heap EXCEPT ![Val(Instr.a)].cdr = Val(Instr.b)]
  /\ Continue(Advance)
  /\ UNCHANGED <<spans, collections, gcstack, text>>

StoreOuter ==
  /\ Running("setouter")
  /\ frames' = [frames EXCEPT ![Len(frames)] = Advance, ![Len(frames) - 1].env["env"] = Val(Instr.v)]
  /\ UNCHANGED <<memory, gcstack, text>>

LinkTail ==
  /\ Running("link")
  /\ heap' = IF Val("head") = "nil" THEN heap
             ELSE [heap EXCEPT ![Val("last")].cdr = Val("cell")]
  /\ Continue([Advance EXCEPT !.env =
       Assign(Assign(@, "last", Val("cell")),
              "head", IF Val("head") = "nil" THEN Val("cell") ELSE Val("head"))])
  /\ UNCHANGED <<spans, collections, gcstack, text>>

\* The functions of the program that is evaluated.
FnsOf == Programs[source.program].fns

\* The evaluator goes on to another part of the program.
Fetch ==
  /\ \/ Running("next") /\ Continue([Advance EXCEPT !.expr = Head(top.arg), !.arg = Tail(@)])
     \/ Running("elements") /\ Continue([Advance EXCEPT !.arg = top.obj.es])
     \/ Running("parts") /\ Continue([Advance EXCEPT !.arg = Parts(top.obj)])
     \/ Running("params") /\ Continue([Advance EXCEPT !.arg = FnsOf[Val(Instr.v)].params])
     \/ Running("body") /\ Continue([Advance EXCEPT !.expr = FnsOf[Val(Instr.v)].body])
     \/ Running("inner") /\ Continue([Advance EXCEPT !.expr = @.es[1]])
     \/ Running("again") /\ Continue([Advance EXCEPT !.obj = top.expr])
  /\ UNCHANGED <<memory, gcstack, text>>

IsPair(v) == v \in Cell /\ heap[v].car \notin {"data", "fn"}

\* A new form is evaluated with the variables env, newenv and in_func_tail; the
\* others are set before they are read.
Opened ==
  [Goto(top.obj.op) EXCEPT !.saved = [n \in {} |-> 0],
     !.env = [n \in {"env", "newenv", "tail"} \cap DOMAIN @ |-> @[n]]]

Branch ==
  /\ \/ Running("jump") /\ Test(TRUE)
     \/ Running("ifis") /\ Test(Val(Instr.v) = Instr.is)
     \/ Running("ifpair") /\ Test(IsPair(Val(Instr.a)))
     \/ Running("ifform") /\ Test(Val(Instr.a) \in Cell /\ heap[Val(Instr.a)].car = Instr.is)
     \/ Running("iferror") /\ Test(hadError)
     \/ Running("ifnone") /\ Test(top.arg = <<>>)
     \/ Running("ifobj") /\ Test(top.obj.op = Instr.f)
     \/ Running("ifexpr") /\ Test(top.expr.op = Instr.f)
     \/ Running("ifhas") /\ Test(list_has(Val(Instr.a), Val(Instr.v)))
     \/ Running("use") /\ Continue(Advance)
     \/ Running("dispatch") /\ Continue(Opened)
  /\ UNCHANGED <<memory, gcstack, text>>

\* The source text decides.
Choose ==
  /\ Running("pick")
  /\ \E i \in 1 .. Len(Instr.ls) :
       /\ i # 1 => Instr.ls[i] \in source.syntax /\ fuel > 0
       /\ fuel' = IF i = 1 THEN fuel ELSE fuel - 1
       /\ Continue(Goto(Instr.ls[i]))
  /\ UNCHANGED <<memory, gcstack, hadError>>

\* The parameters of a function: of the evaluator's, or of a parse function.
ParamsOf(f, n) ==
  IF f \in DOMAIN EvalParams THEN EvalParams[f]
  ELSE IF n = 1 THEN <<"x">> ELSE SubSeq(<<"op", "x", "y", "z">>, 1, n)

Enter ==
  /\ Running("call")
  /\ LET n == Len(Instr.args)
         ps == ParamsOf(Instr.f, n)
     IN frames' = Append([frames EXCEPT ![Len(frames)] = Advance],
          Frame(Instr.f, [p \in {ps[i] : i \in 1 .. n} |->
                            Val(Instr.args[CHOOSE i \in 1 .. n : ps[i] = p])],
                top.expr, top.arg))
  /\ UNCHANGED <<memory, gcstack, text>>

\* The result goes to the variable that the caller's Call names.
Return ==
  /\ Running("ret")
  /\ LET n == Len(frames) - 1
         f == frames[n]
         to == Code[f.fn][f.at][f.pc - 1].to
     IN frames' = IF n = 0 THEN <<>>
                  ELSE [i \in 1 .. n |-> IF i < n THEN frames[i]
                                         ELSE [f EXCEPT !.env = Assign(@, to, Val(Instr.v))]]
  /\ UNCHANGED <<memory, gcstack, text>>

\* error_at: a try scope catches it, otherwise the parser goes on with nil.
error_at ==
  /\ Running("error")
  /\ IF frames[1].fn = "try_compile"
     THEN Abandon /\ hadError' = hadError
     ELSE hadError' = TRUE /\ Continue(Advance) /\ gcstack' = gcstack
  /\ UNCHANGED <<memory, fuel>>

fe_error == Running("fail") /\ Abandon /\ UNCHANGED <<memory, text>>

\* The host has done with the program.
Done == frames = <<>> /\ UNCHANGED vars

Init ==
  /\ source \in Sources
  /\ frames = LET main == Programs[source.program].main IN
              <<Frame(source.host, [n \in {} |-> "nil"], main, <<>>)>>
  /\ heap = [c \in Cell |-> IF c = Global THEN [car |-> "symbol", cdr |-> "nil"] ELSE Free]
  /\ gcstack = <<>> /\ spans = {}
  /\ hadError = FALSE /\ fuel = source.fuel /\ collections = source.collections

Step ==
  \/ fe_cons \/ fe_symbol \/ fe_pushgc \/ fe_savegc \/ fe_restoregc
  \/ Move \/ Store \/ StoreOuter \/ LinkTail \/ Fetch \/ Branch \/ Choose
  \/ Enter \/ Return \/ error_at \/ fe_error \/ Done

Next == Step /\ UNCHANGED source

Spec == Init /\ [][Next]_vars

-----------------------------------------------------------------------------
(* Properties. *)

\* No function takes roots of its callers off the gcstack: every index that an
\* active function has saved is still inside it, so its fe_restoregc drops
\* entries and never brings old ones back.
SavedInside ==
  \A i \in 1 .. Len(frames) : \A g \in DOMAIN frames[i].saved : frames[i].saved[g] <= Len(gcstack)

\* The cells the next instruction reads or stores.
Operands ==
  LET names == IF Instr.op \in {"cons", "setcdr"} THEN {Instr.a, Instr.b}
               ELSE IF Instr.op = "link" THEN {"cell", "last", "head"}
               ELSE {Instr[n] : n \in {"a"} \cap DOMAIN Instr}
      cells == {Val(n) : n \in names} \cap Cell
  IN IF Instr.op \in {"use", "lookup", "ifhas"} THEN Reach(cells) ELSE cells

\* No function uses a cell that a collection has freed: what a parse function or
\* the evaluator pushes, reads, links, binds or conses is live ("protect
\* operand", "keep elem alive", "rooting intermediates"), the lists it searches
\* are whole, and so is the program or the value that the host gets.
OperandsLive == frames # <<>> => \A c \in Operands : heap[c] # Free

\* No collection frees a part of what has been built: every cell that a root
\* leads to is live.  A cell that is freed inside the fe_cons that stores it
\* would leave its parent with a dangling car.  And no span outlives its node,
\* to be found for the next one at the same address.
TreeWhole == \A c \in Reach(Roots) \cup spans : heap[c] # Free

=============================================================================
