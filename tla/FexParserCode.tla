---------------------------- MODULE FexParserCode ----------------------------
(***************************************************************************)
(* The parse functions of src/src/fex.c, as blocks of instructions: what    *)
(* they allocate, in which order, and what is on the gcstack meanwhile.     *)
(* What the source text decides is a choice (Pick); tokens, names, numbers  *)
(* and the contents of spans are left out.                                  *)
(***************************************************************************)
EXTENDS FeInstructions

-----------------------------------------------------------------------------
(* The parse functions, as blocks of instructions; a call starts at entry.  *)
(* A Pick may always take its first block; each of the others costs fuel    *)
(* and must be in syntax.                                                   *)


\* The functions that build (op x ...): the operands are pushed, the list is
\* built from its end, and the gcstack is restored.
Form(ps) ==
  LET n == Len(ps) IN
  [entry |->
     <<Save("guard")>>
     \o [i \in 1 .. n |-> Push(ps[i])]
     \o <<Sym, Push("op")>>
     \o [i \in 1 .. n |-> Cons("tmp", ps[n + 1 - i], IF i = 1 THEN "nil" ELSE "tmp")]
     \o <<Node("res", "op", "tmp"), Restore("guard", 0), Ret("res")>>]

make_unary == Form(<<"x">>)
make_binary == Form(<<"x", "y">>)
make_ternary == Form(<<"x", "y", "z">>)
make_named_fn_decl == Form(<<"x", "y">>)
make_do_two_with_span == Form(<<"x", "y">>)
make_do_three_with_span == Form(<<"x", "y", "z">>)

\* The prefix rules of a line or two: blocks of parse_precedence_new.
parse_variable == <<Sym, Copy("left", "sym"), Jump("infix")>>
parse_literal == <<Copy("left", "nil"), Jump("infix")>>
parse_number == <<Data("left"), Jump("infix")>>
parse_string_literal == <<Text("left"), Jump("infix")>>
parse_grouping == <<Call("left", "parse_precedence_new", <<>>), Jump("infix")>>
parse_unary ==
  <<Call("right", "parse_precedence_new", <<>>),
    Call("left", "make_unary", <<"sym", "right">>), Jump("infix")>>

\* An expression.
parse_precedence_new ==
  [entry |-> <<Pick(<<"variable", "literal", "number", "string", "group", "unary",
                      "list", "fn", "nothing">>)>>,
   variable |-> parse_variable, literal |-> parse_literal, number |-> parse_number,
   string |-> parse_string_literal, group |-> parse_grouping, unary |-> parse_unary,
   list |-> <<Call("left", "parse_list", <<>>), Jump("infix")>>,
   fn |-> <<Call("left", "fn_declaration", <<>>), Jump("infix")>>,
   nothing |-> <<Error, Ret("nil")>>,
   infix |-> <<Pick(<<"end", "assign", "call", "dot", "binary", "unequal">>)>>,
   end |-> <<Ret("left")>>,
   assign |-> <<Call("right", "parse_precedence_new", <<>>),
                IfIs("left", "sym", "variables"), IfForm("left", "get", "selector"),
                Jump("nothing")>>,
   variables |-> <<Call("left", "make_binary", <<"sym", "left", "right">>), Jump("infix")>>,
   selector |-> <<Cdr("args", "left"), Car("target", "args"),
                  Cdr("args", "args"), Car("prop", "args"), Pick(<<"setter", "put">>)>>,
   setter |-> <<Call("left", "make_binary", <<"sym", "target", "right">>), Jump("infix")>>,
   put |-> <<Call("left", "make_ternary", <<"sym", "target", "prop", "right">>), Jump("infix")>>,
   call |-> <<Copy("head", "nil"), Pick(<<"called", "argument">>)>>,
   argument |-> <<Call("elem", "parse_precedence_new", <<>>), Cons("cell", "elem", "nil"),
                  Link, Pick(<<"called", "argument">>)>>,
   called |-> <<Node("left", "left", "head"), Jump("infix")>>,
   dot |-> <<Sym, Call("left", "make_binary", <<"get", "left", "sym">>), Jump("infix")>>,
   binary |-> <<Call("right", "parse_precedence_new", <<>>),
                Call("left", "make_binary", <<"sym", "left", "right">>), Jump("infix")>>,
   unequal |-> <<Call("right", "parse_precedence_new", <<>>),
                 Call("left", "make_binary", <<"sym", "left", "right">>),
                 Call("left", "make_unary", <<"sym", "left">>), Jump("infix")>>]

parse_list ==
  [entry |-> <<Copy("head", "nil"), Save("base"), Pick(<<"end", "element">>)>>,
   element |-> <<Call("elem", "parse_precedence_new", <<>>), Push("elem"),
                 Cons("cell", "elem", "nil"), Link, Restore("base", 0),
                 Push("head"), Pick(<<"end", "element">>)>>,
   end |-> <<Sym, Node("res", "sym", "head"), Ret("res")>>]

block ==
  [entry |-> <<Copy("head", "nil"), Pick(<<"end", "statement">>)>>,
   statement |-> <<Call("elem", "declaration", <<>>), Cons("cell", "elem", "nil"),
                   Link, Pick(<<"end", "more">>)>>,
   more |-> <<Jump("statement")>>,
   end |-> <<IfIs("head", "nil", "empty"), Save("guard"), Push("head"),
             Call("head", "rewrite_named_fn_declarations", <<"head">>), Restore("guard", 0),
             Cdr("args", "head"), IfIs("args", "nil", "single"),
             Save("guard"), Push("head"), Sym, Push("do"), Node("res", "do", "head"),
             Restore("guard", 0), Ret("res")>>,
   single |-> <<Car("res", "head"), Ret("res")>>,
   empty |-> <<Ret("nil")>>]

\* The parameters are listed backwards, and then reversed.
fn_declaration ==
  [entry |-> <<Copy("params", "nil"), Copy("reversed", "nil"), Pick(<<"reverse", "parameter">>)>>,
   parameter |-> <<Sym, Cons("params", "sym", "params"), Pick(<<"reverse", "parameter">>)>>,
   reverse |-> <<IfIs("params", "nil", "body"), Car("name", "params"),
                 Cons("reversed", "name", "reversed"), Cdr("params", "params"), Jump("reverse")>>,
   body |-> <<Call("body", "block", <<>>), Cons("list", "body", "nil"),
              Cons("list", "reversed", "list"), Sym, Node("res", "sym", "list"), Ret("res")>>]

return_statement ==
  <<Call("value", "parse_precedence_new", <<>>), Cons("list", "value", "nil"), Sym,
    Node("res", "sym", "list"), Ret("res")>>
\* The else branch, when there is one, is parsed before the list is built.
if_statement ==
  <<Call("cond", "parse_precedence_new", <<>>), Call("then", "statement", <<>>),
    Copy("other", "nil"), Pick(<<"build", "else">>)>>
if_list ==
  <<Cons("list", "other", "nil"), Cons("list", "then", "list"), Cons("list", "cond", "list"), Sym,
    Node("res", "sym", "list"), Ret("res")>>
while_statement ==
  <<Call("cond", "parse_precedence_new", <<>>), Call("body", "statement", <<>>),
    Cons("list", "body", "nil"), Cons("list", "cond", "list"), Sym,
    Node("res", "sym", "list"), Ret("res")>>

statement ==
  [entry |-> <<Pick(<<"expr", "return", "if", "while", "braces">>)>>,
   expr |-> <<Call("res", "parse_precedence_new", <<>>), Ret("res")>>,
   return |-> return_statement,
   if |-> if_statement,
   else |-> <<Call("other", "statement", <<>>), Jump("build")>>,
   build |-> if_list,
   while |-> while_statement,
   braces |-> <<Call("res", "block", <<>>), Ret("res")>>]

module_declaration ==
  <<Sym, Call("body", "block", <<>>), Cons("list", "body", "nil"), Cons("list", "sym", "list"),
    Sym, Node("res", "sym", "list"), Ret("res")>>
parse_import_specifier == Data("name")
import_declaration ==
  <<parse_import_specifier, Cons("list", "name", "nil"), Sym,
    Node("res", "sym", "list"), Ret("res")>>
var_declaration ==
  <<Sym, Call("value", "parse_precedence_new", <<>>),
    Call("res", "make_binary", <<"sym", "sym", "value">>)>>

declaration ==
  [entry |-> <<Pick(<<"stmt", "let", "export", "named", "exported", "module", "import">>)>>,
   stmt |-> <<Call("res", "statement", <<>>), Ret("res")>>,
   let |-> var_declaration \o <<Ret("res")>>,
   export |-> var_declaration \o <<Call("res", "make_unary", <<"sym", "res">>), Ret("res")>>,
   named |-> <<Sym, Call("value", "fn_declaration", <<>>),
               Call("res", "make_named_fn_decl", <<"fn-decl", "sym", "value">>), Ret("res")>>,
   exported |-> <<Sym, Call("value", "fn_declaration", <<>>),
                  Call("res", "make_named_fn_decl", <<"export-fn-decl", "sym", "value">>),
                  Ret("res")>>,
   module |-> module_declaration,
   import |-> import_declaration]

\* The tag of a declaration of a named function, nil for other statements.
extract_named_fn_decl ==
  [entry |-> <<IfPair("x", "pair"), Ret("nil")>>,
   pair |-> <<Sym, IfForm("x", "fn-decl", "plain"), Sym, IfForm("x", "export-fn-decl", "export"),
              Ret("nil")>>,
   plain |-> <<Ret("fn-decl")>>,
   export |-> <<Ret("export-fn-decl")>>]

\* The declarations of named functions become a let of every name, and an
\* assignment where each declaration was.
rewrite_named_fn_declarations ==
  [entry |-> <<Copy("found", "nil"), Copy("p", "x"), Jump("count")>>,
   count |-> <<IfIs("p", "nil", "counted"), Car("stmt", "p"),
               Call("tag", "extract_named_fn_decl", <<"stmt">>), Cdr("p", "p"),
               IfIs("tag", "nil", "count"), Copy("found", "sym"), Jump("count")>>,
   counted |-> <<IfIs("found", "sym", "hoist"), Ret("x")>>,
   hoist |-> <<Save("guard"), Cons("cell", "nil", "nil"), Push("cell"), Copy("head", "nil"),
               Link, Copy("p", "x"), Jump("declare")>>,
   declare |-> <<IfIs("p", "nil", "declared"), Car("stmt", "p"), Cdr("p", "p"),
                 Call("tag", "extract_named_fn_decl", <<"stmt">>), IfIs("tag", "nil", "declare"),
                 Call("let", "make_binary", <<"sym", "sym", "nil">>), Push("let"),
                 Cons("cell", "let", "nil"), Link, Restore("guard", 1), Jump("declare")>>,
   declared |-> <<Copy("p", "x"), Jump("rewrite")>>,
   rewrite |-> <<IfIs("p", "nil", "end"), Car("stmt", "p"), Cdr("p", "p"),
                 Call("tag", "extract_named_fn_decl", <<"stmt">>), IfIs("tag", "nil", "add"),
                 Cdr("args", "stmt"), Cdr("args", "args"), Car("value", "args"),
                 Call("set", "make_binary", <<"sym", "sym", "value">>),
                 IfIs("tag", "export-fn-decl", "exported"),
                 Call("stmt", "make_do_two_with_span", <<"do", "set", "sym">>), Jump("add")>>,
   exported |-> <<Save("inner"), Push("set"), Call("exp", "make_unary", <<"sym", "sym">>),
                  Call("stmt", "make_do_three_with_span", <<"do", "set", "exp", "sym">>),
                  Restore("inner", 0), Jump("add")>>,
   add |-> <<Push("stmt"), Cons("cell", "stmt", "nil"), Link, Restore("guard", 1), Jump("rewrite")>>,
   end |-> <<Cdr("res", "head"), Restore("guard", 0), Ret("res")>>]

fex_compile_named ==
  [entry |-> <<Copy("head", "nil"), Save("base"), Pick(<<"eof", "node">>)>>,
   node |-> <<Restore("base", 0), Push("head"), Call("node", "declaration", <<>>), Push("node"),
              Cons("cell", "node", "nil"), Link, IfError("abandon"), Pick(<<"eof", "nodes">>)>>,
   nodes |-> <<Jump("node")>>,
   abandon |-> <<Restore("base", 0), Ret("null")>>,
   eof |-> <<IfIs("head", "nil", "empty"), Push("head"),
             Call("head", "rewrite_named_fn_declarations", <<"head">>),
             Restore("base", 0), Push("head"), Cdr("args", "head"), IfIs("args", "nil", "single"),
             Sym, Push("do"), Node("program", "do", "head"),
             Restore("base", 0), Push("head"), Push("program"), Jump("done")>>,
   single |-> <<Car("program", "head"), Jump("done")>>,
   empty |-> <<Copy("program", "nil"), Jump("done")>>,
   done |-> <<Push("program"), Ret("program")>>]

fex_do_string_named ==
  [entry |-> <<Save("gc_save"), Call("code", "fex_compile_named", <<>>),
               IfIs("code", "null", "end"), Push("code"), Use("code"), Jump("end")>>,
   end |-> <<Restore("gc_save", 0), Ret("nil")>>]

\* fex_try_compile, after which the host allocates and evaluates the program.
fex_try_run_internal ==
  [entry |-> <<Save("gc_save"), Call("result", "fex_compile_named", <<>>), Restore("gc_save", 1),
               Data("other"), Use("result"), Restore("gc_save", 0), Ret("nil")>>]

ParserCode ==
  [make_unary |-> make_unary, make_binary |-> make_binary, make_ternary |-> make_ternary,
   make_named_fn_decl |-> make_named_fn_decl, make_do_two_with_span |-> make_do_two_with_span,
   make_do_three_with_span |-> make_do_three_with_span,
   parse_precedence_new |-> parse_precedence_new, parse_list |-> parse_list, block |-> block,
   fn_declaration |-> fn_declaration, statement |-> statement, declaration |-> declaration,
   extract_named_fn_decl |-> extract_named_fn_decl,
   rewrite_named_fn_declarations |-> rewrite_named_fn_declarations,
   fex_compile_named |-> fex_compile_named,
   do_string |-> fex_do_string_named, try_compile |-> fex_try_run_internal]

=============================================================================
