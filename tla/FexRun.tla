------------------------------- MODULE FexRun -------------------------------
(***************************************************************************)
(* Recoverable runs of one context: the fex_try_* functions of             *)
(* src/src/fex.c, the evaluation runs, the budgets, the module stack and   *)
(* the file imports of src/src/fe.c, and how an error unwinds them.        *)
(*                                                                         *)
(* stack is the C stack, one frame for each active call that has state to  *)
(* undo.  An error leaves by longjmp to the innermost try frame; what the  *)
(* frames between had counted or pushed in the context is then put right   *)
(* by fe_error, by the try frame, or by nobody.  A script is any sequence  *)
(* of the steps below: the model does not look at programs.                *)
(*                                                                         *)
(* Abstractions: source text, values and paths; the name of a module       *)
(* stands for its resolved path.  Temporary buffers exist only inside a    *)
(* compile frame and go with it.                                           *)
(***************************************************************************)
EXTENDS Integers, Sequences, FiniteSetsExt, SequencesExt

CONSTANTS
  Module,      \* the modules that files can be imported from
  None,        \* no module
  StepLimit,   \* step_limit
  MaxDepth,    \* max_eval_depth
  NativeBound, \* bound of the model: C functions are called below this depth
  Scripts      \* the sets of features that the scripts of a host use

\* "import": file imports.  "badfile": an imported file cannot be read or
\* compiled.  "module": module blocks.  "native": C functions that evaluate
\* code, as map, filter and reduce do.  "reenter": C functions that call
\* fex_try_do_string.  "ignore": and that carry on when it fails.
Features == {"import", "badfile", "module", "native", "reenter", "ignore"}

ASSUME RunAssumption ==
  /\ None \notin Module
  /\ StepLimit \in Nat \ {0} /\ MaxDepth \in Nat \ {0} /\ NativeBound \in Nat
  /\ Scripts \subseteq SUBSET Features

VARIABLES
  features,  \* the features that the scripts use
  stack,     \* the active C calls, the innermost last
  error,     \* the status that the last fex_try_* call has returned: ok, compile,
             \* runtime or io
  compiles,  \* the length of the list g_compile_state
  evalDepth, \* eval_depth: the active fe_eval calls
  curDepth,  \* current_eval_depth: the active eval calls
  calllist,  \* the position of the eval frame that calllist points to; 0 is nil
  steps,     \* steps_executed
  dirs,      \* source_dir_count, and source_buffer_count
  loading,   \* loading_modules
  mods,      \* the length of modulestack; -1 is a NULL pointer
  cache,     \* loaded_module_paths
  spent      \* ghost: the steps of the outermost evaluation so far

counters == <<compiles, evalDepth, curDepth, calllist, steps>>
imports == <<dirs, loading, mods, cache>>
vars == <<features, stack, error, counters, imports, spent>>

\* saved is cdr(&cl) of an eval frame: calllist when the call began.  used says
\* that a call which the frame makes at most once has been made: the eval call
\* of fe_eval and of a module block, the special form or C function of an eval
\* call.  A C function makes one fex_try_* call, and any number of fe_eval calls.
Frame(k) == [kind |-> k, mod |-> None, saved |-> 0, used |-> FALSE]
ImportFrame(m) == [Frame("import") EXCEPT !.mod = m]
EvalFrame(calls) == [Frame("eval") EXCEPT !.saved = calls]

Init ==
  /\ features \in Scripts
  /\ stack = <<>> /\ error = "ok"
  /\ compiles = 0 /\ evalDepth = 0 /\ curDepth = 0 /\ calllist = 0 /\ steps = 0
  /\ dirs = 0 /\ loading = <<>> /\ mods = 0 /\ cache = {}
  /\ spent = 0

-----------------------------------------------------------------------------
(* The stack and the longjmp. *)

Top == Last(stack)
\* The innermost frame has just received an error status.
failed == stack # <<>> /\ error # "ok"
Running(k) == stack # <<>> /\ Top.kind = k /\ ~failed
Fresh(k) == Running(k) /\ ~Top.used
Used == IF stack = <<>> THEN <<>> ELSE [stack EXCEPT ![Len(stack)].used = TRUE]
Push(frames) == stack' = stack \o frames
PushOnce(frames) == stack' = Used \o frames
Pop == stack' = Front(stack)
Active(kinds) == Cardinality({i \in 1 .. Len(stack) : stack[i].kind \in kinds})

\* string_array_pop, and end_eval_run: nothing happens at zero.
PopCount(n) == IF n = 0 THEN 0 ELSE n - 1
PopArray(s) == IF s = <<>> THEN <<>> ELSE Front(s)

\* The try frame that a longjmp reaches, and the compile scopes above it.
Catcher == Max({i \in 1 .. Len(stack) : stack[i].kind = "try"})
ScopesAbove == Cardinality({i \in Catcher .. Len(stack) : stack[i].kind = "compile"})

\* The error branch of fex_try_run_internal: the compile scopes entered under
\* it are left, and the import state of the whole context is reset.
Unwind(status) ==
  /\ stack' = SubSeq(stack, 1, Catcher - 1)
  /\ error' = status
  /\ compiles' = compiles - ScopesAbove
  /\ dirs' = 0 /\ loading' = <<>> /\ mods' = 0

\* Fault: fe_error leaves calllist as it is.
FeErrorKeepsCalls ==
  /\ Unwind("runtime")
  /\ evalDepth' = 0 /\ curDepth' = 0
  /\ UNCHANGED <<calllist, steps, cache, spent>>

\* fe_error resets the counters of the context before its handler jumps.
FeError ==
  /\ Unwind("runtime")
  /\ evalDepth' = 0 /\ curDepth' = 0 /\ calllist' = 0
  /\ UNCHANGED <<steps, cache, spent>>

\* fex_try_raise and fex_try_raise_error only jump.
TryRaise(status) ==
  /\ Unwind(status)
  /\ UNCHANGED <<evalDepth, curDepth, calllist, steps, cache, spent>>

-----------------------------------------------------------------------------
(* Evaluation. *)

\* Fault: every fe_eval starts a new budget.
BeginEvalRunAlways ==
  /\ steps' = 0
  /\ evalDepth' = evalDepth + 1

\* begin_eval_run: the budget starts anew when no evaluation is active.
BeginEvalRun ==
  /\ steps' = (IF evalDepth = 0 THEN 0 ELSE steps)
  /\ evalDepth' = evalDepth + 1

\* The ghost starts anew when there really is no evaluation active.
BeginSpent == spent' = (IF Active({"run"}) = 0 THEN 0 ELSE spent)

\* The start of eval, check_eval_budget included.  A symbol or an atom is an
\* eval call that returns at once.
EnterEval(from, depth, calls) ==
  /\ steps' = steps + 1
  /\ spent' = (IF spent > StepLimit THEN spent ELSE spent + 1)
  /\ IF steps + 1 > StepLimit \/ depth >= MaxDepth
     THEN /\ Unwind("runtime")
          /\ evalDepth' = 0 /\ curDepth' = 0 /\ calllist' = 0
     ELSE /\ stack' = Append(from, EvalFrame(calls))
          /\ curDepth' = depth + 1
          /\ calllist' = Len(from) + 1
          /\ UNCHANGED <<error, compiles, evalDepth, dirs, loading, mods>>
  /\ UNCHANGED cache

\* fe_eval and a module block call eval once; eval calls itself for operands.
Eval ==
  /\ Fresh("run") \/ Fresh("module") \/ Running("eval")
  /\ EnterEval(IF Top.kind = "eval" THEN stack ELSE Used, curDepth, calllist)

\* Fault: the jump goes past check_eval_budget.
TailCallFree ==
  /\ Running("eval")
  /\ stack' = [stack EXCEPT ![Len(stack)] = EvalFrame(Top.saved)]
  /\ UNCHANGED <<error, counters, imports, spent>>

\* goto tail_call, in if, do and the body of a function: the same frame.
TailCall == Running("eval") /\ EnterEval(Front(stack), curDepth - 1, Top.saved)

EvalReturn ==
  /\ Running("eval") /\ Pop
  /\ curDepth' = curDepth - 1 /\ calllist' = Top.saved
  /\ UNCHANGED <<error, compiles, evalDepth, steps, imports, spent>>

\* fe_eval returns, end_eval_run included; only after its eval call.
RunReturn ==
  /\ Running("run") /\ Top.used /\ Pop
  /\ evalDepth' = PopCount(evalDepth)
  /\ UNCHANGED <<error, compiles, curDepth, calllist, steps, imports, spent>>

\* Any runtime error that a script, a budget, a timeout or an interrupt raises.
RuntimeError == \E k \in {"eval", "import", "native", "compile"} : Running(k) /\ FeError

-----------------------------------------------------------------------------
(* Compilation and the recoverable entry points. *)

\* fex_try_do_string, fex_try_do_string_named and fex_try_compile, from the
\* host program or from a C function that a script called.
TryString ==
  /\ stack = <<>> \/ ("reenter" \in features /\ Fresh("native"))
  /\ PushOnce(<<Frame("try"), Frame("compile")>>)
  /\ compiles' = compiles + 1
  /\ error' = "ok"
  /\ UNCHANGED <<evalDepth, curDepth, calllist, steps, imports, spent>>

\* fex_try_do_file: a source directory and a source buffer are pushed.
TryFile ==
  /\ stack = <<>>
  /\ Push(<<Frame("try"), Frame("file"), Frame("compile")>>)
  /\ compiles' = compiles + 1 /\ dirs' = dirs + 1
  /\ error' = "ok"
  /\ UNCHANGED <<evalDepth, curDepth, calllist, steps, loading, mods, cache, spent>>

\* The file cannot be read: do_file_common raises an I/O error.
TryFileUnreadable ==
  /\ stack = <<>>
  /\ error' = "io"
  /\ dirs' = 0 /\ loading' = <<>> /\ mods' = 0
  /\ UNCHANGED <<stack, counters, cache, spent>>

\* fex_try_eval of a compiled program.
TryEval ==
  /\ stack = <<>>
  /\ Push(<<Frame("try"), Frame("run")>>)
  /\ BeginEvalRun /\ BeginSpent
  /\ error' = "ok"
  /\ UNCHANGED <<compiles, curDepth, calllist, imports>>

\* Whether the innermost compilation is that of an imported file.
OfImport == Len(stack) > 1 /\ stack[Len(stack) - 1].kind = "load"

\* A syntax error: error_at jumps out of fex_compile_named.
CompileError ==
  /\ Running("compile")
  /\ OfImport => "badfile" \in features
  /\ TryRaise("compile")

\* fex_compile_named returns and fex_do_string_named evaluates the program.
CompileThenEval ==
  /\ Running("compile")
  /\ stack' = [stack EXCEPT ![Len(stack)] = Frame("run")]
  /\ compiles' = compiles - 1
  /\ BeginEvalRun /\ BeginSpent
  /\ UNCHANGED <<error, curDepth, calllist, imports>>

\* fex_try_compile: the program is handed back.
CompileOnly ==
  /\ Running("compile") /\ stack[Len(stack) - 1].kind = "try"
  /\ Pop
  /\ compiles' = compiles - 1
  /\ UNCHANGED <<error, evalDepth, curDepth, calllist, steps, imports, spent>>


\* The success branch of fex_try_run_internal.
TryReturn ==
  /\ Running("try") /\ Pop
  /\ UNCHANGED <<error, counters, imports, spent>>

-----------------------------------------------------------------------------
(* C functions. *)

NativeCall ==
  /\ {"native", "reenter"} \cap features # {}
  /\ Len(stack) < NativeBound
  /\ Fresh("eval") /\ PushOnce(<<Frame("native")>>)
  /\ UNCHANGED <<error, counters, imports, spent>>

\* builtin_map, builtin_filter and builtin_fold call fe_eval.
NativeEval ==
  /\ "native" \in features
  /\ Running("native") /\ Push(<<Frame("run")>>)
  /\ BeginEvalRun /\ BeginSpent
  /\ UNCHANGED <<error, compiles, curDepth, calllist, imports>>

NativeReturn ==
  /\ Running("native") /\ Pop
  /\ UNCHANGED <<error, counters, imports, spent>>

\* A nested fex_try_* call has failed; the C function reports the error ...
NativeReports == failed /\ Top.kind = "native" /\ FeError

\* ... or carries on.
NativeIgnores ==
  /\ "ignore" \in features
  /\ failed /\ Top.kind = "native"
  /\ error' = "ok"
  /\ UNCHANGED <<stack, counters, imports, spent>>

-----------------------------------------------------------------------------
(* Modules and imports. *)

\* P_MODULE: its export table is on the module stack while its body runs.
ModuleBlock ==
  /\ "module" \in features
  /\ Fresh("eval") /\ PushOnce(<<Frame("module")>>)
  /\ mods' = mods + 1
  /\ UNCHANGED <<error, counters, dirs, loading, cache, spent>>

ModuleEnd ==
  /\ Running("module") /\ Top.used /\ Pop
  /\ mods' = mods - 1
  /\ UNCHANGED <<error, counters, dirs, loading, cache, spent>>


\* import_module_spec of a module that is neither loaded nor being loaded:
\* its file is read and compiled under a try frame and an export table.
ImportFile(m) ==
  /\ m \notin cache /\ m \notin Range(loading)
  /\ PushOnce(<<ImportFrame(m), Frame("try"), Frame("load"), Frame("compile")>>)
  /\ compiles' = compiles + 1
  /\ loading' = Append(loading, m) /\ dirs' = dirs + 1 /\ mods' = mods + 1
  /\ UNCHANGED <<error, evalDepth, curDepth, calllist, steps, cache, spent>>

\* read_text_file fails: do_file_common raises an I/O error to the try frame.
ImportUnreadable(m) ==
  /\ "badfile" \in features
  /\ m \notin cache /\ m \notin Range(loading)
  /\ PushOnce(<<ImportFrame(m)>>) /\ error' = "io"
  /\ dirs' = 0 /\ loading' = <<>> /\ mods' = 0
  /\ UNCHANGED <<counters, cache, spent>>

ImportCyclic(m) == m \notin cache /\ m \in Range(loading) /\ FeError

\* A module that is loaded is found in the cache: only names are bound.
Import ==
  /\ "import" \in features /\ Fresh("eval")
  /\ \E m \in Module : ImportFile(m) \/ ImportUnreadable(m) \/ ImportCyclic(m)

\* do_file_common, once fex_do_string_named has returned.
FileEnd ==
  /\ \E k \in {"file", "load"} : Running(k)
  /\ Pop
  /\ dirs' = PopCount(dirs)
  /\ mods' = (IF Top.kind = "load" THEN mods - 1 ELSE mods)
  /\ UNCHANGED <<error, counters, loading, cache, spent>>

\* The rest of import_module_spec after a success.
ImportEnd ==
  /\ Running("import") /\ Pop
  /\ loading' = PopArray(loading)
  /\ cache' = cache \cup {Top.mod}
  /\ UNCHANGED <<error, counters, dirs, mods, spent>>

\* Fault: the error is reported again, as a runtime error.
ImportReports == failed /\ Top.kind = "import" /\ TryRaise("runtime")

\* ... and after an error, which is raised again to the next try frame.
ImportFails == failed /\ Top.kind = "import" /\ TryRaise(error)

-----------------------------------------------------------------------------
Step ==
  \/ Eval \/ TailCall \/ EvalReturn \/ RunReturn \/ RuntimeError
  \/ TryString \/ TryFile \/ TryFileUnreadable \/ TryEval
  \/ CompileError \/ CompileThenEval \/ CompileOnly \/ TryReturn
  \/ NativeCall \/ NativeEval \/ NativeReturn \/ NativeReports \/ NativeIgnores
  \/ ModuleBlock \/ ModuleEnd
  \/ Import \/ FileEnd \/ ImportEnd \/ ImportFails

Next == Step /\ UNCHANGED features

\* The thread keeps running: while a step is possible, one is taken.
Spec == Init /\ [][Next]_vars /\ WF_vars(Next)

-----------------------------------------------------------------------------
(* Properties. *)

\* No imported file is bad and no error is ignored.  Without this the counters
\* go wrong: see BudgetPerRun for a bad file, and, for an ignored error, that
\* fe_error and the try frame reset what the runs around them still need.
Orderly == features \cap {"badfile", "ignore"} = {}

\* Whatever mixture of returns and errors has happened, eval_depth and
\* current_eval_depth count the calls that are really active, and so are zero
\* between two runs; while an error travels from one try frame to the next they
\* may be ahead of it.
DepthsTrue ==
  Orderly /\ ~failed => evalDepth = Active({"run"}) /\ curDepth = Active({"eval"})

\* The source directories, the module stack and the list of modules being loaded
\* describe the files and modules that are being evaluated, with files that fail
\* to load too: an export finds the table of its own module, an import resolves
\* against the file that it stands in.
ImportsTrue ==
  "ignore" \notin features /\ ~failed =>
    /\ dirs = Active({"file", "load"}) /\ mods = Active({"module", "load"})
    /\ Len(loading) = Active({"import"})

\* Between two runs nothing of an import is left behind, failed or not, even when
\* a C function has ignored an error: the next run starts outside every file.
NothingLeft == stack = <<>> => dirs = 0 /\ loading = <<>> /\ mods = 0

\* g_compile_state never outlives the compilations in progress, even when a C
\* function ignores the error of a nested run.
ScopesNested == compiles = Active({"compile"})


\* calllist, from which an error's trace is read, is a chain through C stack
\* frames that are still active.
CallListLive ==
  Orderly /\ ~failed /\ calllist > 0 => calllist <= Len(stack) /\ stack[calllist].kind = "eval"

\* The steps that the limit is compared with are the steps of the outermost
\* active evaluation: "fe_set_step_limit() sets a per-top-level evaluation
\* budget", nested fe_eval and fex_try_* calls included.
BudgetPerRun == Active({"run"}) > 0 => steps = spent

\* BudgetPerRun, for hosts whose imported files compile and whose C functions
\* report the errors of nested runs, so that eval_depth is what it counts.
BudgetKept == Orderly => BudgetPerRun


\* With a step limit every run comes to an end and control returns to the host.
Terminates == (Orderly /\ stack # <<>>) ~> (stack = <<>>)

=============================================================================
