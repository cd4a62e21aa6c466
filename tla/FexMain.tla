------------------------------- MODULE FexMain -------------------------------
(***************************************************************************)
(* The command line of src/src/main.c as a host of the recoverable runs of *)
(* FexRun: fex_main_utf8 reads the arguments, sets up the context, runs a  *)
(* source, a file, its standard input or the REPL, and turns the status of *)
(* the run into messages and an exit code.                                 *)
(*                                                                         *)
(* An argument is a word; "-x" stands for every unknown one that begins    *)
(* with a dash, and a value either parses or does not.  What the flags     *)
(* configure in the context is the business of the other modules.          *)
(***************************************************************************)
EXTENDS FexRun

CONSTANT CommandLines   \* the command lines: sequences of words

VARIABLES
  argv,   \* the arguments that are left
  main,   \* the local variables of fex_main_utf8, and what it has said
  raised  \* ghost: the status of the last error that a step raised anew

mainVars == <<argv, main, raised>>

Flags == {"--spans", "--builtins", "--stats"}
Numbers == {"--max-steps", "--timeout-ms", "--max-memory", "--max-eval-depth",
            "--max-read-depth", "--memory-pool-size"}
Paths == {"--module-path", "-I"}
Valued == Numbers \cup Paths \cup {"-e", "--builtin"}
Informative == {"--version", "-V", "--help", "-h"}

builtin_mask_from_name ==
  {"math", "string", "list", "io", "system", "type", "data", "safe", "all"}

\* "0" is a number but no pool size.
Accepts(option, value) ==
  CASE option = "--builtin" -> value \in builtin_mask_from_name
    [] option = "--memory-pool-size" -> value = "1"
    [] option \in Numbers -> value \in {"0", "1"}
    [] OTHER -> TRUE

\* code says that eval_source is not NULL: it is never an empty string.  held
\* are the blocks that main has to free, told the messages on stderr, status is
\* run_error.status, ran says that a run was started.
Started ==
  [at |-> "options", endOfOptions |-> FALSE, code |-> FALSE, file |-> FALSE,
   stdin |-> FALSE, json |-> FALSE, paths |-> 0, batch |-> FALSE, ran |-> FALSE,
   held |-> {"module_paths"}, told |-> <<>>, status |-> "ok", exit |-> 0]
Library == [Started EXCEPT !.at = "library"]

At(p) == main.at = p /\ stack = <<>>
Tell(form, status) == Append(main.told, [form |-> form, status |-> status])

\* A return of main that frees the blocks in freed.
Leave(code, status, freed) ==
  /\ main' = [main EXCEPT !.at = "exit", !.exit = code, !.held = @ \ freed,
                          !.told = IF code = 0 THEN @ ELSE Tell("text", status)]
  /\ UNCHANGED <<argv, raised, vars>>

-----------------------------------------------------------------------------
(* The arguments. *)

Argument(n, m) ==
  /\ At("options") /\ Len(argv) >= n
  /\ argv' = SubSeq(argv, n + 1, Len(argv))
  /\ main' = m
  /\ UNCHANGED <<raised, vars>>

Word == argv[1]
Option == ~main.endOfOptions /\ Word # "-" /\ Word \in Flags \cup Valued \cup Informative
                                             \cup {"--", "--json-output", "-x"}
GivesCode == Option /\ Word = "-e"
OtherSource == main.file \/ main.stdin \/ (main.code /\ ~GivesCode)

EndOfOptions == argv # <<>> /\ Option /\ Word = "--"
                /\ Argument(1, [main EXCEPT !.endOfOptions = TRUE])

Flag ==
  /\ argv # <<>> /\ Option
  /\ \/ Word \in Flags /\ Argument(1, main)
     \/ Word = "--json-output" /\ Argument(1, [main EXCEPT !.json = TRUE])

\* append_source_fragment does nothing with an empty fragment, but two sources
\* are put on two lines.
Appends == main.code \/ argv[2] # ""

Value ==
  /\ Len(argv) > 1 /\ Option /\ Word \in Valued
  /\ Accepts(Word, argv[2])
  /\ \/ Word \in Numbers \cup {"--builtin"} /\ Argument(2, main)
     \/ Word \in Paths /\ Argument(2, [main EXCEPT !.paths = @ + 1])
     \/ /\ GivesCode /\ ~OtherSource
        /\ IF Appends
           THEN Argument(2, [main EXCEPT !.code = TRUE, !.held = @ \cup {"eval_source"}])
           ELSE Argument(2, main)

Input ==
  /\ argv # <<>> /\ ~Option /\ ~OtherSource
  /\ Argument(1, IF Word = "-" THEN [main EXCEPT !.stdin = TRUE] ELSE [main EXCEPT !.file = TRUE])

Parsed == {"eval_source", "module_paths"}

\* An unknown option, a value that is missing or wrong, a second input.
UsageError ==
  /\ At("options") /\ argv # <<>>
  /\ \/ Option /\ Word = "-x"
     \/ Option /\ Word \in Valued /\ (Len(argv) = 1 \/ ~Accepts(Word, argv[2]))
     \/ (Option => GivesCode) /\ OtherSource
  /\ Leave(64, "usage", Parsed)

Information ==
  /\ At("options") /\ argv # <<>> /\ Option /\ Word \in Informative
  /\ Leave(0, "ok", Parsed)

-----------------------------------------------------------------------------
(* The context. *)

Go(m) == main' = m /\ UNCHANGED <<argv, raised, vars>>

\* malloc of the pool, fe_open, fex_init_with_builtins and the limits.
OpenContext ==
  /\ At("options") /\ argv = <<>>
  /\ Go([main EXCEPT !.at = "paths", !.held = @ \cup {"mem", "ctx"}])

\* malloc fails: for the module paths, for the source, or for the pool; or the
\* pool is too small for fe_open.
OutOfMemory ==
  /\ At("options")
  /\ \/ main = Started \/ argv = <<>>
     \/ Len(argv) > 1 /\ GivesCode /\ ~OtherSource /\ Appends
  /\ Leave(1, "memory", Parsed)

AddPath ==
  /\ At("paths") /\ main.paths > 0
  /\ Go([main EXCEPT !.paths = @ - 1])

AddPathFails ==
  /\ At("paths") /\ main.paths > 0
  /\ Leave(1, "memory", Parsed \cup {"ctx", "mem"})

\* What is run: the first of -e, a file, and standard input unless it is a
\* terminal and "-" was not given.
ChooseInput ==
  /\ At("paths") /\ main.paths = 0
  /\ \E next \in IF main.code THEN {"source"} ELSE IF main.file THEN {"file"}
                 ELSE IF main.stdin THEN {"stdin"} ELSE {"stdin", "repl"} :
       Go([main EXCEPT !.at = next, !.batch = (next # "repl"), !.held = @ \ {"module_paths"}])

-----------------------------------------------------------------------------
(* The runs. *)

Call(try, next) ==
  /\ try
  /\ main' = [main EXCEPT !.at = next, !.ran = TRUE]
  /\ raised' = error'
  /\ UNCHANGED <<argv, features>>

run_source == At("source") /\ Call(TryString, "finished")
run_file == At("file") /\ Call(TryFile \/ TryFileUnreadable, "finished")

\* An empty input is a success without a run.
read_stream_source ==
  /\ At("stdin")
  /\ \/ Go([main EXCEPT !.at = "source", !.held = @ \cup {"stdin_source"}])
     \/ Go([main EXCEPT !.at = "report"])
     \/ Go([main EXCEPT !.at = "report", !.exit = 74, !.status = "io",
                        !.told = IF main.json THEN @ ELSE Tell("text", "io")])

\* A line of at most REPL_BUFFER_SIZE - 1 bytes, or the end of the input.
run_repl ==
  \/ At("repl") /\ Call(TryString, "line")
  \/ At("repl") /\ Go([main EXCEPT !.at = "report"])
  \/ At("line") /\ Go([main EXCEPT !.at = "repl"])

\* The run of FexRun goes on; an error that an import passes on is not new.
RunStep ==
  /\ main.at = "library" \/ stack # <<>>
  /\ Next
  /\ raised' = IF error' = "ok" THEN "ok"
               ELSE IF failed /\ Top.kind = "import" THEN raised ELSE error'
  /\ UNCHANGED <<argv, main>>

\* builtin_exit: the process ends, and the context with it, with the code of
\* the script.
ScriptExit ==
  /\ main.at # "library" /\ Running("native")
  /\ main' = [main EXCEPT !.at = "gone"]
  /\ stack' = <<>>
  /\ compiles' = 0 /\ evalDepth' = 0 /\ curDepth' = 0 /\ calllist' = 0 /\ steps' = 0
  /\ dirs' = 0 /\ loading' = <<>> /\ mods' = 0 /\ cache' = {} /\ spent' = 0
  /\ UNCHANGED <<argv, raised, features, error>>

exit_code_for_status(status) ==
  CASE status = "ok" -> 0
    [] status = "compile" -> 65
    [] status = "runtime" -> 70
    [] status = "io" -> 74

\* The end of run_source and run_file.
RunFinished ==
  /\ At("finished")
  /\ Go([main EXCEPT !.at = "report", !.exit = exit_code_for_status(error),
                     !.status = error, !.held = @ \ {"stdin_source"},
                     !.told = IF error = "ok" \/ main.json THEN @ ELSE Tell("text", error)])

\* print_json_result, after a batch; then the rest is freed.
Report ==
  /\ At("report")
  /\ Go([main EXCEPT !.at = "exit", !.held = @ \ {"eval_source", "ctx", "mem"},
                     !.told = IF main.json /\ main.batch THEN Tell("json", main.status) ELSE @])

Exited == main.at \in {"exit", "gone"} /\ UNCHANGED <<vars, mainVars>>

-----------------------------------------------------------------------------
\* The builtins start no recoverable runs, so neither do the scripts that the
\* command line runs.
MainInit ==
  /\ Init /\ raised = "ok"
  /\ \/ argv = <<>> /\ main = Library
     \/ /\ argv \in CommandLines /\ main = Started
        /\ features \cap {"reenter", "ignore"} = {}

MainNext ==
  \/ EndOfOptions \/ Flag \/ Value \/ Input \/ UsageError \/ Information
  \/ OpenContext \/ OutOfMemory \/ AddPath \/ AddPathFails \/ ChooseInput
  \/ run_source \/ run_file \/ read_stream_source \/ run_repl
  \/ RunStep \/ ScriptExit \/ RunFinished \/ Report \/ Exited

MainSpec == MainInit /\ [][MainNext]_<<vars, mainVars>> /\ WF_<<vars, mainVars>>(MainNext)

-----------------------------------------------------------------------------
(* Properties. *)

\* "The CLI exits with 65 for compile errors, 70 for runtime errors, and 74 for
\* file I/O errors": the exit code is that of the error which ended the run, in
\* whatever file it was raised and through however many imports it came; a
\* failure is told exactly once, as JSON when that was asked for and the program
\* was run; and every path out of main has freed what it held.
ExitTrue ==
  main.at = "exit" =>
    /\ main.held = {}
    /\ main.exit = 0 => \A t \in Range(main.told) : t.status = "ok"
    /\ main.exit # 0 => Len(main.told) = 1 /\ Head(main.told).status # "ok"
    /\ main.ran /\ main.batch =>
         /\ main.exit = exit_code_for_status(raised)
         /\ \A t \in Range(main.told) : t.status = raised /\ t.form = IF main.json THEN "json" ELSE "text"

=============================================================================
