----------------------------- MODULE FexProcess -----------------------------
(***************************************************************************)
(* One runprocess call on POSIX: run_process_native of                     *)
(* src/src/fex_builtins.c and its helpers, the child it starts, and the    *)
(* pipes between them.  The parent is one thread; the child, and a process *)
(* that the child may leave behind, run on their own.                      *)
(*                                                                         *)
(* Abstractions: bytes are counted, not told apart.  A pipe holds PipeSize *)
(* bytes.  System calls succeed, except that write may find the pipe       *)
(* closed.  A stream that is inherited or discarded is not modelled        *)
(* beyond not being captured.                                              *)
(***************************************************************************)
EXTENDS Integers, FiniteSets

CONSTANTS
  PipeSize,      \* the bytes that a pipe holds
  Chunk,         \* the bytes that one read or write moves at most
  OutputBound,   \* bound of the model: the bytes written to one stream
  Calls          \* the calls that are made: see Options

\* "any" does anything, in any order, and writes at most OutputBound bytes;
\* "endless" writes for ever; "cat" copies its input to its output and exits.
Program == {"any", "endless", "cat"}
Stream == {"out", "err"}
End == {"in", "out", "err"}
Proc == {"child", "heir"}

\* The options of a call: the captured streams, stdin_len, max_stdout and
\* max_stderr (0 is no limit).  deadline says that a timeout or an interrupt
\* handler is set, sigpipe that SIGPIPE has its default action in the host.
Options ==
  [program : Program, capture : SUBSET Stream, input : Nat, limit : [Stream -> Nat],
   deadline : BOOLEAN, sigpipe : BOOLEAN]

ASSUME ProcessAssumption ==
  /\ PipeSize \in Nat \ {0} /\ Chunk \in Nat \ {0} /\ OutputBound \in Nat
  /\ Calls \subseteq Options

VARIABLES
  pc,        \* where the parent is
  opt,       \* the options of the call
  open,      \* stdin_open, stdout_open, stderr_open: the ends the parent holds
  sent,      \* stdin_offset
  buf,       \* the lengths of stdout_buf and stderr_buf
  overflow,  \* stdout_overflow and stderr_overflow
  ready,     \* what select reported
  finished,  \* process_finished
  abort,     \* abort_error is set
  result,    \* how the call ended
  pipe,      \* the bytes in each pipe
  ends,      \* the ends that each process holds
  state,     \* of the child: "none", "running", "zombie" or "reaped"
  held,      \* the bytes cat has read and not yet written
  wrote,     \* the bytes written to each stream
  expired    \* the deadline has passed, or the host interrupts

parent == <<opt, open, sent, buf, overflow, ready, finished, abort, result>>
child == <<pipe, ends, state, held, wrote>>
vars == <<pc, parent, child, expired>>

Zero == [s \in Stream |-> 0]
None == [s \in Stream |-> FALSE]

Init ==
  /\ pc = "idle" /\ opt \in Calls
  /\ open = {} /\ sent = 0 /\ buf = Zero /\ overflow = None /\ ready = {}
  /\ finished = FALSE /\ abort = FALSE /\ result = "none"
  /\ pipe = [e \in End |-> 0] /\ ends = [p \in Proc |-> {}]
  /\ state = "none" /\ held = 0 /\ wrote = Zero
  /\ expired = FALSE

-----------------------------------------------------------------------------
(* The parent. *)

Goto(l) == pc' = l
At(l) == pc = l

\* A read on an empty pipe e finds the end of the file; a write, no reader.
Closed(e) == \A p \in Proc : e \notin ends[p]

Least(a, b) == IF a < b THEN a ELSE b

\* The pipes are made, the child is forked, and each side closes the ends of
\* the other.  The parent keeps its end of stdin only if it has bytes for it.
Start ==
  /\ At("idle") /\ result = "none"
  /\ open' = opt.capture \cup (IF opt.input = 0 THEN {} ELSE {"in"})
  /\ ends' = [ends EXCEPT !["child"] = {"in"} \cup opt.capture]
  /\ state' = "running"
  /\ Goto("poll")
  /\ UNCHANGED <<opt, sent, buf, overflow, ready, finished, abort, result,
                 pipe, held, wrote, expired>>

\* Fault: the pump stops as soon as the child has been reaped.
MoreToDoUntilExit == ~finished

\* The condition of the pump's loop.
MoreToDo == ~finished \/ open # {}

\* fe_poll_abort, at the head of both loops.
Poll ==
  /\ At("poll")
  /\ IF MoreToDo
     THEN /\ abort' = expired
          /\ Goto(IF expired THEN "cleanup" ELSE "wait")
     ELSE /\ Goto("finish")
          /\ UNCHANGED abort
  /\ UNCHANGED <<opt, open, sent, buf, overflow, ready, finished, result, child, expired>>

\* waitpid with WNOHANG.
Wait ==
  /\ At("wait")
  /\ IF ~finished /\ state = "zombie"
     THEN finished' = TRUE /\ state' = "reaped"
     ELSE UNCHANGED <<finished, state>>
  /\ Goto(IF open = {} THEN "poll" ELSE "select")
  /\ UNCHANGED <<opt, open, sent, buf, overflow, ready, abort, result,
                 pipe, ends, held, wrote, expired>>

\* What select finds: room or no reader for stdin, data or the end of a file.
Selectable ==
  {e \in open : IF e = "in" THEN pipe["in"] < PipeSize \/ Closed("in")
                            ELSE pipe[e] > 0 \/ Closed(e)}

\* select waits 10 ms at most, and not at all once the child is reaped.
Select ==
  /\ At("select")
  /\ ready' = Selectable
  /\ Goto("write")
  /\ UNCHANGED <<opt, open, sent, buf, overflow, finished, abort, result, child, expired>>


\* One turn of the loop of write_posix_input_pipe.  A write to a pipe without
\* a reader raises SIGPIPE, and returns EPIPE if the host ignores that.
Write ==
  /\ At("write")
  /\ \/ /\ "in" \notin open \cap ready
        /\ Goto("out")
        /\ UNCHANGED <<open, sent, pipe, result>>
     \/ /\ "in" \in open \cap ready /\ sent < opt.input /\ Closed("in")
        /\ IF opt.sigpipe
           THEN Goto("dead") /\ result' = "killed" /\ UNCHANGED open
           ELSE Goto("out") /\ open' = open \ {"in"} /\ UNCHANGED result
        /\ UNCHANGED <<sent, pipe>>
     \/ /\ "in" \in open \cap ready /\ sent < opt.input /\ ~Closed("in")
        /\ LET n == Least(Least(Chunk, opt.input - sent), PipeSize - pipe["in"])
           IN  /\ sent' = sent + n
               /\ pipe' = [pipe EXCEPT !["in"] = @ + n]
               /\ Goto(IF n = 0 THEN "out" ELSE "write")
        /\ UNCHANGED <<open, result>>
     \/ /\ "in" \in open \cap ready /\ sent >= opt.input
        /\ open' = open \ {"in"}
        /\ Goto("out")
        /\ UNCHANGED <<sent, pipe, result>>
  /\ UNCHANGED <<opt, buf, overflow, ready, finished, abort, ends, state, held, wrote, expired>>

\* append_process_capture.
Append(s, n) ==
  LET room == opt.limit[s] - buf[s]
      take == IF opt.limit[s] > 0 /\ n > room THEN room ELSE n
  IN  IF overflow[s]
      THEN UNCHANGED <<buf, overflow>>
      ELSE /\ buf' = [buf EXCEPT ![s] = @ + take]
           /\ overflow' = [overflow EXCEPT ![s] = take < n]

\* One turn of the loop of drain_posix_capture_pipe: read until the pipe is
\* empty.  Once the child is reaped the pipe is read whatever select said.
Drain(s, next) ==
  /\ At(s)
  /\ \/ /\ s \notin open \/ (s \notin ready /\ ~finished)
        /\ Goto(next)
        /\ UNCHANGED <<open, buf, overflow, pipe>>
     \/ /\ s \in open /\ (s \in ready \/ finished) /\ pipe[s] > 0
        /\ pipe' = [pipe EXCEPT ![s] = @ - Least(Chunk, @)]
        /\ Append(s, Least(Chunk, pipe[s]))
        /\ UNCHANGED <<pc, open>>
     \/ /\ s \in open /\ (s \in ready \/ finished) /\ pipe[s] = 0
        /\ open' = (IF Closed(s) THEN open \ {s} ELSE open)
        /\ Goto(next)
        /\ UNCHANGED <<buf, overflow, pipe>>
  /\ UNCHANGED <<opt, sent, ready, finished, abort, result, ends, state, held, wrote, expired>>

\* After the loop: a stream that overflowed fails the call.
Finish ==
  /\ At("finish")
  /\ result' = (IF overflow["out"] \/ overflow["err"] THEN "too large" ELSE "ok")
  /\ Goto("cleanup")
  /\ UNCHANGED <<opt, open, sent, buf, overflow, ready, finished, abort, child, expired>>


\* The cleanup label: terminate_posix_process kills and reaps a child that
\* has not been reaped, and the pipes are closed.
Cleanup ==
  /\ At("cleanup")
  /\ open' = {}
  /\ state' = "reaped"
  /\ ends' = [ends EXCEPT !["child"] = IF finished THEN @ ELSE {}]
  /\ result' = (IF abort THEN "aborted" ELSE result)
  /\ Goto("idle")
  /\ UNCHANGED <<opt, sent, buf, overflow, ready, finished, abort, pipe, held, wrote, expired>>

Parent ==
  \/ Start \/ Poll \/ Wait \/ Select \/ Write
  \/ Drain("out", "err") \/ Drain("err", "poll")
  \/ Finish \/ Cleanup

-----------------------------------------------------------------------------
(* The child, and the process it may leave behind. *)

Rest == UNCHANGED <<pc, parent, expired>>

\* The programs that do anything, and the one that only writes.
ReadInput(p) ==
  /\ opt.program = "any" /\ "in" \in ends[p] /\ pipe["in"] > 0
  /\ pipe' = [pipe EXCEPT !["in"] = @ - 1]
  /\ UNCHANGED <<ends, state, held, wrote>> /\ Rest

WriteOutput(p, s) ==
  /\ s \in ends[p] /\ pipe[s] < PipeSize
  /\ opt.program # "cat"
  /\ opt.program = "any" => wrote[s] < OutputBound
  /\ opt.program = "endless" => s = "out"
  /\ pipe' = [pipe EXCEPT ![s] = @ + 1]
  /\ wrote' = [wrote EXCEPT ![s] = Least(@ + 1, OutputBound)]
  /\ UNCHANGED <<ends, state, held>> /\ Rest

CloseEnd(p, e) ==
  /\ opt.program = "any" /\ e \in ends[p]
  /\ ends' = [ends EXCEPT ![p] = @ \ {e}]
  /\ UNCHANGED <<pipe, state, held, wrote>> /\ Rest

LeaveHeir ==
  /\ opt.program = "any" /\ state = "running" /\ ends["heir"] = {}
  /\ ends' = [ends EXCEPT !["heir"] = ends["child"]]
  /\ UNCHANGED <<pipe, state, held, wrote>> /\ Rest

Exit ==
  /\ opt.program = "any" /\ state = "running"
  /\ state' = "zombie" /\ ends' = [ends EXCEPT !["child"] = {}]
  /\ UNCHANGED <<pipe, held, wrote>> /\ Rest

\* cat: one byte in, one byte out, and an exit at the end of its input.
CatRead ==
  /\ opt.program = "cat" /\ state = "running" /\ held = 0 /\ pipe["in"] > 0
  /\ pipe' = [pipe EXCEPT !["in"] = @ - 1] /\ held' = 1
  /\ UNCHANGED <<ends, state, wrote>> /\ Rest

CatWrite ==
  /\ opt.program = "cat" /\ state = "running" /\ held = 1
  /\ "out" \in ends["child"] => pipe["out"] < PipeSize
  /\ held' = 0
  /\ IF "out" \in ends["child"]
     THEN /\ pipe' = [pipe EXCEPT !["out"] = @ + 1]
          /\ wrote' = [wrote EXCEPT !["out"] = @ + 1]
     ELSE UNCHANGED <<pipe, wrote>>
  /\ UNCHANGED <<ends, state>> /\ Rest

CatExit ==
  /\ opt.program = "cat" /\ state = "running" /\ held = 0
  /\ pipe["in"] = 0 /\ "in" \notin open
  /\ state' = "zombie" /\ ends' = [ends EXCEPT !["child"] = {}]
  /\ UNCHANGED <<pipe, held, wrote>> /\ Rest

Cat == CatRead \/ CatWrite \/ CatExit

Others ==
  \/ \E p \in Proc :
       \/ ReadInput(p)
       \/ \E s \in Stream : WriteOutput(p, s)
       \/ \E e \in End : CloseEnd(p, e)
  \/ LeaveHeir \/ Exit

\* Time passes, or the host decides to interrupt.
Expire ==
  /\ opt.deadline /\ ~expired
  /\ expired' = TRUE
  /\ UNCHANGED <<pc, parent, child>>

Next == Parent \/ Cat \/ Others \/ Expire

\* The host's thread runs, cat is scheduled, and time passes.  Nothing is
\* assumed of the programs that do anything.
Spec ==
  /\ Init /\ [][Next]_vars
  /\ WF_vars(Parent) /\ WF_vars(Cat) /\ WF_vars(Expire)

-----------------------------------------------------------------------------
(* Properties. *)


\* A successful call returns every byte that the child and the processes it
\* left behind wrote, and it never cuts a stream short without an error; and
\* at no time does the host hold more of a stream than max_stdout or max_stderr.
OutputComplete ==
  /\ At("idle") /\ result = "ok" => \A s \in opt.capture : buf[s] = wrote[s] /\ pipe[s] = 0
  /\ \A s \in Stream : opt.limit[s] > 0 => buf[s] <= opt.limit[s]


\* The two properties below do not hold: the README says how they fail.

\* "Larger command output raises a runtime error instead of growing without
\* bound": a stream that is over its limit ends the call.
OverflowRaised == (overflow["out"] \/ overflow["err"]) ~> (pc = "idle")

\* A child that stops reading its input is the child's affair: the host lives.
HostSurvives == pc # "dead"

=============================================================================
