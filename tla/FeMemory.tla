------------------------------ MODULE FeMemory ------------------------------
(***************************************************************************)
(* The tracked allocator of the Fe core (tracked_alloc, tracked_realloc    *)
(* and tracked_free in src/src/fe.c), with the operations that take        *)
(* several blocks from it: fe_map and map_resize, fex_record_span, and the *)
(* prologue of do_file_common.                                             *)
(*                                                                         *)
(* A block is refused when the memory limit would be exceeded, and may be  *)
(* refused by malloc.  An operation is a program: a sequence of requests,  *)
(* each with what a refusal does to the operation.  One that fails gives   *)
(* back its blocks and reports an error, which is named after the flags    *)
(* that the last call of the allocator left in the context.                *)
(***************************************************************************)
EXTENDS Integers, Sequences, FiniteSetsExt

CONSTANTS
  Block,      \* the blocks that malloc can return
  Base,       \* base_memory_bytes: the arena handed to fe_open
  Limits,     \* the limits the host sets; 0 is no limit
  Sizes,      \* the size of each kind of block
  FirstItems, \* the capacity of an array that grows for the first time
  Workload    \* the operations that the program performs

Kinds ==
  {"map", "slots", "states", "excerpt", "span", "text", "name", "path", "source"}

ASSUME SizesAssumption ==
  /\ Base \in Nat /\ Limits \subseteq Nat
  /\ Sizes \in [Kinds -> Nat]
  /\ FirstItems \in Nat \ {0}
  /\ Workload \subseteq {"map", "resize", "span", "file"}

VARIABLES
  limit,   \* memory_limit
  used,    \* memory_used
  peak,    \* peak_memory_used
  size,    \* the size in the header of each block
  live,    \* the blocks allocated and not freed
  active,  \* alloc_failure_active
  isLimit, \* alloc_failure_is_limit
  op,      \* the operation under way
  todo,    \* the requests it has still to make
  got,     \* the blocks it holds, in the order it got them
  causes,  \* why its requests failed
  old,     \* the blocks of the map that it resizes
  drop,    \* the blocks that are being freed
  maps,    \* the blocks of each map: the fe_Map, keys, values, states
  spans,   \* the blocks of each span: the excerpt, the FexSpan
  names,   \* the blocks of the interned source names
  array,   \* the block of each string array, in a sequence of at most one
  items,   \* the strings of each array
  lost,    \* the blocks of a map whose rehash was aborted
  report   \* how the last operation that ended did

flags == <<active, isLimit>>
acct == <<limit, used, peak, size, live, flags>>
held == <<maps, spans, names, array, items, lost>>
job == <<op, todo, got, causes, old>>
vars == <<acct, job, drop, held, report>>

Arrays == {"dirs", "buffers"}
Ops == {"idle", "map", "resize", "span", "file", "closed"}
Causes == {"limit", "malloc", "io"}
Errors ==
  {"none", "memory limit exceeded", "out of memory",
   "could not open input file", "aborted"}

\* A request: what to do, for a block of which kind, or for which array.
Request == [do : {"must", "try", "may", "read"}, kind : Kinds]
             \cup [do : {"push"}, to : Arrays] \cup [do : {"free"}]
Report == [op : Ops, causes : SUBSET Causes, error : Errors]

\* The use includes the arena, and the peak is a bound of the use.
TypeOK ==
  /\ limit \in Nat /\ peak \in Nat /\ used \in Base .. peak
  /\ size \in [Block -> Nat]
  /\ live \subseteq Block /\ drop \subseteq Block /\ lost \subseteq Block
  /\ active \in BOOLEAN /\ isLimit \in BOOLEAN
  /\ op \in Ops /\ todo \in Seq(Request) /\ causes \subseteq Causes
  /\ got \in Seq(Block) /\ old \in Seq(Block)
  /\ maps \in SUBSET Seq(Block) /\ spans \in SUBSET Seq(Block)
  /\ names \subseteq Block
  /\ array \in [Arrays -> Seq(Block)] /\ items \in [Arrays -> Seq(Block)]
  /\ report \in Report

Nothing == [op |-> "idle", causes |-> {}, error |-> "none"]

Init ==
  /\ limit = 0 /\ used = Base /\ peak = Base
  /\ size = [b \in Block |-> 0]
  /\ live = {} /\ active = FALSE /\ isLimit = FALSE
  /\ op = "idle" /\ todo = <<>> /\ got = <<>> /\ causes = {} /\ old = <<>>
  /\ drop = {} /\ maps = {} /\ spans = {} /\ names = {} /\ lost = {}
  /\ array = [a \in Arrays |-> <<>>] /\ items = [a \in Arrays |-> <<>>]
  /\ report = Nothing

Blocks(s) == {s[i] : i \in DOMAIN s}

-----------------------------------------------------------------------------
\* Fault: the room that is left is not compared with the request.
ExceedsNow(extra) == limit # 0 /\ used > limit

\* memory_would_exceed_limit
Exceeds(extra) == limit # 0 /\ (used > limit \/ extra > limit - used)

\* Fault: an allocation that succeeds leaves the flags of a failed one.
NoteAllocOnly(n) ==
  /\ used' = used + n
  /\ peak' = IF used + n > peak THEN used + n ELSE peak
  /\ UNCHANGED flags

\* memory_note_alloc: the flags of an earlier failure are cleared.
NoteAlloc(n) ==
  /\ used' = used + n
  /\ peak' = IF used + n > peak THEN used + n ELSE peak
  /\ active' = FALSE /\ isLimit' = FALSE

\* Fault: the size of the header is taken off as well.
NoteFreeHeader(n) ==
  /\ used' = IF used >= Base + n + 1 THEN used - n - 1 ELSE Base
  /\ UNCHANGED <<peak, flags>>

\* memory_note_free: never below the arena.
NoteFree(n) ==
  /\ used' = IF used >= Base + n THEN used - n ELSE Base
  /\ UNCHANGED <<peak, flags>>

\* The block that malloc returns next.
Fresh == CHOOSE b \in Block : b \notin live

\* tracked_alloc(n) returns the block Fresh.
Allocates(n) ==
  /\ ~Exceeds(n) /\ live # Block
  /\ live' = live \cup {Fresh}
  /\ size' = [size EXCEPT ![Fresh] = n]
  /\ NoteAlloc(n)
  /\ UNCHANGED limit

\* Why a request for extra more bytes is refused.
Cause(extra) == IF Exceeds(extra) THEN "limit" ELSE "malloc"

\* tracked_alloc or tracked_realloc returns NULL: extra bytes are too many,
\* or malloc has no memory.
Refuses(extra) ==
  /\ active' = TRUE /\ isLimit' = Exceeds(extra)
  /\ UNCHANGED <<limit, used, peak, size, live>>

-----------------------------------------------------------------------------
(* The programs of the operations. *)

Must(k) == [do |-> "must", kind |-> k]  \* a refusal ends the operation
Try(k) == [do |-> "try", kind |-> k]    \* a refusal ends it after the others
May(k) == [do |-> "may", kind |-> k]    \* a refusal does not matter

\* map_alloc
MapProgram == <<Must("map"), Try("slots"), Try("slots"), Try("states")>>

\* fex_record_span, when intern_source_name finds the name and when not.
SpanProgram == <<Must("excerpt"), Must("span")>>
NamedSpanProgram ==
  <<Must("excerpt"), Must("span"), Must("text"), Must("name")>>

\* push_source_dir_from_file, read_text_file, string_array_push_owned.
FileProgram ==
  <<May("path"), Must("path"), [do |-> "free"], [do |-> "push", to |-> "dirs"],
    [do |-> "read", kind |-> "source"], [do |-> "push", to |-> "buffers"]>>

Idle == op = "idle" /\ drop = {}

Begin(o, program, blocks) ==
  /\ Idle /\ o \in Workload
  /\ op' = o /\ todo' = program /\ old' = blocks
  /\ got' = <<>> /\ causes' = {}
  /\ UNCHANGED <<acct, drop, held, report>>

MapNew == Begin("map", MapProgram, <<>>)
MapResize == \E m \in maps : Begin("resize", MapProgram, m)
SpanRecord == Begin("span", SpanProgram, <<>>) \/ Begin("span", NamedSpanProgram, <<>>)
DoFile == Begin("file", FileProgram, <<>>)

\* fe_set_memory_limit, at any moment between two operations.
SetLimit ==
  /\ Idle
  /\ limit' \in Limits
  /\ UNCHANGED <<used, peak, size, live, flags, job, drop, held, report>>

-----------------------------------------------------------------------------
(* The requests of an operation. *)

Requests(kinds) == drop = {} /\ todo # <<>> /\ Head(todo).do \in kinds

Take ==
  /\ Requests({"must", "try", "may", "read"})
  /\ Allocates(Sizes[Head(todo).kind])
  /\ got' = Append(got, Fresh)
  /\ todo' = Tail(todo)
  /\ UNCHANGED <<op, causes, old, drop, held, report>>

Refuse ==
  /\ Requests({"must", "try", "may", "read"})
  /\ LET n == Sizes[Head(todo).kind]
         do == Head(todo).do
     IN  /\ Refuses(n)
         /\ causes' = IF do = "may" THEN causes ELSE causes \cup {Cause(n)}
         /\ todo' = IF do \in {"may", "try"} THEN Tail(todo) ELSE <<>>
  /\ UNCHANGED <<op, got, old, drop, held, report>>

\* The file cannot be opened or measured, or its contents cannot be read.
ReadFails ==
  /\ Requests({"read"})
  /\ \/ UNCHANGED <<acct, got>>
     \/ /\ Allocates(Sizes[Head(todo).kind])
        /\ got' = Append(got, Fresh)
  /\ causes' = {"io"}
  /\ todo' = <<>>
  /\ UNCHANGED <<op, old, drop, held, report>>

\* tracked_free(normalized_path), which may be NULL.
FreeFirst ==
  /\ Requests({"free"})
  /\ drop' = IF Len(got) = 2 THEN {got[1]} ELSE {}
  /\ got' = SubSeq(got, Len(got), Len(got))
  /\ todo' = Tail(todo)
  /\ UNCHANGED <<acct, op, causes, old, held, report>>

Capacity(a) == IF array[a] = <<>> THEN 0 ELSE size[array[a][1]]
Growth(a) == IF Capacity(a) = 0 THEN FirstItems ELSE Capacity(a)
Full(a) == Len(items[a]) >= Capacity(a)

\* string_array_push_owned
PushItem ==
  /\ Requests({"push"})
  /\ LET a == Head(todo).to
     IN  /\ ~Full(a)
         /\ items' = [items EXCEPT ![a] = Append(@, got[Len(got)])]
  /\ got' = SubSeq(got, 1, Len(got) - 1)
  /\ todo' = Tail(todo)
  /\ UNCHANGED <<acct, op, causes, old, drop, maps, spans, names, array, lost, report>>

\* ensure_string_array_capacity: the array is allocated, or its block grows.
PushGrows ==
  /\ Requests({"push"})
  /\ LET a == Head(todo).to
     IN  /\ Full(a)
         /\ \/ /\ array[a] = <<>>
               /\ Allocates(FirstItems)
               /\ array' = [array EXCEPT ![a] = <<Fresh>>]
            \/ /\ array[a] # <<>>
               /\ ~Exceeds(Growth(a))
               /\ size' = [size EXCEPT ![array[a][1]] = @ + Growth(a)]
               /\ NoteAlloc(Growth(a))
               /\ UNCHANGED <<limit, live, array>>
  /\ UNCHANGED <<job, drop, maps, spans, names, items, lost, report>>

PushFails ==
  /\ Requests({"push"})
  /\ LET a == Head(todo).to
     IN  /\ Full(a)
         /\ Refuses(Growth(a))
         /\ causes' = causes \cup {Cause(Growth(a))}
  /\ todo' = <<>>
  /\ UNCHANGED <<op, got, old, drop, held, report>>

-----------------------------------------------------------------------------
(* The ends of an operation. *)

Ends == drop = {} /\ op \notin {"idle", "closed"} /\ todo = <<>>

ToIdle == op' = "idle" /\ todo' = <<>> /\ got' = <<>> /\ causes' = {} /\ old' = <<>>

\* The error that do_file_common raises, or memory_error.
ErrorName ==
  IF "io" \in causes /\ ~active THEN "could not open input file"
  ELSE IF isLimit THEN "memory limit exceeded"
  ELSE "out of memory"

Queued == UNION {Blocks(items[a]) : a \in Arrays}

\* The operation frees its blocks and raises the error; the try scope that
\* catches it clears the import stacks (fex_reset_import_state).
Fail ==
  /\ Ends /\ causes # {}
  /\ drop' = Blocks(got) \cup Queued
  /\ items' = [a \in Arrays |-> <<>>]
  /\ report' = [op |-> op, causes |-> causes, error |-> ErrorName]
  /\ ToIdle
  /\ UNCHANGED <<acct, maps, spans, names, array, lost>>

Succeeds(o) ==
  /\ Ends /\ causes = {} /\ op = o
  /\ report' = [op |-> o, causes |-> {}, error |-> "none"]
  /\ ToIdle

MapDone ==
  /\ Succeeds("map")
  /\ maps' = maps \cup {got}
  /\ UNCHANGED <<acct, drop, spans, names, array, items, lost>>

\* Fault: the arrays that are freed are the new ones.
ResizeFreesNew ==
  /\ Succeeds("resize")
  /\ maps' = (maps \ {old}) \cup {<<old[1]>> \o Tail(got)}
  /\ drop' = Blocks(got)
  /\ UNCHANGED <<acct, spans, names, array, items, lost>>

\* The rehash is complete: the map takes the new arrays over, and the old
\* arrays and the temporary fe_Map are freed.
ResizeDone ==
  /\ Succeeds("resize")
  /\ maps' = (maps \ {old}) \cup {<<old[1]>> \o Tail(got)}
  /\ drop' = Blocks(Tail(old)) \cup {got[1]}
  /\ UNCHANGED <<acct, spans, names, array, items, lost>>

\* The rehash is aborted by a timeout or an interrupt: fe_error leaves
\* map_resize, and nothing refers to the new blocks any more.
ResizeAborted ==
  /\ Ends /\ causes = {} /\ op = "resize"
  /\ lost' = lost \cup Blocks(got)
  /\ drop' = Queued
  /\ items' = [a \in Arrays |-> <<>>]
  /\ report' = [op |-> op, causes |-> {}, error |-> "aborted"]
  /\ ToIdle
  /\ UNCHANGED <<acct, maps, spans, names, array>>

SpanDone ==
  /\ Succeeds("span")
  /\ spans' = spans \cup {SubSeq(got, 1, 2)}
  /\ names' = names \cup Blocks(SubSeq(got, 3, Len(got)))
  /\ UNCHANGED <<acct, drop, maps, array, items, lost>>

\* The prologue is complete, and the code of the file runs.
FileEntered ==
  /\ Succeeds("file")
  /\ UNCHANGED <<acct, drop, held>>

\* The code of the file has run: string_array_pop and pop_source_dir.
FileLeft ==
  /\ Idle /\ items["buffers"] # <<>>
  /\ drop' = {items[a][Len(items[a])] : a \in {b \in Arrays : items[b] # <<>>}}
  /\ items' = [a \in Arrays |-> SubSeq(items[a], 1, Len(items[a]) - 1)]
  /\ UNCHANGED <<acct, job, maps, spans, names, array, lost, report>>

-----------------------------------------------------------------------------
\* The collector finds a map dead, or prunes a span.
SweepMap ==
  /\ Idle
  /\ \E m \in maps : maps' = maps \ {m} /\ drop' = Blocks(m)
  /\ UNCHANGED <<acct, job, spans, names, array, items, lost, report>>

PruneSpan ==
  /\ Idle
  /\ \E s \in spans : spans' = spans \ {s} /\ drop' = Blocks(s)
  /\ UNCHANGED <<acct, job, maps, names, array, items, lost, report>>

\* tracked_free of the blocks that are being freed, one after the other.
Free ==
  /\ drop # {}
  /\ LET b == CHOOSE c \in drop : TRUE
     IN  /\ drop' = drop \ {b}
         /\ live' = live \ {b}
         /\ size' = [size EXCEPT ![b] = 0]
         /\ NoteFree(size[b])
  /\ UNCHANGED <<limit, job, held, report>>

Held ==
  (UNION {Blocks(s) : s \in maps \cup spans}) \cup names
    \cup (UNION {Blocks(array[a]) : a \in Arrays}) \cup Queued

\* fe_close, between two top-level evaluations.
Close ==
  /\ Idle /\ Queued = {}
  /\ drop' = Held
  /\ op' = "closed"
  /\ maps' = {} /\ spans' = {} /\ names' = {}
  /\ array' = [a \in Arrays |-> <<>>]
  /\ UNCHANGED <<acct, todo, got, causes, old, items, lost, report>>

Next ==
  \/ MapNew \/ MapResize \/ SpanRecord \/ DoFile \/ SetLimit
  \/ Take \/ Refuse \/ ReadFails \/ FreeFirst
  \/ PushItem \/ PushGrows \/ PushFails
  \/ Fail \/ MapDone \/ ResizeDone \/ ResizeAborted \/ SpanDone
  \/ FileEntered \/ FileLeft \/ SweepMap \/ PruneSpan \/ Free \/ Close

Spec == Init /\ [][Next]_vars

-----------------------------------------------------------------------------
\* The counter that the limit is compared with is the arena and the blocks
\* that are allocated, after every alloc, realloc and free: memory_note_free
\* never needs its floor.
Accounting == used = Base + MapThenSumSet(LAMBDA b : size[b], live)

\* Every block that is allocated has exactly one owner whenever no operation
\* is under way: a failed one has given all its blocks back, a resize has
\* freed what it replaced, and only an aborted rehash loses blocks.
OneOwner ==
  op \in {"idle", "closed"} =>
    /\ live = Held \cup drop \cup lost
    /\ Held \cap (drop \cup lost) = {} /\ drop \cap lost = {}
    /\ \A s, t \in maps \cup spans : s # t => Blocks(s) \cap Blocks(t) = {}

\* No step takes the use over the limit that is in force, also when the limit
\* was set below the use or an array grows in place.
CeilingRespected == [][used' > used => limit = 0 \/ used' <= limit]_vars

\* The error that a span or a file raises names its cause: the flags that
\* memory_error reads are those of this failure, never of an earlier one.
ErrorsNamed ==
  report.op \in {"span", "file"} /\ report.error # "none" =>
    report = [op |-> report.op,
              causes |-> report.causes,
              error |-> CASE report.causes = {"limit"} -> "memory limit exceeded"
                          [] report.causes = {"malloc"} -> "out of memory"
                          [] report.causes = {"io"} -> "could not open input file"]

\* A map that the limit alone refused is reported as exceeding the limit
\* (tools/test_try_api.c, the memory limit test).
MapErrorsNamed ==
  report.op \in {"map", "resize"} /\ report.causes = {"limit"} =>
    report.error = "memory limit exceeded"

\* fe_close releases the resources associated with the interpreter
\* (doc/capi.md): no block is left.
CloseReleases == op = "closed" /\ drop = {} => live = {}
=============================================================================
