------------------------------- MODULE FeMark -------------------------------
(***************************************************************************)
(* One garbage collection of the Fe core (collectgarbage and fe_mark in    *)
(* src/src/fe.c), at the granularity of the iterations of the marker.      *)
(*                                                                         *)
(* The marker is iterative: it follows cdr in a loop and keeps the car     *)
(* branches and the map slots on an explicit stack of MARK_STACK_SIZE      *)
(* entries.  Only when that stack is full does it call itself, with a      *)
(* fresh stack, so the C stack is a sequence of frames.  The collector     *)
(* does not run concurrently with the program: the heap is fixed while it  *)
(* marks.                                                                  *)
(*                                                                         *)
(* Abstractions: a fixnum, a boolean, nil and a pointer outside the arena  *)
(* are the one value Imm (the marker skips all four); the slots of a map,  *)
(* and the references a host structure holds, are a set of references.     *)
(***************************************************************************)
EXTENDS Naturals, Sequences, FiniteSetsExt

CONSTANTS
  Obj,        \* the cells of the arena
  Imm,        \* anything that is not a cell
  Nodes,      \* the cell contents that Init chooses from
  StackSize   \* MARK_STACK_SIZE

Kinds == {"pair", "link", "leaf", "map", "ptr", "free"}
Ref == Obj \cup {Imm}

\* "link" is a function, a macro or a symbol; "leaf" a string, bytes, number,
\* primitive or C function.  kids: the used keys and values of a map, or the
\* references embedded in the host structure of a pointer.  host: a pointer
\* object whose host pointer is not NULL.
Node == [kind: Kinds, car: Ref, cdr: Ref, kids: SUBSET Ref, host: BOOLEAN]

ASSUME ImmAssumption == Imm \notin Obj
ASSUME NodesAssumption == Nodes \subseteq Node
ASSUME StackSizeAssumption == StackSize \in Nat \ {0}

VARIABLES
  heap,     \* the arena
  roots,    \* gcstack, modulestack, symlist and loaded_module_values
  todo,     \* the roots that collectgarbage has not handed to fe_mark yet
  marked,   \* the cells whose GCMARKBIT is set
  freed,    \* the cells that the sweep puts on the freelist
  frames,   \* the active calls of fe_mark, the innermost last
  phase,    \* where collectgarbage is
  misread   \* the marker has read a host structure as a map

vars == <<heap, roots, todo, marked, freed, frames, phase, misread>>

Frame == [at: {"enter", "slots", "embedded", "pop"},
          obj: Ref, left: SUBSET Ref, stack: Seq(Ref)]

\* A call fe_mark(ctx, o) that has just begun.
NewFrame(o) == [at |-> "enter", obj |-> o, left |-> {}, stack |-> <<>>]

TypeOK ==
  /\ heap \in [Obj -> Node]
  /\ roots \subseteq Obj
  /\ todo \subseteq roots
  /\ marked \subseteq Obj
  /\ freed \subseteq Obj
  /\ frames \in Seq(Frame)
  /\ \A i \in 1 .. Len(frames) : Len(frames[i].stack) <= StackSize
  /\ phase \in {"mark", "done"}
  /\ misread \in BOOLEAN

Init ==
  /\ heap \in [Obj -> Nodes]
  /\ roots \in SUBSET Obj   \* a nil modulestack or symlist adds no root
  /\ todo = roots
  /\ marked = {}
  /\ freed = {}
  /\ frames = <<>>
  /\ phase = "mark"
  /\ misread = FALSE

-----------------------------------------------------------------------------
Depth == Len(frames)
Top == frames[Depth]
Running(at) == frames # <<>> /\ Top.at = at

\* The innermost call goes on as f.
Continue(f) == frames' = [frames EXCEPT ![Depth] = f]

\* The innermost call goes on as f once a nested call for o has returned.
Recurse(f, o) == frames' = Append([frames EXCEPT ![Depth] = f], NewFrame(o))

\* Fault: the fallback for a full stack is forgotten and the entry dropped.
PushDropsWhenFull(f, o) ==
  IF Len(f.stack) < StackSize
  THEN Continue([f EXCEPT !.stack = Append(@, o)])
  ELSE Continue(f)

\* Fault: the marker recurses for every branch.
PushAlwaysRecurses(f, o) == Recurse(f, o)

\* stack[sp++] = o, or a nested call when the stack is full.
Push(f, o) ==
  IF Len(f.stack) < StackSize
  THEN Continue([f EXCEPT !.stack = Append(@, o)])
  ELSE Recurse(f, o)

\* The cell that the innermost call is about to mark.
Entering(o) == Running("enter") /\ o = Top.obj /\ o \in Obj \ marked

-----------------------------------------------------------------------------
MarkRoot ==
  /\ phase = "mark" /\ frames = <<>>
  /\ \E r \in todo : /\ todo' = todo \ {r}
                     /\ frames' = <<NewFrame(r)>>
  /\ UNCHANGED <<heap, roots, marked, freed, phase, misread>>

Skip ==
  /\ Running("enter") /\ Top.obj \notin Obj \ marked
  /\ Continue([Top EXCEPT !.at = "pop"])
  /\ UNCHANGED <<heap, roots, todo, marked, freed, phase, misread>>

MarkPair ==
  \E o \in Obj :
    /\ Entering(o) /\ heap[o].kind = "pair"
    /\ marked' = marked \cup {o}
    /\ Push([Top EXCEPT !.obj = heap[o].cdr], heap[o].car)
    /\ UNCHANGED <<heap, roots, todo, freed, phase, misread>>

MarkLink ==
  \E o \in Obj :
    /\ Entering(o) /\ heap[o].kind = "link"
    /\ marked' = marked \cup {o}
    /\ Continue([Top EXCEPT !.obj = heap[o].cdr])
    /\ UNCHANGED <<heap, roots, todo, freed, phase, misread>>

MarkLeaf ==
  \E o \in Obj :
    /\ Entering(o) /\ heap[o].kind \in {"leaf", "free"}
    /\ marked' = marked \cup {o}
    /\ Continue([Top EXCEPT !.at = "pop"])
    /\ UNCHANGED <<heap, roots, todo, freed, phase, misread>>

MarkMap ==
  \E o \in Obj :
    /\ Entering(o) /\ heap[o].kind = "map"
    /\ marked' = marked \cup {o}
    /\ Continue([Top EXCEPT !.at = "slots", !.left = heap[o].kids])
    /\ UNCHANGED <<heap, roots, todo, freed, phase, misread>>

MapSlot ==
  /\ Running("slots")
  /\ \E k \in Top.left : Push([Top EXCEPT !.left = @ \ {k}], k)
  /\ UNCHANGED <<heap, roots, todo, marked, freed, phase, misread>>

MapEnd ==
  /\ Running("slots") /\ Top.left = {}
  /\ Continue([Top EXCEPT !.at = "pop"])
  /\ UNCHANGED <<heap, roots, todo, marked, freed, phase, misread>>

MarkPtr ==
  \E o \in Obj :
    /\ Entering(o) /\ heap[o].kind = "ptr"
    /\ marked' = marked \cup {o}
    /\ Continue([Top EXCEPT !.at = "embedded", !.left = heap[o].kids])
    /\ UNCHANGED <<heap, roots, todo, freed, phase, misread>>

\* handlers.mark, the host's callback, calls fe_mark on each reference that
\* the host structure holds.
HandlerMark ==
  /\ Running("embedded")
  /\ \E k \in Top.left : Recurse([Top EXCEPT !.left = @ \ {k}], k)
  /\ UNCHANGED <<heap, roots, todo, marked, freed, phase, misread>>

\* The case of FE_TPTR falls through to that of FE_TMAP, which takes the host
\* pointer for a fe_Map unless it is NULL.  Of the outcomes of that read the
\* model keeps the harmless one (no slot looks used) and records the read.
PtrFallThrough ==
  /\ Running("embedded") /\ Top.left = {}
  /\ misread' = (misread \/ heap[Top.obj].host)
  /\ Continue([Top EXCEPT !.at = "pop"])
  /\ UNCHANGED <<heap, roots, todo, marked, freed, phase>>

\* Fault: the entry that is taken stays on the stack.
PopKeeps ==
  /\ Running("pop") /\ Top.stack # <<>>
  /\ Continue([Top EXCEPT !.at = "enter", !.obj = Top.stack[Len(Top.stack)]])
  /\ UNCHANGED <<heap, roots, todo, marked, freed, phase, misread>>

Pop ==
  /\ Running("pop") /\ Top.stack # <<>>
  /\ LET n == Len(Top.stack)
     IN  Continue([Top EXCEPT !.at = "enter", !.obj = Top.stack[n],
                              !.stack = SubSeq(@, 1, n - 1)])
  /\ UNCHANGED <<heap, roots, todo, marked, freed, phase, misread>>

Return ==
  /\ Running("pop") /\ Top.stack = <<>>
  /\ frames' = SubSeq(frames, 1, Depth - 1)
  /\ UNCHANGED <<heap, roots, todo, marked, freed, phase, misread>>

\* The sweep of collectgarbage: an allocated cell without the mark bit goes to
\* the freelist, one with it loses the bit, and a free cell is not looked at.
Sweep ==
  /\ phase = "mark" /\ todo = {} /\ frames = <<>>
  /\ freed' = {o \in Obj : heap[o].kind # "free" /\ o \notin marked}
  /\ marked' = {o \in marked : heap[o].kind = "free"}
  /\ phase' = "done"
  /\ UNCHANGED <<heap, roots, todo, frames, misread>>

Next ==
  \/ MarkRoot \/ Skip \/ MarkPair \/ MarkLink \/ MarkLeaf
  \/ MarkMap \/ MapSlot \/ MapEnd \/ MarkPtr \/ HandlerMark \/ PtrFallThrough
  \/ Pop \/ Return \/ Sweep

Spec == Init /\ [][Next]_vars

\* collectgarbage is a loop of the running thread: it takes its next step.
FairSpec == Spec /\ WF_vars(Next)

-----------------------------------------------------------------------------
\* The references that the marker must follow from cell o.
Children(o) ==
  CASE heap[o].kind = "pair" -> {heap[o].car, heap[o].cdr}
    [] heap[o].kind = "link" -> {heap[o].cdr}
    [] heap[o].kind \in {"map", "ptr"} -> heap[o].kids
    [] OTHER -> {}

\* S holds every root, and all the children of its cells.
Closed(S) ==
  /\ roots \subseteq S
  /\ \A o \in S : Children(o) \cap Obj \subseteq S

\* The cells reachable from the roots: those in every closed set.
Reachable == {o \in Obj : \A S \in SUBSET Obj : Closed(S) => o \in S}

\* SAFETY, the contract of collectgarbage: the sweep frees the allocated cells
\* that no root reaches, and no other.  Nothing in use is freed, whatever the
\* graph (cycles, shared cells, a full mark stack), and no garbage survives.
CollectsExactly ==
  phase = "done" => freed = {o \in Obj : heap[o].kind # "free"} \ Reachable

\* The number of entries that the marker stacks for cell o.
Width(o) ==
  CASE heap[o].kind = "pair" -> 1
    [] heap[o].kind = "map" -> Cardinality(heap[o].kids)
    [] OTHER -> 0

\* SAFETY, the comment of fe_mark ("so that deeply nested pair trees don't
\* overflow the C call stack"): the marker calls itself only from a frame
\* whose stack is full (or from the host's callback), and the entries on all
\* the stacks were pushed by different marked cells, one for a pair and one for
\* each slot of a map.  So the depth of the C stack times MARK_STACK_SIZE is
\* bounded by the number of cells and slots marked so far.
RecursionBounded ==
  /\ \A i \in 1 .. Depth - 1 :
       frames[i].at # "embedded" => Len(frames[i].stack) = StackSize
  /\ MapThenSumSet(LAMBDA i : Len(frames[i].stack), 1 .. Depth)
       <= MapThenSumSet(Width, marked)

\* SAFETY, "Pointer objects wrap host pointers" (doc/capi.md): the collector
\* treats a host pointer as opaque; it never reads the memory it points to.
HostPointersOpaque == ~misread

\* LIVENESS: a collection ends, on cyclic graphs too.
Terminates == <>(phase = "done")

=============================================================================
