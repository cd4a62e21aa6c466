------------------------------- MODULE FeHeap -------------------------------
(***************************************************************************)
(* The object arena and the string slabs of the Fe core, and the           *)
(* constructors that take cells and slabs from them (src/src/fe.c):        *)
(* object, fe_cons, make_data_obj with str_alloc, fe_symbol,               *)
(* fe_symbol_from_string_obj and fe_map, inside recoverable runs           *)
(* (fex_try_run_internal in src/src/fex.c).                                *)
(*                                                                         *)
(* A constructor makes several allocations, any of which may collect or    *)
(* raise an error; an error leaves the constructor with longjmp and cuts   *)
(* the gcstack back.  A step of the model is one allocation.  The          *)
(* collection is one step: FeMark shows that it frees exactly what no root *)
(* reaches, provided that the cells in use enter it unmarked.              *)
(*                                                                         *)
(* Abstractions: the two freelists are sets, and the cell or slab taken    *)
(* from one is arbitrary but fixed (addresses are not observable); a       *)
(* fixnum, a boolean and nil are Imm; whether the allocation counters ask  *)
(* for a collection is a nondeterministic choice; a text is a model value  *)
(* with a number of slabs.                                                 *)
(***************************************************************************)
EXTENDS Naturals, Sequences, FiniteSetsExt, SequencesExt

CONSTANTS
  Obj,        \* the cells of the arena
  Slab,       \* the slabs of the string arena
  Imm,        \* anything that is not a cell
  Text,       \* the texts of strings and symbols
  Size,       \* the number of slabs of each text
  Hosts       \* the cells and slabs that the host gives to fe_open, GCSTACKSIZE,
              \* and the constructors and the texts that its runs use

Constructors == {"cons", "string", "symbol", "intern", "map", "set"}

ASSUME ConstantsAssumption ==
  /\ Imm \notin Obj
  /\ Size \in [Text -> Nat]
  /\ Hosts \subseteq [cells: SUBSET Obj, slabs: SUBSET Slab, stack: Nat \ {0},
                      calls: SUBSET Constructors, texts: SUBSET Text]

Kinds == {"free", "pair", "symbol", "string", "map"}
Ref == Obj \cup {Imm}

VARIABLES
  host,            \* the member of Hosts
  kind, car, cdr,  \* the cells: type tag and two fields
  text,            \* the text of a string
  chain,           \* the slabs that cdr.u32 of a string leads to
  stale,           \* the strings whose cdr still holds a link of the freelist
  freelist,        \* the cells on freelist
  strfree,         \* the slabs on str_freelist
  dirty,           \* the cells whose GCMARKBIT is set between collections
  gcstack, symlist,
  base,            \* gc_save of the active run; NoRun when there is none
  call,            \* the constructor in progress and its C locals
  wild             \* the sweep has followed a stale cdr into the slab arena

cells == <<kind, car, cdr, text, chain, stale>>
vars == <<host, cells, freelist, strfree, dirty, gcstack, symlist, base, call, wild>>

StackSize == host.stack
NoRun == StackSize + 1

\* at: the allocation that comes next.  obj, str, a: C locals and arguments.
\* left, got: the slabs that str_alloc still needs and those it has taken.
\* fresh: a collection has just run for this allocation.
Idle == [op |-> "idle", at |-> "none", obj |-> Imm, str |-> Imm, a |-> Imm,
         text |-> CHOOSE t \in Text : TRUE, left |-> 0, got |-> {}, save |-> 0,
         fresh |-> FALSE]

Calls == [op: {"idle", "cons", "string", "symbol", "intern", "map"},
          at: {"none", "cons", "string", "slab", "symbol", "name", "entry", "map"},
          obj: Ref, str: Ref, a: Ref, text: Text, left: Nat, got: SUBSET Slab,
          save: 0 .. StackSize, fresh: BOOLEAN]

Init ==
  /\ host \in Hosts
  /\ kind = [o \in Obj |-> "free"]
  /\ car = [o \in Obj |-> Imm] /\ cdr = [o \in Obj |-> Imm]
  /\ text = [o \in Obj |-> Idle.text] /\ chain = [o \in Obj |-> {}]
  /\ stale = {} /\ freelist = host.cells /\ strfree = host.slabs /\ dirty = {}
  /\ gcstack = <<>> /\ symlist = Imm /\ base = NoRun
  /\ call = Idle /\ wild = FALSE

-----------------------------------------------------------------------------
\* The references that fe_mark follows from o.
Children(o) ==
  CASE kind[o] = "pair" -> {car[o], cdr[o]} \cap Obj
    [] kind[o] = "symbol" -> {cdr[o]} \cap Obj
    [] OTHER -> {}

\* The cells reached from the set S.  A marked cell is not scanned again.
Reach(S) ==
  LET R[n \in 0 .. Cardinality(host.cells)] ==
        IF n = 0 THEN S
        ELSE LET T == R[n - 1] IN T \cup UNION {Children(o) : o \in T \ dirty}
  IN  R[Cardinality(host.cells)]

Roots == (Range(gcstack) \cup {symlist}) \cap Obj

\* The cells whose mark bit is set when the sweep begins.
Marked == Reach(Roots) \cup dirty

\* The cells that the sweep returns to the freelist: the unmarked ones in use.
Swept == {o \in Obj : kind[o] # "free"} \ Marked
SweptStrings == {o \in Swept : kind[o] = "string"}

\* Fault: an allocated cell keeps the mark bit it had on the freelist.
CleanNone(o) == dirty

\* settype, or flags = 0 in fe_cons, clears the mark bit of the new cell o.
Clean(o) == dirty \ {o}

\* Fault: the constructor leaves the new cell to the caller to root.
PushNone(o) == gcstack

\* fe_pushgc(ctx, o), when there is room.
Push(o) == IF o \in Obj THEN Append(gcstack, o) ELSE gcstack

\* The try scope after longjmp: the gcstack is cut back and the run is over.
Raise ==
  /\ gcstack' = SubSeq(gcstack, 1, base)
  /\ base' = NoRun
  /\ call' = Idle

-----------------------------------------------------------------------------
Running == base # NoRun /\ ~wild
Ready == Running /\ call.op = "idle"
At(place) == Running /\ call.at = place

\* The allocations that call object(); the other place, "slab", is that of
\* str_slab_alloc.
Places == {"cons", "string", "symbol", "name", "entry", "map"}
AtObject == Running /\ call.at \in Places

\* collectgarbage, when the counters or an empty freelist ask for it.  A free
\* cell that the stale link of a new symbol reaches keeps its mark bit: the
\* sweep passes over free cells.  The fields of a free cell are not read, and
\* are cleared to have fewer states.
Collect ==
  /\ \/ AtObject
     \/ At("slab") /\ strfree = {}
  /\ ~call.fresh
  /\ kind' = [o \in Obj |-> IF o \in Swept THEN "free" ELSE kind[o]]
  /\ car' = [o \in Obj |-> IF o \in Swept THEN Imm ELSE car[o]]
  /\ cdr' = [o \in Obj |-> IF o \in Swept THEN Imm ELSE cdr[o]]
  /\ text' = [o \in Obj |-> IF o \in Swept THEN Idle.text ELSE text[o]]
  /\ freelist' = freelist \cup Swept
  /\ strfree' = strfree \cup UNION {chain[o] : o \in SweptStrings}
  /\ chain' = [o \in Obj |-> IF o \in Swept THEN {} ELSE chain[o]]
  /\ stale' = stale \ Swept
  /\ dirty' = {o \in Marked : kind[o] = "free"}
  /\ wild' = (SweptStrings \cap stale # {})
  /\ call' = [call EXCEPT !.fresh = TRUE]
  /\ UNCHANGED <<gcstack, symlist, base>>

\* object() finds the freelist empty after a collection.
OutOfMemory ==
  /\ AtObject /\ call.fresh /\ freelist = {}
  /\ Raise
  /\ UNCHANGED <<cells, freelist, strfree, dirty, symlist, wild>>

\* object() takes a cell off the freelist before fe_pushgc finds the stack full.
Overflow ==
  /\ AtObject /\ freelist # {} /\ Len(gcstack) = StackSize
  /\ freelist' = freelist \ {CHOOSE o \in freelist : TRUE}
  /\ Raise
  /\ UNCHANGED <<cells, strfree, dirty, symlist, wild>>

\* object() returns cell o, pushed on the gcstack.
Take(o) ==
  /\ freelist # {} /\ Len(gcstack) < StackSize
  /\ o = CHOOSE c \in freelist : TRUE
  /\ freelist' = freelist \ {o}
  /\ dirty' = Clean(o)

Object(o) == Take(o) /\ gcstack' = Push(o)

-----------------------------------------------------------------------------
\* fex_try_run_internal begins and ends.  keep: preserve_result_root.
BeginRun ==
  /\ base = NoRun /\ ~wild
  /\ base' = Len(gcstack)
  /\ UNCHANGED <<cells, freelist, strfree, dirty, gcstack, symlist, call, wild>>

EndRun ==
  /\ Ready
  /\ \E keep \in BOOLEAN :
       gcstack' = SubSeq(gcstack, 1, IF keep /\ Len(gcstack) > base THEN base + 1 ELSE base)
  /\ base' = NoRun
  /\ UNCHANGED <<cells, freelist, strfree, dirty, symlist, call, wild>>

\* The host drops the frame of an earlier run: fe_restoregc(ctx, 0).
RestoreGC ==
  /\ base = NoRun /\ ~wild /\ gcstack # <<>>
  /\ gcstack' = <<>>
  /\ UNCHANGED <<cells, freelist, strfree, dirty, symlist, base, call, wild>>

\* The values that running code can hold: those it has rooted.  fe_cons gets
\* one of them; FeMark has pairs with two.
Values == Range(gcstack) \cup {Imm}

\* The cells of the list symlist, the symbols it holds, and a name in use.
Entries ==
  LET R[n \in 0 .. Cardinality(host.cells)] ==
        IF n = 0 THEN {symlist} \cap Obj
        ELSE LET T == R[n - 1] IN T \cup ({cdr[e] : e \in T} \cap Obj)
  IN  R[Cardinality(host.cells)]
Symbols == {car[e] : e \in Entries}
NameOf(s) == car[cdr[s]]

\* Fault: fe_symbol misses the symbol that is there.
InternedNever(t) == FALSE

Interned(t) == \E s \in Symbols : text[NameOf(s)] = t

Start(c) ==
  /\ Ready /\ c.op \in host.calls
  /\ call' = c
  /\ UNCHANGED <<cells, freelist, strfree, dirty, symlist, base, wild>>

fe_cons ==
  /\ \E x \in Values : Start([Idle EXCEPT !.op = "cons", !.at = "cons", !.a = x])
  /\ UNCHANGED gcstack

fe_string ==
  /\ \E t \in host.texts : Start([Idle EXCEPT !.op = "string", !.at = "string", !.text = t])
  /\ UNCHANGED gcstack

fe_map == Start([Idle EXCEPT !.op = "map", !.at = "map"]) /\ UNCHANGED gcstack

\* The name is not in the symbol table; a name that is changes nothing.
fe_symbol ==
  /\ \E t \in host.texts :
       /\ ~Interned(t)
       /\ Start([Idle EXCEPT !.op = "symbol", !.at = "symbol", !.text = t])
  /\ UNCHANGED gcstack

\* fe_symbol_from_string_obj, for a string whose text is not a symbol's name.
\* The string itself becomes the name.
InternString ==
  \E s \in Values \cap Obj :
    /\ kind[s] = "string" /\ ~Interned(text[s])
    /\ IF Len(gcstack) < StackSize
       THEN /\ Start([Idle EXCEPT !.op = "intern", !.at = "symbol", !.str = s,
                                  !.save = Len(gcstack)])
            /\ gcstack' = Push(s)
       ELSE Ready /\ "intern" \in host.calls /\ Raise /\ UNCHANGED <<cells, freelist, strfree, dirty, symlist, wild>>

-----------------------------------------------------------------------------
\* The next link of the freelist, which a cell still holds in its cdr when it
\* has just been taken off.
Link(o) == LET rest == freelist \ {o}
           IN  IF rest = {} THEN Imm ELSE CHOOSE c \in rest : TRUE

Finish == call' = Idle
GoOn(c) == call' = [c EXCEPT !.fresh = FALSE]
AfterString(c) == IF c.op = "string" THEN Finish ELSE GoOn([c EXCEPT !.at = "name"])

MakePair ==
  /\ At("cons")
  /\ \E o \in Obj :
       /\ Object(o)
       /\ kind' = [kind EXCEPT ![o] = "pair"]
       /\ car' = [car EXCEPT ![o] = call.a]
       /\ cdr' = [cdr EXCEPT ![o] = Imm]
  /\ Finish
  /\ UNCHANGED <<text, chain, stale, strfree, symlist, base, wild>>

\* make_data_obj: the cell has its type before it has its slabs.
MakeString ==
  /\ At("string")
  /\ \E o \in Obj :
       /\ Object(o)
       /\ kind' = [kind EXCEPT ![o] = "string"]
       /\ text' = [text EXCEPT ![o] = call.text]
       /\ LET c == [call EXCEPT !.str = o, !.left = Size[call.text]]
          IN  IF c.left = 0 THEN AfterString(c) /\ UNCHANGED stale
              ELSE GoOn([c EXCEPT !.at = "slab"]) /\ stale' = stale \cup {o}
  /\ UNCHANGED <<car, cdr, chain, strfree, symlist, base, wild>>

\* Fault: str_slab_alloc leaves the slab on the list of free slabs.
TakeSlabKeeps ==
  /\ At("slab") /\ strfree # {}
  /\ LET s == CHOOSE x \in strfree : TRUE
         c == [call EXCEPT !.left = @ - 1, !.got = @ \cup {s}]
     IN  IF c.left > 0 THEN GoOn(c) /\ UNCHANGED <<chain, stale>>
         ELSE /\ chain' = [chain EXCEPT ![c.str] = c.got]
              /\ stale' = stale \ {c.str}
              /\ AfterString([c EXCEPT !.got = {}])
  /\ UNCHANGED <<kind, car, cdr, text, freelist, strfree, dirty, gcstack, symlist, base, wild>>

\* str_slab_alloc; the last slab completes the chain of the string.
TakeSlab ==
  /\ At("slab") /\ strfree # {}
  /\ LET s == CHOOSE x \in strfree : TRUE
         c == [call EXCEPT !.left = @ - 1, !.got = @ \cup {s}]
     IN  /\ strfree' = strfree \ {s}
         /\ IF c.left > 0 THEN GoOn(c) /\ UNCHANGED <<chain, stale>>
            ELSE /\ chain' = [chain EXCEPT ![c.str] = c.got]
                 /\ stale' = stale \ {c.str}
                 /\ AfterString([c EXCEPT !.got = {}])
  /\ UNCHANGED <<kind, car, cdr, text, freelist, dirty, gcstack, symlist, base, wild>>

\* No slab is left: the string keeps its type and the stale link.
SlabsOut ==
  /\ At("slab") /\ strfree = {} /\ call.fresh
  /\ Raise
  /\ UNCHANGED <<cells, freelist, strfree, dirty, symlist, wild>>

MakeSymbol ==
  /\ At("symbol")
  /\ \E o \in Obj :
       /\ Object(o)
       /\ kind' = [kind EXCEPT ![o] = "symbol"]
       /\ cdr' = [cdr EXCEPT ![o] = Link(o)]
       /\ GoOn([call EXCEPT !.obj = o, !.at = IF @ = "symbol" /\ call.op = "symbol"
                                              THEN "string" ELSE "name"])
  /\ UNCHANGED <<car, text, chain, stale, strfree, symlist, base, wild>>

\* cdr(obj) = fe_cons(ctx, name, &nil)
NameSymbol ==
  /\ At("name")
  /\ \E o \in Obj :
       /\ Object(o)
       /\ kind' = [kind EXCEPT ![o] = "pair"]
       /\ car' = [car EXCEPT ![o] = call.str]
       /\ cdr' = [cdr EXCEPT ![o] = Imm, ![call.obj] = o]
  /\ GoOn([call EXCEPT !.at = "entry"])
  /\ UNCHANGED <<text, chain, stale, strfree, symlist, base, wild>>

\* symlist = fe_cons(ctx, obj, symlist)
EnterSymbol ==
  /\ At("entry")
  /\ \E o \in Obj :
       /\ Take(o)
       /\ gcstack' = IF call.op = "intern" THEN SubSeq(gcstack, 1, call.save) ELSE Push(o)
       /\ kind' = [kind EXCEPT ![o] = "pair"]
       /\ car' = [car EXCEPT ![o] = call.obj]
       /\ cdr' = [cdr EXCEPT ![o] = symlist]
       /\ symlist' = o
  /\ Finish
  /\ UNCHANGED <<text, chain, stale, strfree, base, wild>>

MakeMap ==
  /\ At("map")
  /\ \E o \in Obj : Object(o) /\ kind' = [kind EXCEPT ![o] = "map"]
  /\ Finish
  /\ UNCHANGED <<car, cdr, text, chain, stale, strfree, symlist, base, wild>>

\* map_alloc fails: the cell has left the freelist and has no type yet.
MapFails ==
  /\ At("map") /\ Len(gcstack) < StackSize
  /\ freelist # {}
  /\ freelist' = freelist \ {CHOOSE o \in freelist : TRUE}
  /\ Raise
  /\ UNCHANGED <<cells, strfree, dirty, symlist, wild>>

\* fe_set: the value of a global, the cdr of the pair that holds the name, is
\* set to nil or to what was made last.
fe_set ==
  /\ Ready /\ "set" \in host.calls
  /\ \E s \in Symbols, v \in {Imm, IF gcstack = <<>> THEN Imm ELSE Last(gcstack)} :
       cdr' = [cdr EXCEPT ![cdr[s]] = v]
  /\ UNCHANGED <<kind, car, text, chain, stale, freelist, strfree, dirty, gcstack,
                 symlist, base, call, wild>>

Step ==
  \/ BeginRun \/ EndRun \/ RestoreGC
  \/ fe_cons \/ fe_string \/ fe_map \/ fe_symbol \/ InternString \/ fe_set
  \/ Collect \/ OutOfMemory \/ Overflow
  \/ MakePair \/ MakeString \/ TakeSlab \/ SlabsOut
  \/ MakeSymbol \/ NameSymbol \/ EnterSymbol \/ MakeMap \/ MapFails

Next == Step /\ UNCHANGED host

Spec == Init /\ [][Next]_vars

-----------------------------------------------------------------------------
\* The variables keep their types, and the gcstack does not outgrow its array.
TypeOK ==
  /\ kind \in [Obj -> Kinds] /\ car \in [Obj -> Ref] /\ cdr \in [Obj -> Ref]
  /\ text \in [Obj -> Text]
  /\ chain \in [Obj -> SUBSET Slab]
  /\ stale \subseteq Obj /\ freelist \subseteq Obj /\ dirty \subseteq Obj
  /\ strfree \subseteq Slab
  /\ gcstack \in Seq(Obj) /\ Len(gcstack) <= StackSize
  /\ symlist \in Ref
  /\ base \in 0 .. NoRun
  /\ call \in Calls
  /\ wild \in BOOLEAN

\* The symbol under construction, whose cdr is not a reference yet.
Unnamed == IF call.at \in {"string", "slab", "name"} THEN {call.obj} ELSE {}

\* The cells that the program can reach from the roots.
Used ==
  LET R[n \in 0 .. Cardinality(host.cells)] ==
        IF n = 0 THEN Roots
        ELSE LET T == R[n - 1] IN T \cup UNION {Children(o) : o \in T \ Unnamed}
  IN  R[Cardinality(host.cells)]

\* SAFETY: no collection, at whatever allocation of whatever constructor, and
\* no error takes away a cell that the program can still reach, or one that
\* the constructor in progress holds only in a C local.
NoDangling ==
  \A o \in Used \cup ({call.obj, call.str, call.a} \cap Obj) :
    kind[o] # "free" /\ o \notin freelist

\* SAFETY: a slab is free or belongs to one string or is in the hands of
\* str_alloc, never two of these: no two strings share bytes, and no string
\* in use has a slab that the next string may be given.
SlabsOwned ==
  /\ \A o, p \in Obj : o # p => chain[o] \cap chain[p] = {}
  /\ \A o \in Obj : chain[o] \cap (strfree \cup call.got) = {}
  /\ strfree \cap call.got = {}

\* SAFETY, what fe_mark relies on: between collections no cell in use has its
\* mark bit set (the marker would not look behind it), even though the stale
\* link of a new symbol lets the marker set the bit of free cells.
MarksClear == \A o \in dirty : kind[o] = "free"

\* SAFETY, what fe_symbol and getbound rely on: whatever error ended an
\* earlier constructor, every entry of symlist is a symbol that has its
\* (name . value) pair, with a complete string for a name, and no two symbols
\* have the same name.
SymbolsWhole ==
  /\ \A s \in Symbols : /\ s \in Obj /\ kind[s] = "symbol"
                        /\ cdr[s] \in Obj /\ kind[cdr[s]] = "pair"
                        /\ NameOf(s) \in Obj \ stale /\ kind[NameOf(s)] = "string"
  /\ \A s, t \in Symbols : text[NameOf(s)] = text[NameOf(t)] => s = t

\* SAFETY, "context did not recover after handled errors"
\* (tools/test_try_api.c): after an error has been handled, a collection only
\* follows links that lead into the slab arena.
SweepFollowsSlabs == ~wild

=============================================================================
