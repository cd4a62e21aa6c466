------------------------------- MODULE FeMap -------------------------------
(***************************************************************************)
(* The hash table behind a map object (fe_Map in src/src/fe.c): open       *)
(* addressing with linear probing, tombstones for deleted entries, and     *)
(* growth by rehashing.                                                    *)
(*                                                                         *)
(* Abstractions: hash_string_obj is an arbitrary function of the name,     *)
(* chosen in the initial state; a key is a symbol or a string with a name, *)
(* or anything else; a refused allocation (map_alloc) and an abort of the  *)
(* rehash are nondeterministic failures.  FeMemory has the blocks of the   *)
(* table, FeHeap its cell.                                                 *)
(***************************************************************************)
EXTENDS Integers, Sequences, FiniteSetsExt, Functions

CONSTANTS
  Name,         \* the names that keys stand for
  Value, Nil,
  Hashes,       \* the hash functions considered
  MinCapacity,  \* min_capacity, 8 in the code
  MaxCapacity   \* bound: a larger table is refused by the memory limit

ASSUME MapAssumption ==
  /\ Nil \notin Value
  /\ MinCapacity \in Nat \ {0} /\ MaxCapacity \in Nat
  /\ \A h \in Hashes : h \in [Name -> Nat]

VARIABLES
  hash,   \* hash_string_obj
  table,  \* the arrays states, keys and values; its domain is 0 .. capacity - 1
  count,  \* live entries
  used,   \* live entries and tombstones
  reply   \* the last operation, with its arguments and its result

vars == <<hash, table, count, used, reply>>

Slots == [state: {"empty", "used", "tomb"}, key: Name \cup {Nil}, value: Value \cup {Nil}]
Empty == [state |-> "empty", key |-> Nil, value |-> Nil]
Tomb == [state |-> "tomb", key |-> Nil, value |-> Nil]
Entry(k, v) == [state |-> "used", key |-> k, value |-> v]

\* map_alloc: a table with all slots MAP_EMPTY.
Blank(capacity) == [i \in 0 .. capacity - 1 |-> Empty]
Capacity(t) == Cardinality(DOMAIN t)

Init ==
  /\ hash \in Hashes
  /\ table = Blank(MinCapacity)
  /\ count = 0 /\ used = 0
  /\ reply = [op |-> "none"]

-----------------------------------------------------------------------------
\* The i-th slot that map_find_slot looks at for name k.
Probe(t, k, i) == ((hash[k] % Capacity(t)) + i) % Capacity(t)

\* The steps at which the search for k stops: an empty slot, or k itself.
Stops(t, k) ==
  {i \in DOMAIN t : LET s == t[Probe(t, k, i)]
                    IN  s.state = "empty" \/ (s.state = "used" /\ s.key = k)}

\* The tombstones that the search passes, up to step n.
Passed(t, k, n) == {i \in 0 .. n - 1 : t[Probe(t, k, i)].state = "tomb"}

\* map_find_slot: where k is, or else where it would go: the first tombstone
\* passed, or the empty slot that ended the search; -1 when there is neither.
FindSlot(t, k) ==
  LET stops == Stops(t, k)
      last == IF stops = {} THEN Capacity(t) ELSE Min(stops)
      tombs == Passed(t, k, last)
      found == last < Capacity(t) /\ t[Probe(t, k, last)].state = "used"
  IN  [found |-> found,
       slot |-> IF found \/ (tombs = {} /\ last < Capacity(t)) THEN Probe(t, k, last)
                ELSE IF tombs # {} THEN Probe(t, k, Min(tombs)) ELSE -1]

\* map_resize: the used slots of t, in order, put into a blank table.
Rehashed(t, capacity) ==
  LET R[n \in 0 .. Capacity(t)] ==
        IF n = 0 THEN Blank(capacity)
        ELSE LET grown == R[n - 1]
                 s == t[n - 1]
             IN  IF s.state # "used" THEN grown
                 ELSE [grown EXCEPT ![FindSlot(grown, s.key).slot] = s]
  IN  R[Capacity(t)]

Crowded(n, capacity) == (n + 1) * 4 >= capacity * 3

\* The capacity that map_ensure_capacity asks for: doubled until not crowded.
Target ==
  LET capacity == Max({Capacity(table), MinCapacity})
  IN  Min({c \in {capacity * 2^n : n \in 0 .. used + 3} : ~Crowded(used, c)})

-----------------------------------------------------------------------------
\* normalize_map_key: a symbol or a string stands for its name, and every
\* operation works on the name; any other key is an error.
Fail == reply' = [op |-> "error"] /\ UNCHANGED <<hash, table, count, used>>

BadKey == Fail

\* Fault: a name that is there keeps its value.
StoreOnce(t, n, k, v) ==
  LET f == FindSlot(t, k)
  IN  /\ f.slot >= 0
      /\ table' = IF f.found THEN t ELSE [t EXCEPT ![f.slot] = Entry(k, v)]
      /\ count' = IF f.found THEN count ELSE count + 1
      /\ used' = IF ~f.found /\ t[f.slot].state = "empty" THEN n + 1 ELSE n
      /\ reply' = [op |-> "set", key |-> k, value |-> v]
      /\ UNCHANGED hash

\* Fault: a tombstone that is taken again is counted again.
StoreRecounts(t, n, k, v) ==
  LET f == FindSlot(t, k)
  IN  /\ f.slot >= 0
      /\ table' = [t EXCEPT ![f.slot] = Entry(k, v)]
      /\ count' = IF f.found THEN count ELSE count + 1
      /\ used' = IF f.found THEN n ELSE n + 1
      /\ reply' = [op |-> "set", key |-> k, value |-> v]
      /\ UNCHANGED hash

\* fe_map_set once map_ensure_capacity has left table t with n slots used.
Store(t, n, k, v) ==
  LET f == FindSlot(t, k)
  IN  /\ f.slot >= 0
      /\ table' = [t EXCEPT ![f.slot] = Entry(k, v)]
      /\ count' = IF f.found THEN count ELSE count + 1
      /\ used' = IF ~f.found /\ t[f.slot].state = "empty" THEN n + 1 ELSE n
      /\ reply' = [op |-> "set", key |-> k, value |-> v]
      /\ UNCHANGED hash

fe_map_set ==
  \E k \in Name, v \in Value :
    /\ ~Crowded(used, Max({Capacity(table), MinCapacity}))
    /\ Store(table, used, k, v)

\* The tombstones do not survive a rehash: used becomes count.
SetAfterResize ==
  \E k \in Name, v \in Value :
    /\ Crowded(used, Capacity(table)) /\ Target <= MaxCapacity
    /\ Store(Rehashed(table, Target), count, k, v)

\* map_alloc is refused, or an abort is pending when the rehash polls for one.
ResizeFails ==
  /\ Crowded(used, Capacity(table))
  /\ Fail

fe_map_get ==
  /\ \E k \in Name :
       LET f == FindSlot(table, k)
       IN  reply' = [op |-> "get", key |-> k, value |-> IF f.found THEN table[f.slot].value ELSE Nil]
  /\ UNCHANGED <<hash, table, count, used>>

fe_map_has ==
  /\ \E k \in Name : reply' = [op |-> "has", key |-> k, found |-> FindSlot(table, k).found]
  /\ UNCHANGED <<hash, table, count, used>>

fe_map_delete ==
  \E k \in Name :
    /\ LET f == FindSlot(table, k)
       IN  /\ table' = IF f.found THEN [table EXCEPT ![f.slot] = Tomb] ELSE table
           /\ count' = IF f.found THEN count - 1 ELSE count
           /\ reply' = [op |-> "delete", key |-> k, found |-> f.found]
    /\ UNCHANGED <<hash, used>>

fe_map_count ==
  /\ reply' = [op |-> "count", n |-> count]
  /\ UNCHANGED <<hash, table, count, used>>

\* The keys in the order of the slots: the list is built from the last one on.
UsedSlots(t) == {i \in DOMAIN t : t[i].state = "used"}
fe_map_keys ==
  /\ LET K[n \in 0 .. Capacity(table)] ==
           IF n = 0 THEN <<>>
           ELSE LET s == table[n - 1]
                IN  K[n - 1] \o IF s.state = "used" THEN <<s.key>> ELSE <<>>
     IN  reply' = [op |-> "keys", keys |-> K[Capacity(table)]]
  /\ UNCHANGED <<hash, table, count, used>>

Next ==
  \/ fe_map_set \/ SetAfterResize \/ ResizeFails \/ BadKey
  \/ fe_map_get \/ fe_map_has \/ fe_map_delete \/ fe_map_count \/ fe_map_keys

Spec == Init /\ [][Next]_vars

-----------------------------------------------------------------------------
\* The function from names to values that the table stands for.
Content ==
  LET names == {table[i].key : i \in UsedSlots(table)}
  IN  [k \in names |-> table[CHOOSE i \in UsedSlots(table) : table[i].key = k].value]

Promise == INSTANCE FeMapSpec WITH content <- Content

\* REFINEMENT: through every sequence of sets, deletions, rehashes and failures
\* the table behaves as a function from names to values: what was set last is
\* what fe_map_get returns, a deleted key is gone and stays gone, a rehash and
\* a failed operation change nothing, fe_map_count and fe_map_keys agree.
KeepsPromise == Promise!Spec

\* SAFETY: the capacity is never 0, no name has two slots, the counters are
\* those of the slots, and an empty slot is left, so every search ends with an
\* answer and fe_map_set always finds a place.
TableOK ==
  /\ DOMAIN table = 0 .. Capacity(table) - 1 /\ Capacity(table) \in 1 .. MaxCapacity
  /\ \A i \in DOMAIN table : table[i] \in Slots
  /\ \A i, j \in UsedSlots(table) : table[i].key = table[j].key => i = j
  /\ count = Cardinality(UsedSlots(table))
  /\ used = Cardinality({i \in DOMAIN table : table[i].state # "empty"})
  /\ used < Capacity(table)

=============================================================================
