------------------------------ MODULE FexImport ------------------------------
(***************************************************************************)
(* File modules and packages of src/src/fe.c: how import_module_spec       *)
(* resolves a specifier, loads the file, and binds the module to names.    *)
(*                                                                         *)
(* A directory is a sequence of names below the working directory.  A file *)
(* is base/a/b.fex or base/a/b/index.fex.  A specifier has segments, and   *)
(* is relative if it begins with a point.  Values are Nil, Val (anything   *)
(* that is not a map) or a map; modules and packages are maps.             *)
(*                                                                         *)
(* Left out: memory errors and aborts, which leave every step by fe_error; *)
(* the rejection of specifiers with "..".  How an error unwinds the C      *)
(* stack is the subject of FexRun: here it ends the run and empties the    *)
(* import state.                                                           *)
(***************************************************************************)
EXTENDS Integers, Sequences

CONSTANTS
  Name,        \* the names of variables, exports and segments
  Scripts,     \* for each file system, a function from files to sequences of
               \* statements: the statements that the host runs
  ImportPaths, \* import_paths: a sequence of directories
  RunBound     \* bound of the model: the number of runs

VARIABLES
  tree,        \* the files
  heap,        \* the globals, the maps, and (ghost) the file that made a map
  cache,       \* loaded_modules: pairs of a file and its module
  loading,     \* loading_modules
  dirs,        \* source_dirs
  modulestack, \* the export tables of the modules being evaluated
  stack,       \* the files being evaluated and the imports being made
  functions,   \* the functions defined that import something
  runs,        \* the number of runs so far
  last         \* ghost: the last import that succeeded

state == <<cache, loading, dirs, modulestack>>
vars == <<tree, heap, state, stack, functions, runs, last>>

-----------------------------------------------------------------------------
(* Files, specifiers, statements and values. *)

File(at, index) == [at |-> at, index |-> index]
NoFile == File(<<>>, FALSE)
path_dirname(f) == IF f.index \/ f = NoFile THEN f.at ELSE SubSeq(f.at, 1, Len(f.at) - 1)

Specifier(segs, relative) == [segs |-> segs, relative |-> relative]
LastSegment(s) == s.segs[Len(s.segs)]
Prefix(s, i) == Specifier(SubSeq(s.segs, 1, i), FALSE)
Prefixes(s) == IF s.relative THEN 0 ELSE Len(s.segs) - 1

Import(s) == [op |-> "import", spec |-> s]
Export(n) == [op |-> "export", name |-> n]
Block(n) == [op |-> "block", name |-> n]
Assign(n) == [op |-> "assign", name |-> n]
Define(s) == [op |-> "define", spec |-> s]
CallAny == [op |-> "call"]

Nil == 0
Val == -1
IsMap(v) == v > 0
EmptyMap == [n \in Name |-> Nil]
IsEmpty(m) == m = EmptyMap

NewMap(h, f) == [h EXCEPT !.maps = Append(@, EmptyMap), !.owner = Append(@, f)]
Fresh(h) == Len(h.maps) + 1
fe_set(h, n, v) == [h EXCEPT !.global[n] = v]
fe_map_set(h, m, n, v) == [h EXCEPT !.maps[m][n] = v]
fe_map_get(h, m, n) == h.maps[m][n]

-----------------------------------------------------------------------------
(* Resolution. *)

\* The directory of the file being evaluated, the import paths, the working
\* directory; in each name.fex, then name/index.fex.
Bases == (IF dirs = <<>> THEN <<>> ELSE <<dirs[Len(dirs)]>>) \o ImportPaths \o <<<<>>>>
Candidates(s) ==
  [i \in 1 .. 2 * Len(Bases) |-> File(Bases[(i + 1) \div 2] \o s.segs, i % 2 = 0)]
resolve_module_file(s) ==
  LET found == {i \in 1 .. Len(Candidates(s)) : Candidates(s)[i] \in DOMAIN tree} IN
  IF found = {} THEN NoFile ELSE Candidates(s)[CHOOSE i \in found : \A j \in found : i <= j]

lookup_global_module(h, n) == IF IsMap(h.global[n]) THEN h.global[n] ELSE Nil

RECURSIVE lookup_module_chain(_, _, _)
lookup_module_chain(h, segs, k) ==
  IF k = 1 THEN lookup_global_module(h, segs[1])
  ELSE LET m == lookup_module_chain(h, segs, k - 1)
           v == IF IsMap(m) THEN fe_map_get(h, m, segs[k]) ELSE Nil
       IN IF IsMap(v) THEN v ELSE Nil

\* The module of that name, or of its last segment.
resolve_imported_module_value(h, s) ==
  LET m == lookup_module_chain(h, s.segs, Len(s.segs))
  IN IF IsMap(m) THEN m ELSE lookup_global_module(h, LastSegment(s))

\* Fault: a segment that is not a map is replaced.
RECURSIVE ensure_package_over(_, _, _)
ensure_package_over(h, segs, k) ==
  LET up == ensure_package_over(h, segs, k - 1)
      v == IF k = 1 THEN h.global[segs[1]] ELSE fe_map_get(up.heap, up.map, segs[k])
      on == NewMap(IF k = 1 THEN h ELSE up.heap, NoFile)
      new == Len(on.maps)
  IN IF IsMap(v) THEN [ok |-> TRUE, heap |-> IF k = 1 THEN h ELSE up.heap, map |-> v]
     ELSE [ok |-> TRUE, map |-> new,
           heap |-> IF k = 1 THEN fe_set(on, segs[1], new) ELSE fe_map_set(on, up.map, segs[k], new)]

\* The map of the first k segments, made where there is none.  A global that is
\* not a map is replaced; a property that is not a map is an error.
RECURSIVE ensure_package_chain(_, _, _)
ensure_package_chain(h, segs, k) ==
  IF k = 1
  THEN IF IsMap(h.global[segs[1]]) THEN [ok |-> TRUE, heap |-> h, map |-> h.global[segs[1]]]
       ELSE [ok |-> TRUE, heap |-> fe_set(NewMap(h, NoFile), segs[1], Fresh(h)), map |-> Fresh(h)]
  ELSE LET up == ensure_package_chain(h, segs, k - 1)
           v == fe_map_get(up.heap, up.map, segs[k])
           new == Fresh(up.heap)
       IN IF ~up.ok \/ v = Val THEN [up EXCEPT !.ok = FALSE]
          ELSE IF IsMap(v) THEN [up EXCEPT !.map = v]
          ELSE [ok |-> TRUE, map |-> new,
                heap |-> fe_map_set(NewMap(up.heap, NoFile), up.map, segs[k], new)]

\* A package member goes into the map of its package, any other into a global.
bind_imported_module(h, s, m) ==
  IF Prefixes(s) > 0
  THEN LET p == ensure_package_chain(h, s.segs, Prefixes(s))
       IN IF p.ok THEN [p EXCEPT !.heap = fe_map_set(@, p.map, LastSegment(s), m)] ELSE p
  ELSE [ok |-> TRUE, heap |-> fe_set(h, LastSegment(s), m), map |-> m]

-----------------------------------------------------------------------------
(* The stack: files being evaluated, and imports.  home is the directory of *)
(* the file that the import statement is written in (ghost).                *)

Frame == [kind |-> "file", file |-> NoFile, body |-> <<>>, map |-> Nil, spec |-> Specifier(<<>>, TRUE),
          home |-> <<>>, optional |-> FALSE, done |-> 0]
Script(script) == [Frame EXCEPT !.body = <<script>>]
Loading(f, m) == [Frame EXCEPT !.file = f, !.body = tree[f], !.map = m]
Importing(s, opt, home) == [Frame EXCEPT !.kind = "import", !.spec = s, !.optional = opt, !.home = home]

top == stack[Len(stack)]
below == SubSeq(stack, 1, Len(stack) - 1)
On(kind) == stack # <<>> /\ top.kind = kind
Put(frame) == Append(below, frame)
DropLast(s) == SubSeq(s, 1, Len(s) - 1)

NoImport == [spec |-> Specifier(<<>>, TRUE), file |-> NoFile, map |-> Nil, known |-> Nil]

\* fe_error: the run ends, and its import state is reset.
Fails(h) ==
  /\ heap' = h
  /\ stack' = <<>> /\ loading' = <<>> /\ dirs' = <<>> /\ modulestack' = <<>>
  /\ UNCHANGED <<tree, cache, functions, runs, last>>

\* import_module_spec binds the module m and returns it.  It was found in the
\* file f, or by its name, which was bound to known.
Returns(m, f, known) ==
  LET b == bind_imported_module(heap, top.spec, m) IN
  IF ~b.ok THEN Fails(b.heap)
  ELSE /\ heap' = b.heap
       /\ stack' = below
       /\ last' = [spec |-> top.spec, file |-> f, map |-> m, known |-> known]
       /\ cache' = IF f = NoFile THEN cache ELSE cache \cup {<<f, m>>}
       /\ loading' = IF top.file = NoFile THEN loading ELSE DropLast(loading)
       /\ UNCHANGED <<tree, dirs, modulestack, functions, runs>>

-----------------------------------------------------------------------------
(* Statements. *)

\* The host runs a statement as a script file in the working directory.
Run ==
  /\ stack = <<>> /\ runs < RunBound
  /\ \E script \in Scripts[tree] : stack' = <<Script(script)>>
  /\ dirs' = <<<<>>>>
  /\ runs' = runs + 1
  /\ UNCHANGED <<tree, heap, cache, loading, modulestack, functions, last>>

Statement(op) == On("file") /\ top.body # <<>> /\ top.body[1].op = op
st == top.body[1]
Advanced == Put([top EXCEPT !.body = Tail(@)])

\* P_IMPORT.
ImportStatement ==
  /\ Statement("import")
  /\ stack' = Append(Advanced, Importing(st.spec, FALSE, path_dirname(top.file)))
  /\ UNCHANGED <<tree, heap, state, functions, runs, last>>

\* P_EXPORT.
ExportStatement ==
  /\ Statement("export")
  /\ IF modulestack = <<>> THEN Fails(heap)
     ELSE /\ heap' = fe_map_set(heap, modulestack[Len(modulestack)], st.name, Val)
          /\ stack' = Advanced
          /\ UNCHANGED <<tree, state, functions, runs, last>>

\* P_MODULE, with a body that exports a name.
BlockStatement ==
  /\ Statement("block")
  /\ LET m == Fresh(heap)
     IN heap' = fe_set(fe_map_set(NewMap(heap, top.file), m, st.name, Val), st.name, m)
  /\ stack' = Advanced
  /\ UNCHANGED <<tree, state, functions, runs, last>>

\* A global variable is given a value.
AssignStatement ==
  /\ Statement("assign")
  /\ heap' = fe_set(heap, st.name, Val)
  /\ stack' = Advanced
  /\ UNCHANGED <<tree, state, functions, runs, last>>

\* A function with an import in its body is defined, and called later.
DefineStatement ==
  /\ Statement("define")
  /\ functions' = functions \cup {[spec |-> st.spec, home |-> path_dirname(top.file)]}
  /\ stack' = Advanced
  /\ UNCHANGED <<tree, heap, state, runs, last>>

CallStatement ==
  /\ Statement("call")
  /\ IF functions = {} THEN Fails(heap)
     ELSE /\ \E g \in functions : stack' = Append(Advanced, Importing(g.spec, FALSE, g.home))
          /\ UNCHANGED <<tree, heap, state, functions, runs, last>>

\* Fault: do_file_common leaves the source directory.
FileEndKeepsDir ==
  /\ On("file") /\ top.body = <<>>
  /\ stack' = below
  /\ modulestack' = IF top.map = Nil THEN modulestack ELSE DropLast(modulestack)
  /\ UNCHANGED <<tree, heap, cache, loading, dirs, functions, runs, last>>

\* do_file_common after the last statement.
FileEnd ==
  /\ On("file") /\ top.body = <<>>
  /\ stack' = below
  /\ dirs' = DropLast(dirs)
  /\ modulestack' = IF top.map = Nil THEN modulestack ELSE DropLast(modulestack)
  /\ UNCHANGED <<tree, heap, cache, loading, functions, runs, last>>

-----------------------------------------------------------------------------
(* import_module_spec. *)

\* The packages that contain the module are imported first, if they can be.
ImportPrefix ==
  /\ On("import") /\ top.file = NoFile /\ top.done < Prefixes(top.spec)
  /\ stack' = Append(Put([top EXCEPT !.done = @ + 1]),
                     Importing(Prefix(top.spec, top.done + 1), TRUE, top.home))
  /\ UNCHANGED <<tree, heap, state, functions, runs, last>>

Resolving == On("import") /\ top.file = NoFile /\ top.done = Prefixes(top.spec)
Found == resolve_module_file(top.spec)
Cached(f) == {m \in 1 .. Len(heap.maps) : <<f, m>> \in cache}

\* There is no such file: the name may be bound to a module.
Unresolved ==
  LET m == resolve_imported_module_value(heap, top.spec) IN
  /\ Resolving /\ Found = NoFile
  /\ IF IsMap(m)
     THEN Returns(m, NoFile, lookup_module_chain(heap, top.spec.segs, Len(top.spec.segs)))
     ELSE IF top.optional
     THEN stack' = below /\ UNCHANGED <<tree, heap, state, functions, runs, last>>
     ELSE Fails(heap)

AlreadyLoaded ==
  /\ Resolving /\ Found # NoFile
  /\ \E m \in Cached(Found) : Returns(m, Found, Nil)

Cyclic ==
  /\ Resolving /\ Found # NoFile /\ Cached(Found) = {}
  /\ \E i \in 1 .. Len(loading) : loading[i] = Found
  /\ Fails(heap)

\* Fault: the module is cached before its file is evaluated.
LoadCached ==
  /\ Resolving /\ Found # NoFile /\ Cached(Found) = {}
  /\ LET m == Fresh(heap) IN
     /\ heap' = NewMap(heap, Found)
     /\ loading' = Append(loading, Found)
     /\ dirs' = Append(dirs, path_dirname(Found))
     /\ modulestack' = Append(modulestack, m)
     /\ stack' = Append(Put([top EXCEPT !.file = Found, !.map = m]), Loading(Found, m))
     /\ cache' = cache \cup {<<Found, m>>}
  /\ UNCHANGED <<tree, functions, runs, last>>

\* The file is evaluated with an export table of its own.
Load ==
  /\ Resolving /\ Found # NoFile /\ Cached(Found) = {}
  /\ \A i \in 1 .. Len(loading) : loading[i] # Found
  /\ LET m == Fresh(heap) IN
     /\ heap' = NewMap(heap, Found)
     /\ loading' = Append(loading, Found)
     /\ dirs' = Append(dirs, path_dirname(Found))
     /\ modulestack' = Append(modulestack, m)
     /\ stack' = Append(Put([top EXCEPT !.file = Found, !.map = m]), Loading(Found, m))
  /\ UNCHANGED <<tree, cache, functions, runs, last>>

\* Fault: a module of that name is preferred to the export table.
module_value_by_name(h, s, exports) ==
  LET m == resolve_imported_module_value(h, s) IN IF IsMap(m) THEN m ELSE exports

\* The export table; or, if it is empty, a module of that name.
module_value(h, s, exports) ==
  LET m == resolve_imported_module_value(h, s)
  IN IF IsEmpty(h.maps[exports]) /\ IsMap(m) THEN m ELSE exports

\* The file has been evaluated: the module is bound and cached.
Loaded ==
  /\ On("import") /\ top.file # NoFile
  /\ Returns(module_value(heap, top.spec, top.map), top.file, Nil)

-----------------------------------------------------------------------------

Init ==
  /\ tree \in DOMAIN Scripts
  /\ heap = [global |-> EmptyMap, maps |-> <<>>, owner |-> <<>>]
  /\ cache = {} /\ loading = <<>> /\ dirs = <<>> /\ modulestack = <<>>
  /\ stack = <<>> /\ functions = {} /\ runs = 0 /\ last = NoImport

Done == stack = <<>> /\ runs = RunBound /\ UNCHANGED vars

Next ==
  \/ Run \/ ImportStatement \/ ExportStatement \/ BlockStatement \/ AssignStatement
  \/ DefineStatement \/ CallStatement \/ FileEnd
  \/ ImportPrefix \/ Unresolved \/ AlreadyLoaded \/ Cyclic \/ Load \/ Loaded
  \/ Done

Spec == Init /\ [][Next]_vars

-----------------------------------------------------------------------------
(* Properties. *)

\* The module that an import yields is the one that its specifier names: made
\* by the file that it resolves to ("Imported files behave as implicit module
\* scopes") or, when there is no such file, bound to the whole name before.
Faithful ==
  last # NoImport =>
    IF last.file # NoFile THEN heap.owner[last.map] = last.file ELSE last.map = last.known

\* An import is resolved from the directory of the file it is written in
\* ("Import lookup tries: 1. the importing file's directory").
OwnDirectory == Resolving => dirs # <<>> /\ dirs[Len(dirs)] = top.home

\* No import yields a module whose file is still being evaluated, whatever
\* cycles the files have: a half-filled export table is never seen.
Complete == \A i \in 1 .. Len(stack) : stack[i].map # Nil => last.map # stack[i].map

\* What a module exports stays: binding the modules of a package into it
\* replaces no exported value.
ExportsKept ==
  [][\A m \in 1 .. Len(heap.maps), n \in Name :
       heap.maps[m][n] = Val => heap'.maps[m][n] = Val]_vars

=============================================================================
