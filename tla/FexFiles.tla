------------------------------ MODULE FexFiles ------------------------------
(***************************************************************************)
(* The file, path and JSON builtins (fex_builtins.c) as the system calls,  *)
(* allocations and early returns they are made of.  A script calls one     *)
(* after the other; any allocation and any system call may fail, the       *)
(* deadline may strike at every poll, and another process may rewrite the  *)
(* file or make directories while a builtin is at work.                    *)
(*                                                                         *)
(* There is one file.  What the JSON reader and writer compute is left to  *)
(* the constants Parse and Render: Parse(text) is a record with a kind     *)
(* ("value", "error" or "trailing") and a value, Render(value) the set of  *)
(* texts the writer may produce, empty when it raises an error.            *)
(***************************************************************************)
EXTENDS FexPath

CONSTANTS
    Parse(_), Render(_),
    Byte,           \* the bytes files and strings are made of
    Starts,         \* scripts, with the file and the directories they find
    NoFile,         \* the content of a file that does not exist
    MaxSize,        \* 256 KiB: the longest file the readers accept
    ChunkSize       \* FEX_FILE_IO_CHUNK_SIZE

Readers == {"readfile", "readbytes", "readjson"}
Writers == {"writefile", "writebytes", "writejson"}
PathOps == {"dirname", "basename"}

CallsOf(start) == {start.script[i] : i \in DOMAIN start.script}

BytesToWrite(c) ==
    /\ c.op \in {"writefile", "writebytes"} => c.content \in Seq(Byte)
    /\ c.op = "writejson" => Render(c.content) \subseteq Seq(Byte)

ASSUME FilesAssumption ==
    /\ MaxSize \in Nat
    /\ ChunkSize \in Nat \ {0}
    /\ NoFile \notin Seq(Byte)
    /\ \A s \in Starts : /\ s.script \in Seq(CallsOf(s))
                         /\ \A c \in CallsOf(s) : BytesToWrite(c)
                         /\ s.disk \in Seq(Byte) \union {NoFile}

VARIABLES
    script,     \* the calls still to make
    call,       \* the call being made: op and its arguments
    pc,         \* the step it is at; "idle" between calls
    held,       \* the blocks this call has allocated and will free
    lost,       \* those an error raised further down left allocated
    stream,     \* the open FILE or DIR: "none", "file" or "dir"
    text,       \* the bytes or names the call has gathered or has to write
    done,       \* how many of them are read or written, or parts joined
    disk,       \* what the file holds
    pending,    \* bytes fwrite accepted that are not in the file yet
    dirs,       \* the directories, as places
    files,      \* the places of the other files
    todo,       \* the directories mkdirp has still to make
    result,     \* what the last call returned or raised
    before,     \* the file as the call found it
    quiet       \* nobody else changed the file, and no flush was lost

vars == <<script, call, pc, held, lost, stream, text, done, disk, pending,
          dirs, files, todo, result, before, quiet>>

work == <<stream, text, done>>
world == <<disk, pending, dirs, files>>
history == <<before, quiet>>

NoCall == [op |-> "none"]
NoResult == [kind |-> "none", why |-> "none", value |-> <<>>]
Value(v) == [kind |-> "value", why |-> "none", value |-> v]
SilentNil == [kind |-> "nil", why |-> "memory", value |-> <<>>]
Error(why) == [kind |-> "error", why |-> why, value |-> <<>>]

\* The builtin frees some blocks and returns, or raises its own error.
Return(r, freed) ==
    /\ pc' = "idle"
    /\ held' = held \ freed
    /\ result' = r
    /\ UNCHANGED <<script, call, lost, todo>>

\* fe_error in a function it called: the longjmp passes over its frees.
RaiseInside(why, extra) ==
    /\ pc' = "idle"
    /\ held' = {}
    /\ lost' = lost \union held \union extra
    /\ result' = Error(why)
    /\ UNCHANGED <<script, call, todo>>

Goto(label, blocks) ==
    /\ pc' = label
    /\ held' = blocks
    /\ UNCHANGED <<script, call, lost, todo, result>>

----------------------------------------------------------------------------
Init ==
    /\ \E start \in Starts : /\ script = start.script
                              /\ disk = start.disk
                              /\ dirs = start.dirs
                              /\ files = start.files
    /\ call = NoCall
    /\ pc = "idle"
    /\ held = {} /\ lost = {}
    /\ stream = "none" /\ text = <<>> /\ done = 0
    /\ pending = <<>> /\ todo = <<>>
    /\ result = NoResult
    /\ before = disk
    /\ quiet = TRUE

Call ==
    /\ pc = "idle"
    /\ script # <<>>
    /\ call' = Head(script)
    /\ script' = Tail(script)
    /\ pc' = IF call'.op = "tojson" THEN "render"
             ELSE IF call'.op = "pathjoin" THEN "join" ELSE "name"
    /\ lost' = {}
    /\ text' = <<>> /\ done' = 0 /\ todo' = <<>>
    /\ result' = NoResult
    /\ before' = disk
    /\ UNCHANGED <<held, stream, world, quiet>>

\* The first argument as a C string: a name, or the text of parsejson.
StringToCstr ==
    /\ pc = "name"
    /\ \/ /\ Goto(CASE call.op \in Readers   -> "open_read"
                    [] call.op \in {"writefile", "writebytes"} -> "content"
                    [] call.op = "writejson" -> "render"
                    [] call.op = "parsejson" -> "parse"
                    [] call.op = "listdir"   -> "open_dir"
                    [] call.op \in PathOps   -> "path"
                    [] call.op = "exists"    -> "exists"
                    [] OTHER                 -> "tree",     \* mkdir, mkdirp
                  {"name"})
          /\ text' = IF call.op = "parsejson" THEN call.content ELSE text
       \/ /\ RaiseInside("argument", {})
          /\ UNCHANGED text
    /\ UNCHANGED <<stream, done, world, history>>

\* The second argument of writefile and writebytes.
ContentToBuffer ==
    /\ pc = "content"
    /\ \/ /\ call.op = "writefile" => \A i \in DOMAIN call.content : call.content[i] # "nul"
          /\ Goto("open_write", {"name", "content"})
          /\ text' = call.content
       \/ /\ RaiseInside("argument", {})
          /\ UNCHANGED text
    /\ UNCHANGED <<stream, done, world, history>>

----------------------------------------------------------------------------
(***************************************************************************)
(* read_file_dynamic.                                                      *)
(***************************************************************************)
OpenRead ==
    /\ pc = "open_read"
    /\ \/ /\ disk # NoFile
          /\ Goto("size", held)
          /\ stream' = "file"
       \/ /\ Return(Error("system"), {"name"})
          /\ UNCHANGED stream
    /\ UNCHANGED <<text, done, world, history>>

Small == Len(disk) <= MaxSize

\* Fault: a failed allocation leaves the file open.
SizeFileLeft ==
    /\ pc = "size"
    /\ \/ /\ Small
          /\ Goto(IF disk = <<>> THEN "close_read" ELSE "read", held \union {"buffer"})
          /\ done' = Len(disk)
       \/ Small /\ Return(Error("memory"), {"name"}) /\ UNCHANGED done
    /\ UNCHANGED <<stream, text, world, history>>

\* fseek, ftell, the limit and the buffer; done is what there is to read.
SizeFile ==
    /\ pc = "size"
    /\ \/ /\ Small
          /\ Goto(IF disk = <<>> THEN "close_read" ELSE "read", held \union {"buffer"})
          /\ done' = Len(disk)
          /\ UNCHANGED stream
       \/ /\ \/ Return(Error("system"), {"name"})
             \/ ~Small /\ Return(Error("limit"), {"name"})
             \/ Small /\ Return(Error("memory"), {"name"})
          /\ stream' = "none"
          /\ UNCHANGED done
    /\ UNCHANGED <<text, world, history>>

\* One turn of the loop: poll, then read up to a chunk of what is left.
ReadChunk ==
    /\ pc = "read"
    /\ LET chunk == Min({done - Len(text), ChunkSize})
           got == IF Len(disk) <= Len(text) THEN 0 ELSE Min({chunk, Len(disk) - Len(text)})
           all == text \o SubSeq(disk, Len(text) + 1, Len(text) + got)
       IN  \/ /\ Goto(IF got < chunk \/ Len(all) = done THEN "close_read" ELSE "read", held)
              /\ text' = all
              /\ UNCHANGED stream
           \/ /\ Return(Error("abort"), {"buffer", "name"}) \/ Return(Error("system"), {"buffer", "name"})
              /\ stream' = "none"
              /\ UNCHANGED text
    /\ UNCHANGED <<done, world, history>>

\* fclose, and the caller frees the file name.
CloseRead ==
    /\ pc = "close_read"
    /\ Goto(IF call.op = "readjson" THEN "parse" ELSE "build", held \ {"name"})
    /\ stream' = "none"
    /\ UNCHANGED <<text, done, world, history>>

\* json_parse_value on the text, then the check for trailing characters.
ParseJson ==
    /\ pc = "parse"
    /\ LET parsed == Parse(text)
           whole == {IF call.op = "parsejson" THEN "name" ELSE "buffer"}
       IN  \/ parsed.kind = "value" /\ Return(Value(parsed.value), whole)
           \/ parsed.kind = "trailing" /\ Return(Error("text"), whole)
           \/ parsed.kind = "error" /\ RaiseInside("text", {})
           \/ RaiseInside("abort", {})
           \/ RaiseInside("memory", {})
    /\ UNCHANGED <<work, world, history>>

\* fe_string or fe_bytes on what the call has gathered.
Build ==
    /\ pc = "build"
    /\ \/ Return(Value(IF call.op = "listdir" THEN ToSet(text) ELSE text),
                 CASE call.op \in Readers -> {"buffer"}
                   [] call.op \in PathOps -> {"name"}
                   [] call.op = "listdir" -> {"items", "entries", "name"}
                   [] OTHER -> {"buf"})
       \/ RaiseInside("memory", {})
       \/ call.op = "listdir" /\ RaiseInside("abort", {})
    /\ UNCHANGED <<work, world, history>>

----------------------------------------------------------------------------
(***************************************************************************)
(* writefile, writebytes, writejson and tojson.                            *)
(***************************************************************************)
\* Fault: the file is opened, and so emptied, before the value is written out.
RenderJsonLate ==
    /\ pc = "render"
    /\ \/ \E t \in Render(call.content) :
             /\ Goto(IF call.op = "tojson" THEN "build" ELSE "open_write",
                     held \union {"buf"})
             /\ text' = t
       \/ Return(SilentNil, {"name", "buf"}) /\ UNCHANGED text
    /\ disk' = IF call.op = "writejson" THEN <<>> ELSE disk
    /\ UNCHANGED <<stream, done, pending, dirs, files, history>>

\* json_write_value, which returns 0 when its buffer cannot grow.
RenderJson ==
    /\ pc = "render"
    /\ \/ \E t \in Render(call.content) :
             /\ Goto(IF call.op = "tojson" THEN "build" ELSE "open_write",
                     held \union {"buf"})
             /\ text' = t
       \/ /\ \/ Render(call.content) = {} /\ RaiseInside("text", {"buf"})
             \/ RaiseInside("abort", {"buf"})
             \/ RaiseInside("memory", {"buf"})
             \/ Return(SilentNil, {"name", "buf"})
          /\ UNCHANGED text
    /\ UNCHANGED <<stream, done, world, history>>

\* What the three writers hold once they have something to write.
WriterBlocks == {"name", IF call.op = "writejson" THEN "buf" ELSE "content"}

\* fopen with "wb" empties the file.
OpenWrite ==
    /\ pc = "open_write"
    /\ \/ /\ Goto(IF text = <<>> THEN "close_write" ELSE "write", held)
          /\ stream' = "file"
          /\ disk' = <<>>
       \/ /\ Return(Error("system"), WriterBlocks)
          /\ UNCHANGED <<stream, disk>>
    /\ UNCHANGED <<text, done, pending, dirs, files, history>>

\* fclose writes what the stream still buffers, or fails to, unnoticed.
Fclose(buffered) ==
    /\ stream' = "none"
    /\ pending' = <<>>
    /\ \/ disk' = disk \o buffered /\ UNCHANGED quiet
       \/ buffered # <<>> /\ quiet' = FALSE /\ UNCHANGED disk

\* One turn of the loop: poll, then write up to a chunk of what is left.
WriteChunk ==
    /\ pc = "write"
    /\ LET size == Min({Len(text) - done, ChunkSize})
           chunk == SubSeq(text, done + 1, done + size)
       IN  \/ /\ Goto(IF done + size = Len(text) THEN "close_write" ELSE "write", held)
              /\ done' = done + size
              /\ \/ disk' = disk \o pending \o chunk /\ pending' = <<>>
                 \/ pending' = pending \o chunk /\ UNCHANGED disk
              /\ UNCHANGED <<stream, quiet>>
           \/ /\ Return(Error("abort"), WriterBlocks)
              /\ Fclose(pending)
              /\ UNCHANGED done
           \/ \E n \in 0 .. size - 1 :
              /\ Return(Error("system"), WriterBlocks)
              /\ Fclose(pending \o SubSeq(text, done + 1, done + n))
              /\ done' = done + n
    /\ UNCHANGED <<text, dirs, files, before>>

CloseWrite ==
    /\ pc = "close_write"
    /\ Return(Value(done), WriterBlocks)
    /\ Fclose(pending)
    /\ UNCHANGED <<text, done, dirs, files, before>>

----------------------------------------------------------------------------
(***************************************************************************)
(* The path builtins, and the directories.                                 *)
(***************************************************************************)
\* dirname and basename; dirname frees the path early when it has no "/".
SplitPath ==
    /\ pc = "path"
    /\ \/ /\ Goto("build", IF call.op = "dirname" /\ Separators(Stripped(call.path, 1)) = {}
                           THEN {} ELSE held)
          /\ text' = IF call.op = "dirname" THEN dirname(call.path) ELSE basename(call.path)
       \/ /\ Return(Error("abort"), {"name"})
          /\ UNCHANGED text
    /\ UNCHANGED <<stream, done, world, history>>

\* One turn of pathjoin's loop, or the "." it makes of nothing.
JoinPaths ==
    /\ pc = "join"
    /\ \/ /\ done < Len(call.parts)
          /\ LET buf == JoinPart(text, call.parts[done + 1])
             IN  /\ Goto("join", IF buf = <<>> THEN {} ELSE {"buf"})
                 /\ text' = buf
          /\ done' = done + 1
       \/ /\ done = Len(call.parts)
          /\ Goto("build", {"buf"})
          /\ text' = IF text = <<>> THEN <<".">> ELSE text
          /\ UNCHANGED done
       \/ /\ \/ done < Len(call.parts) /\ RaiseInside("argument", {})
             \/ done < Len(call.parts) /\ Return(Error("abort"), {"buf"})
             \/ /\ done < Len(call.parts) \/ text = <<>>
                /\ Return(Error("memory"), {"buf"})
          /\ UNCHANGED <<text, done>>
    /\ UNCHANGED <<stream, world, history>>

\* stat: no file has an empty name, and only a directory one that ends in "/".
IsDirectory(path) == path # <<>> /\ Place(path) \in dirs
PathExists(path) ==
    \/ IsDirectory(path)
    \/ path # <<>> /\ Last(path) # "/" /\ Place(path) \in files

Exists ==
    /\ pc = "exists"
    /\ Return(Value(PathExists(call.path)), {"name"})
    /\ UNCHANGED <<work, world, history>>

\* mkdir makes one directory, mkdirp all on the way, if there is a way.
StartTree ==
    /\ pc = "tree"
    /\ LET paths == IF call.op = "mkdir" THEN <<call.path>> ELSE ensure_directory_tree(call.path)
       IN  IF paths = <<>> THEN Return(Error("argument"), {"name"})
           ELSE /\ pc' = "mkdir"
                /\ todo' = paths
                /\ UNCHANGED <<script, call, held, lost, result>>
    /\ UNCHANGED <<work, world, history>>

\* create_directory_cstr makes a directory, or finds one there.
CanMake(place) == place # <<>> /\ place \notin dirs \union files /\ Front(place) \in dirs

\* Fault: a directory that is there already is an error.
create_directory_anew(path) == CanMake(Place(path))

create_directory(path) == CanMake(Place(path)) \/ IsDirectory(path)

MakeDirectory ==
    /\ pc = "mkdir"
    /\ \/ /\ create_directory(Head(todo))
          /\ dirs' = dirs \union {Place(Head(todo))}
          /\ IF Len(todo) = 1 THEN Return(Value(TRUE), {"name"})
             ELSE /\ todo' = Tail(todo)
                  /\ UNCHANGED <<script, call, pc, held, lost, result>>
       \/ /\ \/ ~create_directory(Head(todo)) /\ Return(Error("obstacle"), {"name"})
             \/ CanMake(Place(Head(todo))) /\ Return(Error("system"), {"name"})
          /\ UNCHANGED dirs
    /\ UNCHANGED <<work, disk, pending, files, history>>

Children(place) == {Last(p) : p \in {q \in dirs \union files : q # <<>> /\ Front(q) = place}}

\* listdir: the test for a directory, opendir, and the entries one by one.
OpenDir ==
    /\ pc = "open_dir"
    /\ \/ /\ IsDirectory(call.path)
          /\ Goto("list", held)
          /\ stream' = "dir"
       \/ /\ Return(Error(IF IsDirectory(call.path) THEN "system" ELSE "obstacle"), {"name"})
          /\ UNCHANGED stream
    /\ UNCHANGED <<text, done, world, history>>

ReadEntry ==
    /\ pc = "list"
    /\ LET left == Children(Place(call.path)) \ ToSet(text)
       IN  \/ \E name \in left : /\ Goto("list", held \union {"entries"})
                                 /\ text' = Append(text, name)
                                 /\ UNCHANGED stream
           \/ /\ left = {}
              /\ Goto("build", held \union (IF text = <<>> THEN {} ELSE {"items"}))
              /\ stream' = "none"
              /\ UNCHANGED text
           \/ /\ \/ Return(Error("abort"), {"name", "entries"})
                 \/ left # {} /\ Return(Error("memory"), {"name", "entries"})
              /\ stream' = "none"
              /\ UNCHANGED text
    /\ UNCHANGED <<done, world, history>>

----------------------------------------------------------------------------
(***************************************************************************)
(* Another process: it cuts the file short or adds to it while a reader    *)
(* has it open, and makes directories and files while mkdirp is at work.   *)
(***************************************************************************)
OtherWrites ==
    /\ stream = "file" /\ pc \in {"size", "read"}
    /\ quiet
    /\ disk' \in {SubSeq(disk, 1, n) : n \in 0 .. Len(disk) - 1} \union {disk \o disk}
    /\ quiet' = FALSE
    /\ UNCHANGED <<script, call, pc, held, lost, work, pending, dirs, files, todo,
                   result, before>>

OtherMakes ==
    /\ pc = "mkdir"
    /\ \E i \in DOMAIN todo :
          LET place == Place(todo[i])
          IN  /\ CanMake(place)
              /\ \/ dirs' = dirs \union {place} /\ UNCHANGED files
                 \/ files' = files \union {place} /\ UNCHANGED dirs
    /\ UNCHANGED <<script, call, pc, held, lost, work, disk, pending, todo, result, history>>

Next ==
    \/ Call \/ StringToCstr \/ ContentToBuffer
    \/ OpenRead \/ SizeFile \/ ReadChunk \/ CloseRead \/ ParseJson \/ Build
    \/ RenderJson \/ OpenWrite \/ WriteChunk \/ CloseWrite
    \/ SplitPath \/ JoinPaths \/ Exists
    \/ StartTree \/ MakeDirectory \/ OpenDir \/ ReadEntry
    \/ OtherWrites \/ OtherMakes

Spec == Init /\ [][Next]_vars

----------------------------------------------------------------------------
Returned == pc = "idle" /\ result.kind # "none"

(***************************************************************************)
(* Whatever fails, no call leaves a file or a directory open, and a call   *)
(* that does not raise an error leaves no block behind: every early return *)
(* of the builtins frees what it allocated.  The one exception is          *)
(* deliberate C: fe_error in a function they call.                         *)
(***************************************************************************)
Released ==
    /\ pc = "idle" => stream = "none" /\ held = {} /\ pending = <<>>
    /\ Returned /\ result.kind # "error" => lost = {}

(***************************************************************************)
(* A write that reports success has replaced the file by exactly its text; *)
(* one that fails leaves the old file or a beginning of the new one, and   *)
(* the old one when the value could not be written as JSON.  A read that   *)
(* reports success returned the whole file.  Both hold unless another      *)
(* process wrote meanwhile or the system lost what fclose flushed.         *)
(***************************************************************************)
WholeOrError ==
    (Returned /\ quiet) =>
      /\ call.op \in Writers =>
           /\ result.kind = "value" => disk = text /\ result.value = Len(text)
           /\ result.kind # "value" => \/ disk = before
                                       \/ disk # NoFile /\ IsPrefix(disk, text)
           /\ result.kind = "nil" \/ result.why = "text" => disk = before
      /\ call.op \notin Writers => disk = before
      /\ (call.op \in {"readfile", "readbytes"} /\ result.kind = "value") =>
           result.value = disk

(***************************************************************************)
(* mkdirp that returns has made every directory on the way to its path, and *)
(* it fails only when the path is empty, something that is no directory is *)
(* in the way or the system refuses: never because another process made    *)
(* one of the directories first.  The exceptions are a path that starts    *)
(* like a drive letter, whose first directory the code leaves out, and one *)
(* with a backslash, before which it makes a directory of its own.         *)
(***************************************************************************)
TreeMade ==
    (Returned /\ call.op = "mkdirp") =>
      LET place == Place(call.path)
          way == {SubSeq(place, 1, n) : n \in 1 .. Len(place)}
          drive == Len(call.path) > 2 /\ call.path[2] = ":" /\ call.path[3] = "/"
          foreign == \E i \in DOMAIN call.path : call.path[i] = "backslash"
      IN  /\ result.kind = "value" => foreign \/ way \subseteq dirs
          /\ result.why = "obstacle" => drive \/ foreign \/ way \intersect files # {}

(***************************************************************************)
(* dirname and basename cut a path at its last name: the first names the   *)
(* place that holds the last name, the second is that name.  pathjoin      *)
(* names what its parts name one after the other, and stays at the root    *)
(* when its first part is more than the root.  listdir misses no entry.    *)
(***************************************************************************)
PathsSplit ==
    LET NamesOf(path) == Names(path, PathSeparators)
        PlaceOf(path) == Located(path, PathSeparators)
        Rooted(path) == IsRooted(path, PathSeparators)
    IN  (Returned /\ result.kind = "value") =>
          /\ call.op = "dirname" /\ NamesOf(call.path) # <<>> /\ basename(call.path) # <<".">> =>
               PlaceOf(result.value) = Front(PlaceOf(call.path))
          /\ call.op = "basename" /\ NamesOf(call.path) # <<>> /\ result.value # <<".">> =>
               result.value = Last(NamesOf(call.path))
          /\ call.op = "pathjoin" =>
               /\ NamesOf(result.value) =
                    FlattenSeq([i \in DOMAIN call.parts |-> NamesOf(call.parts[i])])
               /\ NamesOf(call.parts[1]) # <<>> => Rooted(result.value) = Rooted(call.parts[1])
          /\ call.op = "listdir" => result.value = Children(Place(call.path))
=============================================================================
