--------------------------- MODULE FexFilesProofs ---------------------------
(***************************************************************************)
(* Released and WholeOrError, for all scripts, files, texts, limits and    *)
(* chunk sizes.                                                            *)
(***************************************************************************)
EXTENDS FexFiles, FexChunks, TLAPS

\* The steps at which a FILE or a DIR is open.
Streaming == {"size", "read", "close_read", "write", "close_write", "list"}

(***************************************************************************)
(* Which builtins are ever at a step, and what they can hold there.  The   *)
(* frees of an early return depend on both, so Released needs them.        *)
(***************************************************************************)
StepOf ==
    /\ pc \in {"open_read", "size", "read", "close_read"} => call.op \in Readers
    /\ pc = "content" => call.op \in {"writefile", "writebytes"}
    /\ pc = "render" => call.op \in {"writejson", "tojson"}
    /\ pc \in {"open_write", "write", "close_write"} => call.op \in Writers
    /\ pc = "parse" => call.op \in {"parsejson", "readjson"}
    /\ pc = "path" => call.op \in PathOps
    /\ pc \in {"open_dir", "list"} => call.op = "listdir"
    /\ pc = "join" => call.op = "pathjoin"
    /\ pc \in {"exists", "tree", "mkdir"} => call.op \notin Readers \union Writers
    /\ pc = "build" => call.op \in Readers \union PathOps \union {"tojson", "pathjoin", "listdir"}

HoldsOf ==
    /\ pc \in {"idle", "name"} => held = {}
    /\ pc \in {"open_read", "size", "content", "path", "exists", "tree", "mkdir", "open_dir"} =>
         held \subseteq {"name"}
    /\ pc \in {"read", "close_read"} => held \subseteq {"name", "buffer"}
    /\ pc = "parse" => held \subseteq {IF call.op = "parsejson" THEN "name" ELSE "buffer"}
    /\ pc = "render" => held \subseteq {"name"}
    /\ (pc = "render" /\ call.op = "tojson") => held = {}
    /\ pc \in {"open_write", "write", "close_write"} => held \subseteq WriterBlocks
    /\ pc = "list" => held \subseteq {"name", "entries"}
    /\ pc = "join" => held \subseteq {"buf"}
    /\ (pc = "build" /\ call.op \in Readers) => held \subseteq {"buffer"}
    /\ (pc = "build" /\ call.op \in PathOps) => held \subseteq {"name"}
    /\ (pc = "build" /\ call.op = "listdir") => held \subseteq {"items", "entries", "name"}
    /\ (pc = "build" /\ call.op \in {"tojson", "pathjoin"}) => held \subseteq {"buf"}

Inv ==
    /\ StepOf
    /\ HoldsOf
    /\ pc \notin Streaming => stream = "none"
    /\ pc \notin {"write", "close_write"} => pending = <<>>
    /\ pc # "idle" => lost = {}
    /\ result.kind # "error" => lost = {}

----------------------------------------------------------------------------
\* The first call finds nothing open and nothing allocated.
LEMMA InitInv == Init => Inv
  BY DEF Init, Inv, StepOf, HoldsOf, Streaming, NoResult

\* Every step of a builtin, of the script and of another process keeps Inv.
LEMMA NextInv == Inv /\ [Next]_vars => Inv'
<1> SUFFICES ASSUME Inv, [Next]_vars PROVE Inv'
  OBVIOUS
<1> USE DEF Inv, StepOf, HoldsOf, Streaming, Readers, Writers, PathOps, WriterBlocks,
            Return, RaiseInside, Goto, Error, Value, SilentNil, NoResult, world, history, work
<1>1. CASE Call
  BY <1>1 DEF Call
<1>2. CASE StringToCstr
  BY <1>2 DEF StringToCstr
<1>3. CASE ContentToBuffer
  BY <1>3 DEF ContentToBuffer
<1>4. CASE OpenRead
  BY <1>4 DEF OpenRead
<1>5. CASE SizeFile
  BY <1>5 DEF SizeFile
<1>6. CASE ReadChunk
  BY <1>6 DEF ReadChunk
<1>7. CASE CloseRead
  BY <1>7 DEF CloseRead
<1>8. CASE ParseJson
  BY <1>8 DEF ParseJson
<1>9. CASE Build
  BY <1>9 DEF Build
<1>10. CASE RenderJson
  BY <1>10 DEF RenderJson
<1>11. CASE OpenWrite
  BY <1>11 DEF OpenWrite
<1>12. CASE WriteChunk
  BY <1>12 DEF WriteChunk, Fclose
<1>13. CASE CloseWrite
  BY <1>13 DEF CloseWrite, Fclose
<1>14. CASE SplitPath
  BY <1>14 DEF SplitPath
<1>15. CASE JoinPaths
  BY <1>15 DEF JoinPaths
<1>16. CASE Exists
  BY <1>16 DEF Exists
<1>17. CASE StartTree
  BY <1>17 DEF StartTree
<1>18. CASE MakeDirectory
  BY <1>18 DEF MakeDirectory
<1>19. CASE OpenDir
  BY <1>19 DEF OpenDir
<1>20. CASE ReadEntry
  BY <1>20 DEF ReadEntry
<1>21. CASE OtherWrites
  BY <1>21 DEF OtherWrites
<1>22. CASE OtherMakes
  BY <1>22 DEF OtherMakes
<1>23. CASE UNCHANGED vars
  BY <1>23 DEF vars
<1> HIDE DEF Inv, StepOf, HoldsOf, Streaming, Readers, Writers, PathOps, WriterBlocks,
            Return, RaiseInside, Goto, Error, Value, SilentNil, NoResult, world, history, work
<1> QED
  BY <1>1, <1>2, <1>3, <1>4, <1>5, <1>6, <1>7, <1>8, <1>9, <1>10, <1>11, <1>12, <1>13,
     <1>14, <1>15, <1>16, <1>17, <1>18, <1>19, <1>20, <1>21, <1>22, <1>23 DEF Next

(***************************************************************************)
(* Whatever fails in a file, path or JSON builtin, its stream is closed    *)
(* and its own early returns free what it holds.                           *)
(***************************************************************************)
THEOREM AllReleased == Spec => []Released
<1>1. Inv => Released
  BY DEF Inv, HoldsOf, Released, Returned, Streaming
<1> QED
  BY <1>1, InitInv, NextInv, PTL DEF Spec

----------------------------------------------------------------------------
AllCalls == UNION {CallsOf(s) : s \in Starts}

(***************************************************************************)
(* While nobody else writes: what is in the file and in the stream's       *)
(* buffer is the part of the text that is done; what has been read is a    *)
(* beginning of the file; and until it is opened for writing, and after a  *)
(* builtin that does not write, the file is as the call found it.          *)
(***************************************************************************)
Written ==
    pc \in {"write", "close_write"} =>
      /\ text \in Seq(Byte) /\ disk \in Seq(Byte) /\ pending \in Seq(Byte)
      /\ done \in 0 .. Len(text)
      /\ disk \o pending = SubSeq(text, 1, done)
      /\ (done = Len(text)) <=> (pc = "close_write")

ReadSoFar ==
    /\ pc \in {"open_read", "size"} => text = <<>>
    /\ pc \in {"size", "read", "close_read"} => disk \in Seq(Byte)
    /\ pc = "read" => /\ done = Len(disk)
                      /\ text \in Seq(Byte)
                      /\ Len(text) < done
                      /\ text = SubSeq(disk, 1, Len(text))
    /\ pc = "close_read" => text = disk
    /\ (pc = "build" /\ call.op \in Readers) => text = disk

Whole ==
    quiet =>
      /\ script \in Seq(AllCalls)
      /\ BytesToWrite(call)
      /\ disk \in Seq(Byte) \union {NoFile}
      /\ pc \in {"name", "content", "render", "open_write"} => done = 0
      /\ pc \in {"name", "open_read"} => text = <<>>
      /\ pc = "open_write" => text \in Seq(Byte)
      /\ pc \notin {"idle", "write", "close_write"} => disk = before
      /\ Written
      /\ ReadSoFar
      /\ WholeOrError

\* The smaller of what is left and the size of a chunk: the loops of
\* read_file_dynamic and the writers always move on, and never too far.
LEMMA ChunkFits ==
    ASSUME NEW left \in Int, left > 0, NEW size \in Nat \ {0}
    PROVE  Min({left, size}) \in 1 .. left
<1>1. Min({left, size}) = IF left <= size THEN left ELSE size
  BY DEF Min
<1> QED
  BY <1>1

\* A chunk is not shorter for more being left: fread gets all it asks for.
LEMMA ChunkFull ==
    ASSUME NEW left \in Int, NEW chunk \in 1 .. left
    PROVE  Min({chunk, left}) = chunk
  BY DEF Min

\* The first call finds a file of bytes, or none.
LEMMA InitWhole == Init => Whole
<1> SUFFICES ASSUME Init PROVE Whole
  OBVIOUS
<1>1. PICK start \in Starts : script = start.script /\ disk = start.disk
  BY DEF Init
<1>2. start.script \in Seq(CallsOf(start)) /\ CallsOf(start) \subseteq AllCalls
  BY <1>1, FilesAssumption DEF AllCalls
<1>3. script \in Seq(AllCalls)
  BY <1>1, <1>2, LargerScript
<1> QED
  BY <1>1, <1>3, FilesAssumption DEF Init, Whole, Written, ReadSoFar, WholeOrError, Returned,
     NoResult, NoCall, BytesToWrite

\* The next call finds the file as it is.
LEMMA CallWhole == Inv /\ Whole /\ Call /\ quiet' => Whole'
<1> SUFFICES ASSUME Inv, Whole, Call, quiet' PROVE Whole'
  OBVIOUS
<1>q. quiet
  BY DEF Call, history
<1>1. call' \in AllCalls /\ script' \in Seq(AllCalls)
  BY <1>q, FirstOfScript DEF Call, Whole
<1>2. BytesToWrite(call')
  <2>1. PICK s \in Starts : call' \in CallsOf(s)
    BY <1>1 DEF AllCalls
  <2> QED
    BY <2>1, FilesAssumption
<1>3. pc' \in {"render", "join", "name"}
  BY DEF Call
<1>4. disk' = disk /\ before' = disk /\ done' = 0 /\ text' = <<>>
  BY DEF Call, world
<1> QED
  BY <1>q, <1>1, <1>2, <1>3, <1>4 DEF Whole, Written, ReadSoFar, WholeOrError, BytesToWrite,
       Return, Goto, Error, Value, NoResult, Returned, Readers, Writers, Inv, StepOf, world, history

\* A chunk that is read continues what has been read.
LEMMA ReadChunkWhole == Inv /\ Whole /\ ReadChunk /\ quiet' => Whole'
<1> SUFFICES ASSUME Inv, Whole, ReadChunk, quiet' PROVE Whole'
  OBVIOUS
<1>q. quiet
  BY DEF ReadChunk, history
<1> DEFINE chunk == Min({done - Len(text), ChunkSize})
           got == IF Len(disk) <= Len(text) THEN 0 ELSE Min({chunk, Len(disk) - Len(text)})
           all == text \o SubSeq(disk, Len(text) + 1, Len(text) + got)
<1>1. /\ pc = "read" /\ disk \in Seq(Byte) /\ done = Len(disk) /\ text \in Seq(Byte)
      /\ Len(text) < done /\ text = SubSeq(disk, 1, Len(text))
  BY <1>q DEF ReadChunk, Whole, ReadSoFar
<1>2. chunk \in 1 .. Len(disk) - Len(text)
  <2>1. done - Len(text) \in Int /\ done - Len(text) > 0
    BY <1>1
  <2>2. ChunkSize \in Nat \ {0}
    BY FilesAssumption
  <2> QED
    BY <1>1, <2>1, <2>2, ChunkFits
<1> HIDE DEF chunk
<1>3. got = chunk
  BY <1>1, <1>2, ChunkFull
<1> HIDE DEF got
<1>4. /\ all = SubSeq(disk, 1, Len(text) + got)
      /\ all \in Seq(Byte)
      /\ Len(all) = Len(text) + got
  BY <1>1, <1>2, <1>3, NextBytes
<1>5. Len(all) = done => all = disk
  BY <1>1, <1>4, WholeText
<1> HIDE DEF all
<1>6. CASE /\ Goto(IF got < chunk \/ Len(all) = done THEN "close_read" ELSE "read", held)
           /\ text' = all
  <2>1. pc' = IF Len(all) = done THEN "close_read" ELSE "read"
    BY <1>2, <1>3, <1>6 DEF Goto
  <2>2. Len(all) # done => Len(all) < done
    BY <1>1, <1>2, <1>3, <1>4
  <2>3. all = SubSeq(disk, 1, Len(all))
    BY <1>4
  <2> QED
    BY <1>q, <1>1, <1>4, <1>5, <1>6, <2>1, <2>2, <2>3
       DEF ReadChunk, Whole, Written, ReadSoFar, WholeOrError, BytesToWrite,
       Return, Goto, Error, Value, NoResult, Returned, Readers, Writers, Inv, StepOf, world, history
<1>7. CASE Return(Error("abort"), {"buffer", "name"}) \/ Return(Error("system"), {"buffer", "name"})
  BY <1>q, <1>1, <1>7 DEF ReadChunk, Whole, Written, ReadSoFar, WholeOrError, BytesToWrite,
       Return, Goto, Error, Value, NoResult, Returned, Readers, Writers, Inv, StepOf, world, history
<1> QED
  BY <1>6, <1>7 DEF ReadChunk, chunk, got, all

\* A file opened for writing is empty.
LEMMA OpenWriteWhole == Inv /\ Whole /\ OpenWrite /\ quiet' => Whole'
<1> SUFFICES ASSUME Inv, Whole, OpenWrite, quiet' PROVE Whole'
  OBVIOUS
<1>q. quiet
  BY DEF OpenWrite, history
<1>1. /\ pc = "open_write" /\ text \in Seq(Byte) /\ done = 0 /\ pending = <<>>
      /\ disk = before /\ call.op \in Writers
  BY <1>q DEF OpenWrite, Whole, Inv, StepOf
<1>2. CASE /\ Goto(IF text = <<>> THEN "close_write" ELSE "write", held)
           /\ disk' = <<>>
  <2>1. <<>> \o pending = SubSeq(text, 1, done)
    BY <1>1
  <2>2. /\ (done = Len(text)) <=> (pc' = "close_write")
        /\ done \in 0 .. Len(text)
    BY <1>1, <1>2 DEF Goto
  <2> QED
    BY <1>q, <1>1, <1>2, <2>1, <2>2
       DEF OpenWrite, Whole, Written, ReadSoFar, WholeOrError, BytesToWrite,
       Return, Goto, Error, Value, NoResult, Returned, Readers, Writers, Inv, StepOf, world, history
<1>3. CASE Return(Error("system"), WriterBlocks) /\ UNCHANGED disk
  BY <1>q, <1>1, <1>3 DEF OpenWrite, Whole, Written, ReadSoFar, WholeOrError, BytesToWrite,
       Return, Goto, Error, Value, NoResult, Returned, Readers, Writers, Inv, StepOf, world, history
<1> QED
  BY <1>2, <1>3 DEF OpenWrite

\* A chunk that is written continues what has been written.
LEMMA WriteChunkWhole == Inv /\ Whole /\ WriteChunk /\ quiet' => Whole'
<1> SUFFICES ASSUME Inv, Whole, WriteChunk, quiet' PROVE Whole'
  OBVIOUS
<1>q. quiet
  BY DEF WriteChunk, Fclose, history
<1> DEFINE size == Min({Len(text) - done, ChunkSize})
           chunk == SubSeq(text, done + 1, done + size)
<1>1. /\ pc = "write" /\ text \in Seq(Byte) /\ disk \in Seq(Byte) /\ pending \in Seq(Byte)
      /\ done \in 0 .. Len(text) /\ done # Len(text)
      /\ disk \o pending = SubSeq(text, 1, done) /\ call.op \in Writers
  BY <1>q DEF WriteChunk, Whole, Written, Inv, StepOf
<1>2. size \in 1 .. Len(text) - done
  <2>1. Len(text) - done \in Int /\ Len(text) - done > 0
    BY <1>1
  <2>2. ChunkSize \in Nat \ {0}
    BY FilesAssumption
  <2> QED
    BY <1>1, <2>1, <2>2, ChunkFits
<1> HIDE DEF size
<1>3. ASSUME NEW n \in 0 .. size
      PROVE  /\ disk \o pending \o SubSeq(text, done + 1, done + n) = SubSeq(text, 1, done + n)
             /\ disk \o (pending \o SubSeq(text, done + 1, done + n)) = SubSeq(text, 1, done + n)
             /\ pending \o SubSeq(text, done + 1, done + n) \in Seq(Byte)
             /\ SubSeq(text, 1, done + n) \in Seq(Byte)
             /\ IsPrefix(SubSeq(text, 1, done + n), text)
  <2> DEFINE part == SubSeq(text, done + 1, done + n)
  <2>1. done \in 0 .. Len(text) /\ done + n \in done .. Len(text)
    BY <1>1, <1>2
  <2>2. /\ SubSeq(text, 1, done) \o part = SubSeq(text, 1, done + n)
        /\ part \in Seq(Byte)
        /\ SubSeq(text, 1, done + n) \in Seq(Byte)
        /\ IsPrefix(SubSeq(text, 1, done + n), text)
    BY <1>1, <2>1, NextBytes DEF IsPrefix
  <2> HIDE DEF part
  <2>3. disk \in Seq(Byte) /\ pending \in Seq(Byte) /\ part \in Seq(Byte)
    BY <1>1, <2>2
  <2>4. /\ (disk \o pending) \o part = disk \o (pending \o part)
        /\ pending \o part \in Seq(Byte)
    BY <2>3, ThreeParts
  <2> QED
    BY <1>1, <2>2, <2>4 DEF part
<1>4. CASE /\ Goto(IF done + size = Len(text) THEN "close_write" ELSE "write", held)
           /\ done' = done + size
           /\ \/ disk' = disk \o pending \o chunk /\ pending' = <<>>
              \/ pending' = pending \o chunk /\ UNCHANGED disk
  <2>1. /\ disk' \o pending' = SubSeq(text, 1, done')
        /\ disk' \in Seq(Byte) /\ pending' \in Seq(Byte)
    <3>1. size \in 0 .. size
      BY <1>2
    <3>2. CASE disk' = disk \o pending \o chunk /\ pending' = <<>>
      <4>1. disk' = SubSeq(text, 1, done') /\ disk' \in Seq(Byte)
        BY <1>3, <1>4, <3>1, <3>2
      <4> QED
        BY <3>2, <4>1, WholeText
    <3>3. CASE pending' = pending \o chunk /\ UNCHANGED disk
      BY <1>1, <1>3, <1>4, <3>1, <3>3
    <3> QED
      BY <1>4, <3>2, <3>3
  <2>2. /\ (done' = Len(text)) <=> (pc' = "close_write")
        /\ done' \in 0 .. Len(text)
    BY <1>1, <1>2, <1>4 DEF Goto
  <2> QED
    BY <1>q, <1>1, <1>4, <2>1, <2>2
       DEF WriteChunk, Whole, Written, ReadSoFar, WholeOrError, BytesToWrite,
       Return, Goto, Error, Value, NoResult, Returned, Readers, Writers, Inv, StepOf, world, history
<1>5. ASSUME NEW n \in 0 .. size, NEW why \in {"abort", "system"},
             Return(Error(why), WriterBlocks), disk' = SubSeq(text, 1, done + n)
      PROVE  Whole'
  <2>1. disk' # NoFile /\ IsPrefix(disk', text') /\ disk' \in Seq(Byte)
    BY <1>3, <1>5, FilesAssumption DEF WriteChunk
  <2> QED
    BY <1>q, <1>1, <1>5, <2>1
       DEF WriteChunk, Whole, Written, ReadSoFar, WholeOrError, BytesToWrite,
       Return, Goto, Error, Value, NoResult, Returned, Readers, Writers, Inv, StepOf, world, history
<1>6. CASE Return(Error("abort"), WriterBlocks) /\ Fclose(pending)
  <2>1. disk' = SubSeq(text, 1, done + 0)
    BY <1>1, <1>6 DEF Fclose
  <2>2. 0 \in 0 .. size
    BY <1>2
  <2> QED
    BY <1>5, <1>6, <2>1, <2>2
<1>7. ASSUME NEW n \in 0 .. size - 1, Return(Error("system"), WriterBlocks),
             Fclose(pending \o SubSeq(text, done + 1, done + n))
      PROVE  Whole'
  <2>1. n \in 0 .. size
    BY <1>2
  <2>2. disk' = SubSeq(text, 1, done + n)
    BY <1>3, <1>7, <2>1 DEF Fclose
  <2> QED
    BY <1>5, <1>7, <2>1, <2>2
<1> QED
  BY <1>4, <1>6, <1>7 DEF WriteChunk, size

\* The whole text is in the file once it is closed.
LEMMA CloseWriteWhole == Inv /\ Whole /\ CloseWrite /\ quiet' => Whole'
<1> SUFFICES ASSUME Inv, Whole, CloseWrite, quiet' PROVE Whole'
  OBVIOUS
<1>q. quiet
  BY DEF CloseWrite, Fclose, history
<1>1. /\ pc = "close_write" /\ text \in Seq(Byte) /\ done = Len(text)
      /\ disk \o pending = SubSeq(text, 1, done) /\ call.op \in Writers
  BY <1>q DEF CloseWrite, Whole, Written, Inv, StepOf
<1>2. disk' = text
  BY <1>q, <1>1, WholeText DEF CloseWrite, Fclose
<1> QED
  BY <1>q, <1>1, <1>2
     DEF CloseWrite, Whole, Written, ReadSoFar, WholeOrError, BytesToWrite,
       Return, Goto, Error, Value, NoResult, Returned, Readers, Writers, Inv, StepOf, world, history

\* Every step keeps the file whole while nobody else writes to it.
LEMMA NextWhole == Inv /\ Whole /\ [Next]_vars => Whole'
<1> SUFFICES ASSUME Inv, Whole, [Next]_vars, quiet' PROVE Whole'
  BY DEF Whole
<1> USE DEF Inv, StepOf, Readers, Writers, PathOps, Returned,
            Return, RaiseInside, Goto, Error, Value, SilentNil, NoResult, world, history, work
<1>1. CASE Call
  BY <1>1, CallWhole
<1>2. CASE StringToCstr
  BY <1>2 DEF StringToCstr, Whole, Written, ReadSoFar, WholeOrError, BytesToWrite
<1>3. CASE ContentToBuffer
  BY <1>3 DEF ContentToBuffer, Whole, Written, ReadSoFar, WholeOrError, BytesToWrite
<1>4. CASE OpenRead
  BY <1>4 DEF OpenRead, Whole, Written, ReadSoFar, WholeOrError, BytesToWrite
<1>5. CASE SizeFile
  BY <1>5 DEF SizeFile, Whole, Written, ReadSoFar, WholeOrError, BytesToWrite
<1>6. CASE ReadChunk
  BY <1>6, ReadChunkWhole
<1>7. CASE CloseRead
  BY <1>7 DEF CloseRead, Whole, Written, ReadSoFar, WholeOrError, BytesToWrite
<1>8. CASE ParseJson
  BY <1>8 DEF ParseJson, Whole, Written, ReadSoFar, WholeOrError, BytesToWrite
<1>9. CASE Build
  BY <1>9 DEF Build, Whole, Written, ReadSoFar, WholeOrError, BytesToWrite
<1>10. CASE RenderJson
  BY <1>10 DEF RenderJson, Whole, Written, ReadSoFar, WholeOrError, BytesToWrite
<1>11. CASE OpenWrite
  BY <1>11, OpenWriteWhole
<1>12. CASE WriteChunk
  BY <1>12, WriteChunkWhole
<1>13. CASE CloseWrite
  BY <1>13, CloseWriteWhole
<1>14. CASE SplitPath
  BY <1>14 DEF SplitPath, Whole, Written, ReadSoFar, WholeOrError, BytesToWrite
<1>15. CASE JoinPaths
  BY <1>15 DEF JoinPaths, Whole, Written, ReadSoFar, WholeOrError, BytesToWrite
<1>16. CASE Exists
  BY <1>16 DEF Exists, Whole, Written, ReadSoFar, WholeOrError, BytesToWrite
<1>17. CASE StartTree
  BY <1>17 DEF StartTree, Whole, Written, ReadSoFar, WholeOrError, BytesToWrite
<1>18. CASE MakeDirectory
  BY <1>18 DEF MakeDirectory, Whole, Written, ReadSoFar, WholeOrError, BytesToWrite
<1>19. CASE OpenDir
  BY <1>19 DEF OpenDir, Whole, Written, ReadSoFar, WholeOrError, BytesToWrite
<1>20. CASE ReadEntry
  BY <1>20 DEF ReadEntry, Whole, Written, ReadSoFar, WholeOrError, BytesToWrite
<1>21. CASE OtherWrites
  BY <1>21 DEF OtherWrites
<1>22. CASE OtherMakes
  BY <1>22 DEF OtherMakes, Whole, Written, ReadSoFar, WholeOrError, BytesToWrite
<1>23. CASE UNCHANGED vars
  BY <1>23 DEF vars, Whole, Written, ReadSoFar, WholeOrError, BytesToWrite
<1> HIDE DEF Inv, StepOf, Readers, Writers, PathOps, Returned,
            Return, RaiseInside, Goto, Error, Value, SilentNil, NoResult, world, history, work
<1> QED
  BY <1>1, <1>2, <1>3, <1>4, <1>5, <1>6, <1>7, <1>8, <1>9, <1>10, <1>11, <1>12, <1>13,
     <1>14, <1>15, <1>16, <1>17, <1>18, <1>19, <1>20, <1>21, <1>22, <1>23 DEF Next

(***************************************************************************)
(* A file is written whole or the failure reported, and read whole, for    *)
(* every content and every size of the chunks.                             *)
(***************************************************************************)
THEOREM AllWhole == Spec => []WholeOrError
<1>1. Inv /\ Whole => WholeOrError
  BY DEF Whole, WholeOrError
<1> QED
  BY <1>1, InitInv, NextInv, InitWhole, NextWhole, PTL DEF Spec
=============================================================================
