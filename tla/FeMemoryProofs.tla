--------------------------- MODULE FeMemoryProofs ---------------------------
(***************************************************************************)
(* The types of FeMemory, with the use of memory between the arena and the *)
(* peak, and the memory limit, for every limit and every size of block.    *)
(*                                                                         *)
(* TypeOK is not inductive: a request may use blocks that earlier requests *)
(* of its program must have obtained.  Shape says how far each program is  *)
(* and how many blocks the operation then holds.                           *)
(***************************************************************************)
EXTENDS FeMemory, SequenceTheorems, TLAPS

\* The state of the allocator has its type.
AcctOK ==
  /\ limit \in Nat /\ peak \in Nat /\ used \in Base .. peak
  /\ size \in [Block -> Nat]
  /\ live \subseteq Block
  /\ active \in BOOLEAN /\ isLimit \in BOOLEAN

\* A program that only allocates.
Plain(s) == \A i \in 1 .. Len(s) : s[i] \in [do : {"must", "try"}, kind : Kinds]

File2 == Tail(FileProgram)
File3 == Tail(File2)
File4 == Tail(File3)
File5 == Tail(File4)
File6 == Tail(File5)

\* Where the prologue of a file is.
FileAt ==
  \/ todo \in {<<>>, FileProgram, File2, File5}
  \/ todo \in {File3, File4, File6} /\ got # <<>>

Shape ==
  /\ op \in {"idle", "closed"} => todo = <<>>
  /\ op \in {"map", "resize", "span"} => Plain(todo)
  /\ op \in {"map", "resize"} /\ causes = {} => Len(got) + Len(todo) = 4
  /\ op = "span" /\ causes = {} => Len(got) + Len(todo) >= 2
  /\ op = "file" => FileAt
  /\ op = "resize" => old # <<>>
  /\ <<>> \notin maps

IInv == TypeOK /\ Shape

-----------------------------------------------------------------------------
\* The block that malloc returns is one.
LEMMA FreshBlock ==
  ASSUME live \subseteq Block, live # Block
  PROVE  Fresh \in Block /\ Fresh \notin live
BY DEF Fresh

\* A successful tracked_alloc.
LEMMA AllocatesOK ==
  ASSUME AcctOK, NEW n \in Nat, Allocates(n)
  PROVE  AcctOK' /\ Fresh \in Block /\ (limit = 0 \/ used' <= limit) /\ limit' = limit
<1>1. Fresh \in Block
  BY FreshBlock DEF AcctOK, Allocates
<1>2. size' \in [Block -> Nat] /\ live' \subseteq Block /\ limit' = limit
  BY <1>1 DEF AcctOK, Allocates
<1>3. /\ used' \in Base .. peak' /\ peak' \in Nat
      /\ limit = 0 \/ used' <= limit
  BY SizesAssumption DEF AcctOK, Allocates, NoteAlloc, Exceeds
<1>4. active' \in BOOLEAN /\ isLimit' \in BOOLEAN
  BY DEF Allocates, NoteAlloc
<1>. QED  BY <1>1, <1>2, <1>3, <1>4 DEF AcctOK

\* A failed tracked_alloc or tracked_realloc.
LEMMA RefusesOK ==
  ASSUME AcctOK, NEW n \in Nat, Refuses(n)
  PROVE  AcctOK' /\ used' = used /\ Cause(n) \in Causes
<1>1. isLimit' \in BOOLEAN /\ active' \in BOOLEAN
  BY DEF Refuses, Exceeds
<1>. QED  BY <1>1 DEF AcctOK, Refuses, Cause, Causes

\* A head that allocates has a kind, and its size is a number.
LEMMA HeadKind ==
  ASSUME TypeOK, Requests({"must", "try", "may", "read"})
  PROVE  /\ todo \in Seq(Request) /\ todo # <<>>
         /\ Head(todo).kind \in Kinds /\ Sizes[Head(todo).kind] \in Nat
<1>1. Head(todo) \in Request /\ todo # <<>> /\ todo \in Seq(Request)
  BY DEF TypeOK, Requests
<1>2. Head(todo).do \in {"must", "try", "may", "read"}
  BY DEF Requests
<1>3. Head(todo).kind \in Kinds
  BY <1>1, <1>2 DEF Request
<1>. QED  BY <1>1, <1>3, SizesAssumption

\* A head that pushes names an array.
LEMMA HeadArray ==
  ASSUME TypeOK, Requests({"push"})
  PROVE  todo \in Seq(Request) /\ todo # <<>> /\ Head(todo).to \in Arrays
<1>1. Head(todo) \in Request /\ todo # <<>> /\ todo \in Seq(Request)
  BY DEF TypeOK, Requests
<1>2. Head(todo).do = "push"
  BY DEF Requests
<1>. QED  BY <1>1, <1>2 DEF Request

\* The programs are sequences of requests.
LEMMA Programs ==
  /\ MapProgram \in Seq(Request) /\ SpanProgram \in Seq(Request)
  /\ NamedSpanProgram \in Seq(Request) /\ FileProgram \in Seq(Request)
  /\ Plain(MapProgram) /\ Plain(SpanProgram) /\ Plain(NamedSpanProgram)
  /\ Len(MapProgram) = 4 /\ Len(SpanProgram) = 2 /\ Len(NamedSpanProgram) = 4
<1>1. \A k \in {"map", "slots", "states", "excerpt", "span", "text", "name"} :
        /\ Must(k) \in [do : {"must", "try"}, kind : Kinds]
        /\ Try(k) \in [do : {"must", "try"}, kind : Kinds]
  BY DEF Must, Try, Kinds
<1>2. [do : {"must", "try"}, kind : Kinds] \subseteq Request
  BY DEF Request
<1>3. MapProgram \in Seq(Request) /\ Len(MapProgram) = 4 /\ Plain(MapProgram)
  BY <1>1, <1>2 DEF MapProgram, Plain
<1>4. SpanProgram \in Seq(Request) /\ Len(SpanProgram) = 2 /\ Plain(SpanProgram)
  BY <1>1, <1>2 DEF SpanProgram, Plain
<1>6. /\ NamedSpanProgram \in Seq(Request) /\ Len(NamedSpanProgram) = 4
      /\ Plain(NamedSpanProgram)
  BY <1>1, <1>2 DEF NamedSpanProgram, Plain
<1>7. FileProgram \in Seq(Request)
  <2>1. /\ May("path") \in Request /\ Must("path") \in Request
        /\ [do |-> "free"] \in Request
        /\ [do |-> "push", to |-> "dirs"] \in Request
        /\ [do |-> "read", kind |-> "source"] \in Request
        /\ [do |-> "push", to |-> "buffers"] \in Request
    BY DEF Request, May, Must, Kinds, Arrays
  <2>. QED  BY <2>1 DEF FileProgram
<1>. QED  BY <1>3, <1>4, <1>6, <1>7

\* The order of the requests of a file.
LEMMA FileOrder ==
  /\ Head(FileProgram).do = "may" /\ Head(File2).do = "must"
  /\ Head(File3).do = "free" /\ Head(File4).do = "push"
  /\ Head(File5).do = "read" /\ Head(File6).do = "push"
  /\ Tail(File6) = <<>>
BY DEF FileProgram, File2, File3, File4, File5, File6, May, Must

\* The rest of a plain program is plain.
LEMMA PlainTail ==
  ASSUME NEW s \in Seq(Request), s # <<>>, Plain(s)
  PROVE  /\ Plain(Tail(s)) /\ Tail(s) \in Seq(Request)
         /\ Len(Tail(s)) = Len(s) - 1 /\ Len(s) \in Nat
         /\ Head(s).do \in {"must", "try"}
<1>1. /\ Tail(s) \in Seq(Request) /\ Len(Tail(s)) = Len(s) - 1
      /\ Len(s) \in Nat \ {0}
      /\ \A i \in 1 .. Len(s) - 1 : Tail(s)[i] = s[i + 1]
  OBVIOUS
<1>2. \A i \in 1 .. Len(s) - 1 : i + 1 \in 1 .. Len(s)
  BY <1>1
<1>3. Head(s) = s[1] /\ 1 \in 1 .. Len(s)
  BY <1>1
<1>. QED  BY <1>1, <1>2, <1>3 DEF Plain

\* Initially the context is idle.
LEMMA InitInv == Init => IInv
<1>. SUFFICES ASSUME Init PROVE IInv
  OBVIOUS
<1>1. TypeOK
  <2>1. limit \in Nat /\ peak \in Nat /\ used \in Base .. peak /\ size \in [Block -> Nat]
    BY SizesAssumption DEF Init
  <2>2. todo \in Seq(Request) /\ got \in Seq(Block) /\ old \in Seq(Block)
    BY DEF Init
  <2>3. array \in [Arrays -> Seq(Block)] /\ items \in [Arrays -> Seq(Block)]
    BY DEF Init
  <2>4. op \in Ops /\ report \in Report
    BY DEF Init, Ops, Report, Nothing, Errors, Causes
  <2>5. maps \in SUBSET Seq(Block) /\ spans \in SUBSET Seq(Block)
    BY DEF Init
  <2>. QED  BY <2>1, <2>2, <2>3, <2>4, <2>5 DEF Init, TypeOK
<1>2. Shape
  BY DEF Init, Shape
<1>. QED  BY <1>1, <1>2 DEF IInv

\* An operation begins.
LEMMA BeginInv ==
  ASSUME IInv, NEW o, NEW p, NEW b \in Seq(Block), Begin(o, p, b),
         \/ o \in {"map", "resize"} /\ p = MapProgram
         \/ o = "span" /\ p \in {SpanProgram, NamedSpanProgram}
         \/ o = "file" /\ p = FileProgram,
         o = "resize" => b # <<>>
  PROVE  IInv'
<1>1. /\ op' = o /\ todo' = p /\ old' = b /\ got' = <<>> /\ causes' = {}
      /\ UNCHANGED <<acct, drop, held, report>>
  BY DEF Begin
<1>2. p \in Seq(Request) /\ o \in Ops
  BY Programs DEF Ops
<1>3. TypeOK'
  BY <1>1, <1>2 DEF IInv, TypeOK, acct, flags, held
<1>4. <<>> \notin maps'
  BY <1>1 DEF IInv, Shape, held
<1>5. Len(got') = 0
  BY <1>1
<1>6. Shape'
  <2>0. Len(MapProgram) = 4 /\ Len(SpanProgram) = 2 /\ Len(NamedSpanProgram) = 4
    BY Programs
  <2>1. CASE o \in {"map", "resize"}
    BY <1>1, <1>4, <1>5, <2>0, <2>1, Programs DEF Shape
  <2>2. CASE o = "span"
    <3>0. p = SpanProgram \/ p = NamedSpanProgram
      BY <2>2
    <3>1. Plain(p) /\ (Len(p) = 2 \/ Len(p) = 4)
      BY <2>0, <3>0, Programs, Zenon
    <3>2. Plain(todo') /\ Len(got') + Len(todo') >= 2
      BY <1>1, <1>5, <3>1
    <3>. QED  BY <1>1, <1>4, <2>2, <3>2 DEF Shape
  <2>3. CASE o = "file"
    <3>1. FileAt'
      BY <1>1, <2>3 DEF FileAt
    <3>. QED  BY <1>1, <1>4, <2>3, <3>1 DEF Shape
  <2>. QED  BY <2>1, <2>2, <2>3
<1>. QED  BY <1>3, <1>6 DEF IInv

\* Each operation that can begin.
LEMMA BeginsInv == IInv /\ (MapNew \/ MapResize \/ SpanRecord \/ DoFile) => IInv'
<1>. SUFFICES ASSUME IInv, MapNew \/ MapResize \/ SpanRecord \/ DoFile PROVE IInv'
  OBVIOUS
<1>0. <<>> \in Seq(Block)
  OBVIOUS
<1>1. CASE MapNew
  BY <1>0, <1>1, BeginInv DEF MapNew
<1>2. CASE MapResize
  <2>1. PICK m \in maps : Begin("resize", MapProgram, m)
    BY <1>2 DEF MapResize
  <2>2. m \in Seq(Block) /\ m # <<>>
    BY DEF IInv, TypeOK, Shape
  <2>. QED  BY <2>1, <2>2, BeginInv
<1>3. CASE SpanRecord
  BY <1>0, <1>3, BeginInv DEF SpanRecord
<1>4. CASE DoFile
  BY <1>0, <1>4, BeginInv DEF DoFile
<1>. QED  BY <1>1, <1>2, <1>3, <1>4
-----------------------------------------------------------------------------
\* A request keeps the invariant when the program goes on as Shape says.
LEMMA JobStep ==
  ASSUME IInv, AcctOK', op \notin {"idle", "closed"},
         UNCHANGED <<op, old, drop, maps, spans, names, lost, report>>,
         array' \in [Arrays -> Seq(Block)], items' \in [Arrays -> Seq(Block)],
         got' \in Seq(Block), todo' \in Seq(Request), causes' \subseteq Causes,
         op # "file" =>
           /\ Plain(todo')
           /\ causes' = {} =>
                /\ causes = {}
                /\ Len(got') + Len(todo') = Len(got) + Len(todo),
         op = "file" => FileAt'
  PROVE  IInv'
<1>1. TypeOK'
  BY DEF IInv, TypeOK, AcctOK
<1>2. Shape'
  BY DEF IInv, Shape
<1>. QED  BY <1>1, <1>2 DEF IInv

\* An operation that has requests to make.
LEMMA Underway ==
  ASSUME IInv, todo # <<>>
  PROVE  /\ op \notin {"idle", "closed"} /\ TypeOK
         /\ op # "file" => Plain(todo)
         /\ op = "file" => FileAt
BY DEF IInv, Shape, TypeOK, Ops

\* A request is granted.
LEMMA TakeInv == IInv /\ Take => IInv'
<1>. SUFFICES ASSUME IInv, Take PROVE IInv'
  OBVIOUS
<1>. DEFINE n == Sizes[Head(todo).kind]
<1>1. /\ Requests({"must", "try", "may", "read"}) /\ Allocates(n)
      /\ got' = Append(got, Fresh) /\ todo' = Tail(todo)
      /\ UNCHANGED <<op, causes, old, drop, held, report>>
  BY DEF Take
<1>2. TypeOK /\ AcctOK
  BY DEF IInv, TypeOK, AcctOK
<1>3. todo \in Seq(Request) /\ todo # <<>> /\ n \in Nat
  BY <1>1, <1>2, HeadKind
<1>4. AcctOK' /\ Fresh \in Block
  BY <1>1, <1>2, <1>3, AllocatesOK
<1>5. /\ got' \in Seq(Block) /\ got' # <<>> /\ Len(got') = Len(got) + 1
      /\ Len(got) \in Nat
  <2>1. got \in Seq(Block)
    BY <1>2 DEF TypeOK
  <2>. QED  BY <1>1, <1>4, <2>1
<1>6. todo' \in Seq(Request)
  BY <1>1, <1>3
<1>7. ASSUME op # "file"
      PROVE  Plain(todo') /\ Len(got') + Len(todo') = Len(got) + Len(todo)
  <2>1. Plain(todo)
    BY <1>3, <1>7, Underway
  <2>2. Plain(todo') /\ Len(todo') = Len(todo) - 1 /\ Len(todo) \in Nat
    BY <1>1, <1>3, <2>1, PlainTail
  <2>3. Len(got') = Len(got) + 1 /\ Len(got) \in Nat
    BY <1>5
  <2>. QED  BY <2>2, <2>3
<1>8. ASSUME op = "file"
      PROVE  FileAt'
  <2>1. FileAt /\ Head(todo).do \in {"must", "try", "may", "read"}
    BY <1>1, <1>3, <1>8, Underway DEF Requests
  <2>2. todo \in {FileProgram, File2, File5}
    BY <1>3, <2>1, FileOrder DEF FileAt
  <2>3. todo' \in {File2, File3, File6}
    BY <1>1, <2>2 DEF File2, File3, File6
  <2>. QED  BY <1>5, <2>3 DEF FileAt
<1>9. op \notin {"idle", "closed"}
  BY <1>3, Underway
<1>. QED  BY <1>1, <1>2, <1>4, <1>5, <1>6, <1>7, <1>8, <1>9, JobStep DEF TypeOK, held

\* A request is refused.
LEMMA RefuseInv == IInv /\ Refuse => IInv'
<1>. SUFFICES ASSUME IInv, Refuse PROVE IInv'
  OBVIOUS
<1>. DEFINE n == Sizes[Head(todo).kind]
            d == Head(todo).do
<1>1. /\ Requests({"must", "try", "may", "read"}) /\ Refuses(n)
      /\ causes' = IF d = "may" THEN causes ELSE causes \cup {Cause(n)}
      /\ todo' = IF d \in {"may", "try"} THEN Tail(todo) ELSE <<>>
      /\ UNCHANGED <<op, got, old, drop, held, report>>
  BY DEF Refuse
<1>2. TypeOK /\ AcctOK
  BY DEF IInv, TypeOK, AcctOK
<1>3. todo \in Seq(Request) /\ todo # <<>> /\ n \in Nat
  BY <1>1, <1>2, HeadKind
<1>4. AcctOK' /\ Cause(n) \in Causes
  BY <1>1, <1>2, <1>3, RefusesOK
<1>5. todo' \in Seq(Request) /\ causes' \subseteq Causes
  BY <1>1, <1>2, <1>3, <1>4 DEF TypeOK
<1>7. ASSUME op # "file"
      PROVE  Plain(todo') /\ causes' # {}
  <2>1. Plain(todo)
    BY <1>3, <1>7, Underway
  <2>2. Plain(Tail(todo)) /\ d \in {"must", "try"}
    BY <1>3, <2>1, PlainTail
  <2>3. Plain(<<>>)
    BY DEF Plain
  <2>. QED  BY <1>1, <2>2, <2>3
<1>8. ASSUME op = "file"
      PROVE  FileAt'
  <2>1. FileAt /\ d \in {"must", "try", "may", "read"}
    BY <1>1, <1>3, <1>8, Underway DEF Requests
  <2>2. (todo = FileProgram /\ d = "may") \/ d \in {"must", "read"}
    BY <1>3, <2>1, FileOrder DEF FileAt
  <2>3. todo' \in {File2, <<>>}
    BY <1>1, <2>2 DEF File2
  <2>. QED  BY <2>3 DEF FileAt
<1>9. op \notin {"idle", "closed"}
  BY <1>3, Underway
<1>. QED  BY <1>1, <1>2, <1>4, <1>5, <1>7, <1>8, <1>9, JobStep DEF TypeOK, held

\* Only a file reads, frees and pushes.
LEMMA OnlyFile ==
  ASSUME IInv, NEW K, Requests(K), "must" \notin K, "try" \notin K
  PROVE  op = "file" /\ FileAt /\ todo \in Seq(Request) /\ todo # <<>>
<1>1. todo \in Seq(Request) /\ todo # <<>> /\ Head(todo).do \in K
  BY DEF IInv, TypeOK, Requests
<1>2. op = "file"
  BY <1>1, Underway, PlainTail
<1>. QED  BY <1>1, <1>2, Underway

\* The file cannot be read.
LEMMA ReadFailsInv == IInv /\ ReadFails => IInv'
<1>. SUFFICES ASSUME IInv, ReadFails PROVE IInv'
  OBVIOUS
<1>. DEFINE n == Sizes[Head(todo).kind]
<1>1. /\ Requests({"read"}) /\ todo' = <<>> /\ causes' = {"io"}
      /\ UNCHANGED <<op, old, drop, held, report>>
      /\ \/ UNCHANGED <<acct, got>>
         \/ Allocates(n) /\ got' = Append(got, Fresh)
  BY DEF ReadFails
<1>2. TypeOK /\ AcctOK
  BY DEF IInv, TypeOK, AcctOK
<1>3. op = "file"
  BY <1>1, OnlyFile
<1>4. n \in Nat
  BY <1>1, <1>2, HeadKind DEF Requests
<1>5. got \in Seq(Block)
  BY <1>2 DEF TypeOK
<1>6. AcctOK' /\ got' \in Seq(Block)
  <2>1. CASE UNCHANGED <<acct, got>>
    BY <1>2, <1>5, <2>1 DEF AcctOK, acct, flags
  <2>2. CASE Allocates(n) /\ got' = Append(got, Fresh)
    <3>1. AcctOK' /\ Fresh \in Block
      BY <1>2, <1>4, <2>2, AllocatesOK
    <3>. QED  BY <1>5, <2>2, <3>1
  <2>. QED  BY <1>1, <2>1, <2>2
<1>7. FileAt' /\ causes' \subseteq Causes /\ todo' \in Seq(Request)
  BY <1>1 DEF FileAt, Causes
<1>. QED  BY <1>1, <1>2, <1>3, <1>6, <1>7, JobStep DEF TypeOK, held

\* The normalized path is freed.
LEMMA FreeFirstInv == IInv /\ FreeFirst => IInv'
<1>. SUFFICES ASSUME IInv, FreeFirst PROVE IInv'
  OBVIOUS
<1>1. /\ Requests({"free"}) /\ todo' = Tail(todo)
      /\ drop' = IF Len(got) = 2 THEN {got[1]} ELSE {}
      /\ got' = SubSeq(got, Len(got), Len(got))
      /\ UNCHANGED <<acct, op, causes, old, held, report>>
  BY DEF FreeFirst
<1>2. op = "file" /\ FileAt /\ todo \in Seq(Request) /\ todo # <<>>
  BY <1>1, OnlyFile
<1>3. todo = File3 /\ got # <<>>
  BY <1>1, <1>2, FileOrder DEF FileAt, Requests
<1>4. todo' = File4 /\ todo' \in Seq(Request)
  BY <1>1, <1>2, <1>3 DEF File4
<1>5. got \in Seq(Block)
  BY DEF IInv, TypeOK
<1>6. drop' \subseteq Block
  BY <1>1, <1>5
<1>7. got' \in Seq(Block) /\ got' # <<>>
  <2>1. Len(got) \in Nat \ {0} /\ got[Len(got)] \in Block
    BY <1>3, <1>5
  <2>2. \A i \in Len(got) .. Len(got) : got[i] \in Block
    BY <2>1
  <2>3. Len(got) \in Int /\ Len(got) <= Len(got) /\ Len(got) - Len(got) + 1 = 1
    BY <2>1
  <2>4. /\ SubSeq(got, Len(got), Len(got)) \in Seq(Block)
        /\ Len(SubSeq(got, Len(got), Len(got))) =
             IF Len(got) <= Len(got) THEN Len(got) - Len(got) + 1 ELSE 0
    BY <2>2, <2>3, SubSeqProperties
  <2>5. got' \in Seq(Block) /\ Len(got') = 1
    BY <1>1, <2>3, <2>4, Zenon
  <2>. QED  BY <2>5
<1>8. FileAt'
  BY <1>4, <1>7 DEF FileAt
<1>9. TypeOK'
  BY <1>1, <1>4, <1>6, <1>7 DEF IInv, TypeOK, acct, flags, held
<1>10. Shape'
  BY <1>1, <1>2, <1>8 DEF IInv, Shape, held
<1>. QED  BY <1>9, <1>10 DEF IInv

\* The last block is pushed onto an array.
LEMMA PushItemInv == IInv /\ PushItem => IInv'
<1>. SUFFICES ASSUME IInv, PushItem PROVE IInv'
  OBVIOUS
<1>. DEFINE a == Head(todo).to
<1>1. /\ Requests({"push"}) /\ todo' = Tail(todo)
      /\ items' = [items EXCEPT ![a] = Append(@, got[Len(got)])]
      /\ got' = SubSeq(got, 1, Len(got) - 1)
      /\ UNCHANGED <<acct, op, causes, old, drop, maps, spans, names, array, lost, report>>
  BY DEF PushItem
<1>2. op = "file" /\ FileAt /\ todo \in Seq(Request) /\ todo # <<>>
  BY <1>1, OnlyFile
<1>3. todo \in {File4, File6} /\ got # <<>>
  BY <1>1, <1>2, FileOrder DEF FileAt, Requests
<1>4. todo' \in {File5, <<>>} /\ todo' \in Seq(Request)
  BY <1>1, <1>2, <1>3, FileOrder DEF File5
<1>5. got \in Seq(Block) /\ items \in [Arrays -> Seq(Block)] /\ a \in Arrays
  BY <1>1, HeadArray DEF IInv, TypeOK
<1>6. got[Len(got)] \in Block
  BY <1>3, <1>5
<1>7. got' \in Seq(Block)
  <2>1. \A i \in 1 .. Len(got) - 1 : got[i] \in Block
    BY <1>5
  <2>2. Len(got) - 1 \in Int
    BY <1>5
  <2>. QED  BY <1>1, <2>1, <2>2, SubSeqProperties
<1>8. items' \in [Arrays -> Seq(Block)]
  BY <1>1, <1>5, <1>6
<1>9. AcctOK'
  BY <1>1 DEF IInv, TypeOK, AcctOK, acct, flags
<1>10. FileAt'
  BY <1>4 DEF FileAt
<1>11. array' \in [Arrays -> Seq(Block)] /\ causes' \subseteq Causes
  BY <1>1 DEF IInv, TypeOK
<1>. QED  BY <1>1, <1>2, <1>4, <1>7, <1>8, <1>9, <1>10, <1>11, JobStep

\* The growth of an array is a number of bytes.
LEMMA GrowthNat ==
  ASSUME TypeOK, NEW a \in Arrays
  PROVE  /\ Growth(a) \in Nat
         /\ array[a] # <<>> => array[a][1] \in Block /\ size[array[a][1]] \in Nat
<1>1. array[a] # <<>> => array[a][1] \in Block /\ size[array[a][1]] \in Nat
  BY DEF TypeOK
<1>2. Capacity(a) \in Nat
  BY <1>1 DEF Capacity
<1>. QED  BY <1>1, <1>2, SizesAssumption DEF Growth

\* The allocator after an array was allocated or has grown.
LEMMA GrowOK ==
  ASSUME TypeOK, PushGrows
  PROVE  /\ AcctOK' /\ array' \in [Arrays -> Seq(Block)]
         /\ limit' = limit /\ (limit = 0 \/ used' <= limit)
<1>. DEFINE a == Head(todo).to
            g == Growth(a)
            c == array[a][1]
<1>1. a \in Arrays /\ AcctOK /\ array \in [Arrays -> Seq(Block)]
  BY HeadArray DEF PushGrows, TypeOK, AcctOK
<1>2. g \in Nat /\ (array[a] # <<>> => c \in Block /\ size[c] \in Nat)
  BY <1>1, GrowthNat
<1>3. CASE Allocates(FirstItems) /\ array' = [array EXCEPT ![a] = <<Fresh>>]
  <2>1. FirstItems \in Nat
    BY SizesAssumption
  <2>2. AcctOK' /\ Fresh \in Block /\ (limit = 0 \/ used' <= limit) /\ limit' = limit
    BY <1>1, <1>3, <2>1, AllocatesOK
  <2>3. <<Fresh>> \in Seq(Block)
    BY <2>2
  <2>. QED  BY <1>1, <1>3, <2>2, <2>3
<1>4. CASE /\ array[a] # <<>> /\ ~Exceeds(g) /\ NoteAlloc(g)
           /\ size' = [size EXCEPT ![c] = @ + g]
           /\ UNCHANGED <<limit, live, array>>
  <2>. HIDE DEF g, c
  <2>1. size' \in [Block -> Nat]
    <3>1. size[c] + g \in Nat /\ size \in [Block -> Nat]
      BY <1>1, <1>2, <1>4 DEF AcctOK
    <3>. QED  BY <1>4, <3>1
  <2>2. /\ used' \in Base .. peak' /\ peak' \in Nat
        /\ limit = 0 \/ used' <= limit
    BY <1>1, <1>2, <1>4, SizesAssumption DEF AcctOK, NoteAlloc, Exceeds
  <2>3. active' \in BOOLEAN /\ isLimit' \in BOOLEAN
    BY <1>4 DEF NoteAlloc
  <2>. QED  BY <1>1, <1>4, <2>1, <2>2, <2>3 DEF AcctOK
<1>. QED  BY <1>3, <1>4 DEF PushGrows

\* An array grows, and the push is tried again.
LEMMA PushGrowsInv == IInv /\ PushGrows => IInv'
<1>. SUFFICES ASSUME IInv, PushGrows PROVE IInv'
  OBVIOUS
<1>1. /\ Requests({"push"})
      /\ UNCHANGED <<job, drop, maps, spans, names, items, lost, report>>
  BY DEF PushGrows
<1>2. op = "file" /\ FileAt
  BY <1>1, OnlyFile
<1>3. AcctOK' /\ array' \in [Arrays -> Seq(Block)]
  BY GrowOK DEF IInv
<1>4. FileAt'
  BY <1>1, <1>2 DEF FileAt, job
<1>5. /\ items' \in [Arrays -> Seq(Block)] /\ got' \in Seq(Block)
      /\ todo' \in Seq(Request) /\ causes' \subseteq Causes
  BY <1>1 DEF IInv, TypeOK, job
<1>. QED  BY <1>1, <1>2, <1>3, <1>4, <1>5, JobStep DEF job

\* An array cannot grow.
LEMMA PushFailsInv == IInv /\ PushFails => IInv'
<1>. SUFFICES ASSUME IInv, PushFails PROVE IInv'
  OBVIOUS
<1>. DEFINE g == Growth(Head(todo).to)
<1>1. /\ Requests({"push"}) /\ Refuses(g) /\ todo' = <<>>
      /\ causes' = causes \cup {Cause(g)}
      /\ UNCHANGED <<op, got, old, drop, held, report>>
  BY DEF PushFails
<1>2. op = "file"
  BY <1>1, OnlyFile
<1>3. g \in Nat /\ AcctOK
  BY <1>1, HeadArray, GrowthNat DEF IInv, TypeOK, AcctOK
<1>4. AcctOK' /\ Cause(g) \in Causes
  BY <1>1, <1>3, RefusesOK
<1>5. /\ FileAt' /\ todo' \in Seq(Request) /\ causes' \subseteq Causes
      /\ got' \in Seq(Block)
  BY <1>1, <1>4 DEF FileAt, IInv, TypeOK
<1>6. items' \in [Arrays -> Seq(Block)] /\ array' \in [Arrays -> Seq(Block)]
  BY <1>1 DEF IInv, TypeOK, held
<1>. QED  BY <1>1, <1>2, <1>4, <1>5, <1>6, JobStep DEF held

-----------------------------------------------------------------------------
\* A step that leaves no operation under way.
LEMMA IdleStep ==
  ASSUME IInv, AcctOK', op' \in {"idle", "closed"}, todo' = <<>>,
         got' \in Seq(Block), old' \in Seq(Block), causes' \subseteq Causes,
         drop' \subseteq Block, lost' \subseteq Block, names' \subseteq Block,
         maps' \in SUBSET Seq(Block), spans' \in SUBSET Seq(Block),
         <<>> \notin maps',
         array' \in [Arrays -> Seq(Block)], items' \in [Arrays -> Seq(Block)],
         report' \in Report
  PROVE  IInv'
<1>1. todo' \in Seq(Request) /\ op' \in Ops
  BY DEF Ops
<1>2. TypeOK'
  BY <1>1 DEF TypeOK, AcctOK
<1>3. Shape'
  BY DEF Shape
<1>. QED  BY <1>2, <1>3 DEF IInv

\* The parts of the state that most ends leave alone.
LEMMA Parts ==
  ASSUME IInv
  PROVE  /\ AcctOK /\ op \in Ops /\ causes \subseteq Causes
         /\ got \in Seq(Block) /\ old \in Seq(Block)
         /\ drop \subseteq Block /\ lost \subseteq Block /\ names \subseteq Block
         /\ maps \in SUBSET Seq(Block) /\ spans \in SUBSET Seq(Block)
         /\ <<>> \notin maps
         /\ array \in [Arrays -> Seq(Block)] /\ items \in [Arrays -> Seq(Block)]
         /\ report \in Report
BY DEF IInv, TypeOK, Shape, AcctOK

\* The blocks of a sequence of blocks.
LEMMA BlocksOK ==
  ASSUME NEW s \in Seq(Block)
  PROVE  Blocks(s) \subseteq Block
BY DEF Blocks

\* The strings on the arrays are blocks.
LEMMA QueuedOK ==
  ASSUME items \in [Arrays -> Seq(Block)]
  PROVE  /\ Queued \subseteq Block
         /\ [a \in Arrays |-> <<>>] \in [Arrays -> Seq(Block)]
<1>1. \A a \in Arrays : Blocks(items[a]) \subseteq Block
  BY BlocksOK
<1>. QED  BY <1>1 DEF Queued

\* An operation fails.
LEMMA FailInv == IInv /\ Fail => IInv'
<1>. SUFFICES ASSUME IInv, Fail PROVE IInv'
  OBVIOUS
<1>1. /\ drop' = Blocks(got) \cup Queued /\ items' = [a \in Arrays |-> <<>>]
      /\ report' = [op |-> op, causes |-> causes, error |-> ErrorName]
      /\ ToIdle /\ UNCHANGED <<acct, maps, spans, names, array, lost>>
  BY DEF Fail
<1>2. drop' \subseteq Block /\ items' \in [Arrays -> Seq(Block)]
  BY <1>1, Parts, BlocksOK, QueuedOK
<1>3. report' \in Report
  <2>1. ErrorName \in Errors
    BY DEF ErrorName, Errors
  <2>. QED  BY <1>1, <2>1, Parts DEF Report
<1>4. AcctOK'
  BY <1>1, Parts DEF AcctOK, acct, flags
<1>. QED  BY <1>1, <1>2, <1>3, <1>4, Parts, IdleStep DEF ToIdle

\* What a success reports.
LEMMA SucceedsOK ==
  ASSUME IInv, NEW o, Succeeds(o)
  PROVE  /\ report' \in Report /\ ToIdle /\ op = o /\ todo = <<>> /\ causes = {}
<1>1. /\ op = o /\ report' = [op |-> o, causes |-> {}, error |-> "none"]
      /\ ToIdle /\ todo = <<>> /\ causes = {}
  BY DEF Succeeds, Ends
<1>2. report' \in Report
  BY <1>1, Parts DEF Report, Errors
<1>. QED  BY <1>1, <1>2

\* A map, a resized map, a span and a file are complete.
LEMMA MapDoneInv == IInv /\ MapDone => IInv'
<1>. SUFFICES ASSUME IInv, MapDone PROVE IInv'
  OBVIOUS
<1>1. Succeeds("map") /\ maps' = maps \cup {got}
      /\ UNCHANGED <<acct, drop, spans, names, array, items, lost>>
  BY DEF MapDone
<1>2. /\ report' \in Report /\ ToIdle /\ op = "map" /\ todo = <<>> /\ causes = {}
  BY <1>1, SucceedsOK
<1>3. Len(got) + Len(todo) = 4 /\ got \in Seq(Block)
  BY <1>2 DEF IInv, Shape, TypeOK
<1>4. got # <<>>
  <2>1. Len(todo) = 0
    BY <1>2
  <2>2. Len(got) = 4
    BY <1>3, <2>1
  <2>. QED  BY <2>2
<1>5. maps' \in SUBSET Seq(Block) /\ <<>> \notin maps'
  BY <1>1, <1>3, <1>4, Parts
<1>6. AcctOK'
  BY <1>1, Parts DEF AcctOK, acct, flags
<1>. QED  BY <1>1, <1>2, <1>5, <1>6, Parts, IdleStep DEF ToIdle

\* The map takes over the new arrays, and the old ones are to be freed.
LEMMA ResizeDoneInv == IInv /\ ResizeDone => IInv'
<1>. SUFFICES ASSUME IInv, ResizeDone PROVE IInv'
  OBVIOUS
<1>1. /\ Succeeds("resize")
      /\ maps' = (maps \ {old}) \cup {<<old[1]>> \o Tail(got)}
      /\ drop' = Blocks(Tail(old)) \cup {got[1]}
      /\ UNCHANGED <<acct, spans, names, array, items, lost>>
  BY DEF ResizeDone
<1>2. /\ report' \in Report /\ ToIdle /\ op = "resize" /\ todo = <<>> /\ causes = {}
  BY <1>1, SucceedsOK
<1>3. /\ Len(got) + Len(todo) = 4 /\ got \in Seq(Block)
      /\ old \in Seq(Block) /\ old # <<>>
  BY <1>2 DEF IInv, Shape, TypeOK
<1>4. got # <<>>
  <2>1. Len(todo) = 0
    BY <1>2
  <2>2. Len(got) = 4
    BY <1>3, <2>1
  <2>. QED  BY <2>2
<1>5. /\ got[1] \in Block /\ old[1] \in Block
      /\ Tail(got) \in Seq(Block) /\ Tail(old) \in Seq(Block)
  BY <1>3, <1>4
<1>6. <<old[1]>> \o Tail(got) \in Seq(Block) /\ <<old[1]>> \o Tail(got) # <<>>
  <2>1. <<old[1]>> \in Seq(Block) /\ Len(<<old[1]>>) = 1
    BY <1>5
  <2>2. /\ <<old[1]>> \o Tail(got) \in Seq(Block)
        /\ Len(<<old[1]>> \o Tail(got)) = Len(<<old[1]>>) + Len(Tail(got))
    BY <1>5, <2>1, ConcatProperties
  <2>3. Len(Tail(got)) \in Nat
    BY <1>5
  <2>4. Len(<<old[1]>> \o Tail(got)) # 0
    BY <2>1, <2>2, <2>3
  <2>. QED  BY <2>2, <2>4
<1>7. maps' \in SUBSET Seq(Block) /\ <<>> \notin maps'
  BY <1>1, <1>6, Parts
<1>8. drop' \subseteq Block
  BY <1>1, <1>5, BlocksOK
<1>9. AcctOK'
  BY <1>1, Parts DEF AcctOK, acct, flags
<1>10. /\ spans' \in SUBSET Seq(Block) /\ names' \subseteq Block /\ lost' \subseteq Block
       /\ array' \in [Arrays -> Seq(Block)] /\ items' \in [Arrays -> Seq(Block)]
  BY <1>1, Parts
<1>11. /\ op' = "idle" /\ todo' = <<>> /\ got' \in Seq(Block) /\ old' \in Seq(Block)
       /\ causes' \subseteq Causes
  BY <1>2 DEF ToIdle
<1>. QED  BY <1>2, <1>7, <1>8, <1>9, <1>10, <1>11, IdleStep

\* An aborted rehash leaves the operation.
LEMMA ResizeAbortedInv == IInv /\ ResizeAborted => IInv'
<1>. SUFFICES ASSUME IInv, ResizeAborted PROVE IInv'
  OBVIOUS
<1>1. /\ lost' = lost \cup Blocks(got) /\ drop' = Queued
      /\ items' = [a \in Arrays |-> <<>>]
      /\ report' = [op |-> op, causes |-> {}, error |-> "aborted"]
      /\ ToIdle /\ UNCHANGED <<acct, maps, spans, names, array>>
  BY DEF ResizeAborted
<1>2. /\ drop' \subseteq Block /\ items' \in [Arrays -> Seq(Block)]
      /\ lost' \subseteq Block
  BY <1>1, Parts, BlocksOK, QueuedOK
<1>3. report' \in Report
  BY <1>1, Parts DEF Report, Errors
<1>4. AcctOK'
  BY <1>1, Parts DEF AcctOK, acct, flags
<1>. QED  BY <1>1, <1>2, <1>3, <1>4, Parts, IdleStep DEF ToIdle

\* A span and the name it may have added are recorded.
LEMMA SpanDoneInv == IInv /\ SpanDone => IInv'
<1>. SUFFICES ASSUME IInv, SpanDone PROVE IInv'
  OBVIOUS
<1>1. /\ Succeeds("span")
      /\ spans' = spans \cup {SubSeq(got, 1, 2)}
      /\ names' = names \cup Blocks(SubSeq(got, 3, Len(got)))
      /\ UNCHANGED <<acct, drop, maps, array, items, lost>>
  BY DEF SpanDone
<1>2. /\ report' \in Report /\ ToIdle /\ op = "span" /\ todo = <<>> /\ causes = {}
  BY <1>1, SucceedsOK
<1>3. Len(got) + Len(todo) >= 2 /\ got \in Seq(Block)
  BY <1>2 DEF IInv, Shape, TypeOK
<1>4. Len(got) >= 2 /\ Len(got) \in Nat
  <2>1. Len(todo) = 0
    BY <1>2
  <2>. QED  BY <1>3, <2>1
<1>5. \A i \in 1 .. 2 : got[i] \in Block
  BY <1>3, <1>4
<1>6. \A i \in 3 .. Len(got) : got[i] \in Block
  BY <1>3, <1>4
<1>7. SubSeq(got, 1, 2) \in Seq(Block)
  BY <1>5, SubSeqProperties
<1>8. SubSeq(got, 3, Len(got)) \in Seq(Block)
  BY <1>4, <1>6, SubSeqProperties
<1>9. spans' \in SUBSET Seq(Block) /\ names' \subseteq Block
  BY <1>1, <1>7, <1>8, Parts, BlocksOK
<1>10. AcctOK'
  BY <1>1, Parts DEF AcctOK, acct, flags
<1>. QED  BY <1>1, <1>2, <1>9, <1>10, Parts, IdleStep DEF ToIdle

\* The prologue of a file is complete.
LEMMA FileEnteredInv == IInv /\ FileEntered => IInv'
<1>. SUFFICES ASSUME IInv, FileEntered PROVE IInv'
  OBVIOUS
<1>1. Succeeds("file") /\ UNCHANGED <<acct, drop, held>>
  BY DEF FileEntered
<1>2. report' \in Report /\ ToIdle
  BY <1>1, SucceedsOK
<1>3. AcctOK'
  BY <1>1, Parts DEF AcctOK, acct, flags
<1>. QED  BY <1>1, <1>2, <1>3, Parts, IdleStep DEF ToIdle, held

\* A step of an idle context that stays idle.
LEMMA StaysIdle ==
  ASSUME IInv, op \in {"idle", "closed"}, UNCHANGED job
  PROVE  op' \in {"idle", "closed"} /\ todo' = <<>>
BY DEF IInv, Shape, job

\* The code of a file has run.
LEMMA FileLeftInv == IInv /\ FileLeft => IInv'
<1>. SUFFICES ASSUME IInv, FileLeft PROVE IInv'
  OBVIOUS
<1>1. /\ op = "idle"
      /\ drop' = {items[a][Len(items[a])] : a \in {b \in Arrays : items[b] # <<>>}}
      /\ items' = [a \in Arrays |-> SubSeq(items[a], 1, Len(items[a]) - 1)]
      /\ UNCHANGED <<acct, job, maps, spans, names, array, lost, report>>
  BY DEF FileLeft, Idle
<1>2. \A a \in Arrays : items[a] # <<>> => items[a][Len(items[a])] \in Block
  BY Parts
<1>3. drop' \subseteq Block
  BY <1>1, <1>2
<1>4. ASSUME NEW a \in Arrays
      PROVE  SubSeq(items[a], 1, Len(items[a]) - 1) \in Seq(Block)
  <2>1. items[a] \in Seq(Block)
    BY Parts
  <2>2. Len(items[a]) - 1 \in Int
    BY <2>1
  <2>3. \A i \in 1 .. Len(items[a]) - 1 : items[a][i] \in Block
    BY <2>1
  <2>. QED  BY <2>2, <2>3, SubSeqProperties
<1>5. items' \in [Arrays -> Seq(Block)]
  BY <1>1, <1>4
<1>6. AcctOK'
  BY <1>1, Parts DEF AcctOK, acct, flags
<1>7. op' \in {"idle", "closed"} /\ todo' = <<>>
  BY <1>1, StaysIdle
<1>. QED  BY <1>1, <1>3, <1>5, <1>6, <1>7, Parts, IdleStep DEF job

\* The collector gives the blocks of a map or of a span back.
LEMMA CollectInv == IInv /\ (SweepMap \/ PruneSpan) => IInv'
<1>. SUFFICES ASSUME IInv, SweepMap \/ PruneSpan PROVE IInv'
  OBVIOUS
<1>1. PICK s \in maps \cup spans :
      /\ op = "idle" /\ drop' = Blocks(s)
      /\ maps' \subseteq maps /\ spans' \subseteq spans
      /\ UNCHANGED <<acct, job, names, array, items, lost, report>>
  BY DEF SweepMap, PruneSpan, Idle
<1>2. drop' \subseteq Block
  BY <1>1, Parts, BlocksOK
<1>3. AcctOK'
  BY <1>1, Parts DEF AcctOK, acct, flags
<1>4. op' \in {"idle", "closed"} /\ todo' = <<>>
  BY <1>1, StaysIdle
<1>. QED  BY <1>1, <1>2, <1>3, <1>4, Parts, IdleStep DEF job

\* A block is freed.
LEMMA FreeOK ==
  ASSUME IInv, Free
  PROVE  /\ AcctOK' /\ drop' \subseteq Block /\ used' <= used
         /\ UNCHANGED <<job, held, report>>
<1>. DEFINE b == CHOOSE c \in drop : TRUE
<1>1. /\ drop # {} /\ drop' = drop \ {b} /\ live' = live \ {b}
      /\ size' = [size EXCEPT ![b] = 0] /\ NoteFree(size[b])
      /\ UNCHANGED <<limit, job, held, report>>
  BY DEF Free
<1>2. b \in drop
  BY <1>1
<1>. HIDE DEF b
<1>3. b \in Block /\ size[b] \in Nat /\ AcctOK
  BY <1>2, Parts DEF AcctOK
<1>4. size' \in [Block -> Nat] /\ live' \subseteq Block /\ drop' \subseteq Block
  BY <1>1, <1>3, Parts DEF AcctOK
<1>5. used' \in Base .. peak' /\ peak' \in Nat /\ used' <= used
  BY <1>1, <1>3, SizesAssumption DEF NoteFree, AcctOK
<1>. QED  BY <1>1, <1>3, <1>4, <1>5 DEF AcctOK, NoteFree, flags

\* Freeing a block disturbs nothing else.
LEMMA FreeInv == IInv /\ Free => IInv'
<1>. SUFFICES ASSUME IInv, Free PROVE IInv'
  OBVIOUS
<1>1. AcctOK' /\ drop' \subseteq Block /\ UNCHANGED <<job, held, report>>
  BY FreeOK
<1>2. TypeOK'
  BY <1>1 DEF IInv, TypeOK, AcctOK, job, held
<1>3. Shape'
  BY <1>1 DEF IInv, Shape, FileAt, job, held
<1>. QED  BY <1>2, <1>3 DEF IInv

\* fe_close gives every block back.
LEMMA CloseInv == IInv /\ Close => IInv'
<1>. SUFFICES ASSUME IInv, Close PROVE IInv'
  OBVIOUS
<1>1. /\ op = "idle" /\ drop' = Held /\ op' = "closed"
      /\ maps' = {} /\ spans' = {} /\ names' = {}
      /\ array' = [a \in Arrays |-> <<>>]
      /\ UNCHANGED <<acct, todo, got, causes, old, items, lost, report>>
  BY DEF Close, Idle
<1>2. drop' \subseteq Block
  <2>1. \A s \in maps \cup spans : Blocks(s) \subseteq Block
    BY Parts, BlocksOK
  <2>2. \A a \in Arrays : Blocks(array[a]) \subseteq Block
    BY Parts, BlocksOK
  <2>3. Queued \subseteq Block /\ names \subseteq Block
    BY Parts, QueuedOK
  <2>. DEFINE groups == UNION {Blocks(s) : s \in maps \cup spans}
              tables == UNION {Blocks(array[a]) : a \in Arrays}
  <2>4. groups \subseteq Block
    BY <2>1, Zenon
  <2>5. tables \subseteq Block
    BY <2>2, Zenon
  <2>5a. Held = groups \cup names \cup tables \cup Queued
    BY DEF Held
  <2>. HIDE DEF groups, tables
  <2>6. Held \subseteq Block
    BY <2>3, <2>4, <2>5, <2>5a
  <2>. QED  BY <1>1, <2>6
<1>3. AcctOK' /\ todo' = <<>>
  BY <1>1, Parts DEF AcctOK, acct, flags, IInv, Shape
<1>4. array' \in [Arrays -> Seq(Block)]
  BY <1>1
<1>5. maps' \in SUBSET Seq(Block) /\ spans' \in SUBSET Seq(Block) /\ <<>> \notin maps'
  BY <1>1
<1>. QED  BY <1>1, <1>2, <1>3, <1>4, <1>5, Parts, IdleStep

\* The host sets a limit.
LEMMA SetLimitInv == IInv /\ SetLimit => IInv'
<1>. SUFFICES ASSUME IInv, SetLimit PROVE IInv'
  OBVIOUS
<1>1. /\ op = "idle" /\ limit' \in Limits
      /\ UNCHANGED <<used, peak, size, live, flags, job, drop, held, report>>
  BY DEF SetLimit, Idle
<1>2. AcctOK'
  BY <1>1, Parts, SizesAssumption DEF AcctOK, flags
<1>3. op' \in {"idle", "closed"} /\ todo' = <<>>
  BY <1>1, StaysIdle
<1>. QED  BY <1>1, <1>2, <1>3, Parts, IdleStep DEF job, held

\* A step that changes nothing keeps the invariant.
LEMMA StutterInv == IInv /\ UNCHANGED vars => IInv'
<1>. SUFFICES ASSUME IInv, UNCHANGED vars PROVE IInv'
  OBVIOUS
<1>. USE DEF vars, acct, flags, job, held
<1>1. TypeOK'
  BY DEF IInv, TypeOK
<1>2. Shape'
  BY DEF IInv, Shape, FileAt
<1>. QED  BY <1>1, <1>2 DEF IInv

-----------------------------------------------------------------------------
\* Every step keeps the types and the shape of the programs.
THEOREM Invariance == Spec => []IInv
<1>1. IInv /\ [Next]_vars => IInv'
  BY BeginsInv, SetLimitInv, TakeInv, RefuseInv, ReadFailsInv, FreeFirstInv,
     PushItemInv, PushGrowsInv, PushFailsInv, FailInv, MapDoneInv,
     ResizeDoneInv, ResizeAbortedInv, SpanDoneInv, FileEnteredInv, FileLeftInv,
     CollectInv, FreeInv, CloseInv, StutterInv DEF Next
<1>. QED  BY InitInv, <1>1, PTL DEF Spec

\* The tracked use stays between the arena and the reported peak, for every
\* limit and every size of block: memory_note_alloc and memory_note_free keep
\* fe_get_memory_used and fe_get_peak_memory_used consistent.
THEOREM TypeCorrect == Spec => []TypeOK
<1>1. IInv => TypeOK
  BY DEF IInv
<1>. QED  BY Invariance, <1>1, PTL

\* No allocation and no growth in place takes the use over the limit in force:
\* memory_would_exceed_limit is asked before every memory_note_alloc, with the
\* number of bytes that it will add.
THEOREM Ceiling == Spec => CeilingRespected
<1>. DEFINE Keeps == used' > used => limit = 0 \/ used' <= limit
<1>1. IInv /\ [Next]_vars => [Keeps]_vars
  <2>. SUFFICES ASSUME IInv, Next PROVE Keeps
    BY DEF vars
  <2>0. used \in Int /\ AcctOK /\ TypeOK
    BY Parts, SizesAssumption DEF AcctOK, IInv
  <2>1. CASE UNCHANGED used
    BY <2>0, <2>1
  <2>2. CASE Take
    BY <2>0, <2>2, HeadKind, AllocatesOK DEF Take
  <2>3. CASE ReadFails
    <3>1. CASE UNCHANGED <<acct, got>>
      BY <2>1, <3>1 DEF acct
    <3>2. CASE Allocates(Sizes[Head(todo).kind])
      BY <2>0, <2>3, <3>2, HeadKind, AllocatesOK DEF ReadFails, Requests
    <3>. QED  BY <2>3, <3>1, <3>2 DEF ReadFails
  <2>4. CASE PushGrows
    BY <2>0, <2>4, GrowOK
  <2>5. CASE Free
    <3>1. used' <= used /\ AcctOK'
      BY <2>5, FreeOK
    <3>. QED  BY <2>0, <3>1, SizesAssumption DEF AcctOK
  <2>6. CASE Refuse \/ PushFails
    BY <2>1, <2>6 DEF Refuse, PushFails, Refuses
  <2>7. CASE \/ MapNew \/ MapResize \/ SpanRecord \/ DoFile \/ SetLimit
             \/ FreeFirst \/ PushItem \/ Fail \/ MapDone \/ ResizeDone
             \/ ResizeAborted \/ SpanDone \/ FileEntered \/ FileLeft
             \/ SweepMap \/ PruneSpan \/ Close
    BY <2>1, <2>7 DEF MapNew, MapResize, SpanRecord, DoFile, Begin, SetLimit,
       FreeFirst, PushItem, Fail, MapDone, ResizeDone, ResizeAborted, SpanDone,
       FileEntered, FileLeft, SweepMap, PruneSpan, Close, acct
  <2>. QED  BY <2>2, <2>3, <2>4, <2>5, <2>6, <2>7 DEF Next
<1>. QED  BY Invariance, <1>1, PTL DEF Spec, CeilingRespected
=============================================================================
