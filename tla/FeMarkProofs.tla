---------------------------- MODULE FeMarkProofs ----------------------------
(***************************************************************************)
(* CollectsExactly holds for every arena, every heap, every set of roots   *)
(* and every size of the mark stack.                                       *)
(*                                                                         *)
(* The argument is the usual one for a tracing collector, with "grey"      *)
(* meaning: held by one of the frames of fe_mark and not marked yet.  Each *)
(* child of a marked cell is marked or grey (Covered), and nothing that    *)
(* some closed set leaves out is ever marked or grey (Precise).  When no   *)
(* frame is left the marked set is closed, by Covered, and is contained in *)
(* every closed set, by Precise.                                           *)
(***************************************************************************)
EXTENDS FeMark, SequenceTheorems, TLAPS

\* Frame f still has to enter x.
Holds(f, x) ==
  \/ x \in f.left
  \/ f.at = "enter" /\ x = f.obj
  \/ \E j \in 1 .. Len(f.stack) : x = f.stack[j]

\* A call below the innermost of fs has to enter x.
Below(fs, x) == \E i \in 1 .. Len(fs) - 1 : Holds(fs[i], x)

Pending(fs, x) == \E i \in 1 .. Len(fs) : Holds(fs[i], x)

Covered ==
  /\ \A r \in roots : r \in marked \/ r \in todo \/ Pending(frames, r)
  /\ \A o \in marked : \A c \in Children(o) \cap Obj :
       c \in marked \/ Pending(frames, c)

Precise ==
  \A S \in SUBSET Obj : Closed(S) =>
    /\ marked \subseteq S
    /\ \A o \in Obj : Pending(frames, o) => o \in S

\* A frame that runs the host's callback is at the pointer object it marked,
\* a frame has slots left only in the loops over them, and its stack is within
\* its bounds.
FrameOK(f) ==
  /\ Len(f.stack) <= StackSize
  /\ f.at = "embedded" => f.obj \in Obj
  /\ f.at \in {"enter", "pop"} => f.left = {}

FramesOK == \A i \in 1 .. Len(frames) : FrameOK(frames[i])

Marking == Covered /\ Precise /\ freed = {}

IInv ==
  /\ TypeOK
  /\ FramesOK
  /\ phase = "mark" => Marking
  /\ phase = "done" => CollectsExactly
  /\ frames # <<>> => phase = "mark"

-----------------------------------------------------------------------------
\* The last index of a non-empty sequence, and the others.
LEMMA LastIndex ==
  ASSUME NEW n \in Nat \ {0}
  PROVE  /\ \A i \in 1 .. n : i \in 1 .. n - 1 \/ i = n
         /\ 1 .. n - 1 \subseteq 1 .. n
         /\ n \in 1 .. n /\ n \notin 1 .. n - 1
OBVIOUS

\* A non-empty sequence without its last element.
LEMMA DropLast ==
  ASSUME NEW S, NEW s \in Seq(S), s # <<>>
  PROVE  /\ SubSeq(s, 1, Len(s) - 1) \in Seq(S)
         /\ Len(SubSeq(s, 1, Len(s) - 1)) = Len(s) - 1
         /\ \A i \in 1 .. Len(s) - 1 : SubSeq(s, 1, Len(s) - 1)[i] = s[i]
<1>1. Len(s) \in Nat \ {0}
  OBVIOUS
<1>2. \A i \in 1 .. Len(s) - 1 : s[i] \in S
  BY <1>1
<1>3. 1 \in Int /\ Len(s) - 1 \in Int
  BY <1>1
<1>4. /\ SubSeq(s, 1, Len(s) - 1) \in Seq(S)
      /\ Len(SubSeq(s, 1, Len(s) - 1)) =
           IF 1 <= Len(s) - 1 THEN Len(s) - 1 - 1 + 1 ELSE 0
      /\ \A i \in 1 .. Len(s) - 1 - 1 + 1 :
           SubSeq(s, 1, Len(s) - 1)[i] = s[1 + i - 1]
  BY <1>2, <1>3, SubSeqProperties
<1>5. Len(s) - 1 - 1 + 1 = Len(s) - 1 /\ \A i \in 1 .. Len(s) - 1 : 1 + i - 1 = i
  BY <1>1
<1>. QED  BY <1>1, <1>4, <1>5

\* Replacing the innermost frame replaces what that frame holds.
LEMMA ReplaceTop ==
  ASSUME NEW fs \in Seq(Frame), fs # <<>>, NEW f \in Frame,
         NEW gs, gs = [fs EXCEPT ![Len(fs)] = f]
  PROVE  /\ gs \in Seq(Frame) /\ gs # <<>> /\ Len(gs) = Len(fs)
         /\ gs[Len(fs)] = f
         /\ \A i \in 1 .. Len(fs) - 1 : gs[i] = fs[i]
         /\ \A x : Pending(gs, x) <=> Below(fs, x) \/ Holds(f, x)
<1>1. Len(fs) \in Nat \ {0} /\ DOMAIN fs = 1 .. Len(fs)
  OBVIOUS
<1>2. gs \in Seq(Frame) /\ Len(gs) = Len(fs) /\ gs # <<>>
  BY <1>1
<1>3. gs[Len(fs)] = f /\ \A i \in 1 .. Len(fs) - 1 : gs[i] = fs[i]
  BY <1>1, LastIndex, Zenon
<1>4. ASSUME NEW x
      PROVE  Pending(gs, x) <=> Below(fs, x) \/ Holds(f, x)
  BY <1>1, <1>2, <1>3, LastIndex DEF Pending, Below
<1>. QED  BY <1>2, <1>3, <1>4

\* What is pending is what the innermost frame holds and what the others hold.
LEMMA SplitTop ==
  ASSUME NEW fs \in Seq(Frame), fs # <<>>, NEW x
  PROVE  Pending(fs, x) <=> Below(fs, x) \/ Holds(fs[Len(fs)], x)
<1>1. Len(fs) \in Nat \ {0}
  OBVIOUS
<1>. QED  BY <1>1, LastIndex DEF Pending, Below

\* A nested call for o makes o pending as well.
LEMMA NestedCall ==
  ASSUME NEW fs \in Seq(Frame), NEW o \in Ref,
         NEW gs, gs = Append(fs, NewFrame(o))
  PROVE  /\ gs \in Seq(Frame) /\ gs # <<>> /\ Len(gs) = Len(fs) + 1
         /\ \A i \in 1 .. Len(fs) : gs[i] = fs[i]
         /\ gs[Len(gs)] = NewFrame(o)
         /\ \A x : Pending(gs, x) <=> Pending(fs, x) \/ x = o
<1>1. NewFrame(o) \in Frame
  BY DEF NewFrame, Frame
<1>2. /\ gs \in Seq(Frame) /\ Len(gs) = Len(fs) + 1 /\ gs # <<>>
      /\ gs[Len(gs)] = NewFrame(o)
      /\ \A i \in 1 .. Len(fs) : gs[i] = fs[i]
  BY <1>1
<1>3. \A x : Holds(NewFrame(o), x) <=> x = o
  BY DEF Holds, NewFrame
<1>4. Len(gs) - 1 = Len(fs) /\ Len(fs) \in Nat
  BY <1>2
<1>5. \A x : Below(gs, x) <=> Pending(fs, x)
  BY <1>2, <1>4 DEF Below, Pending
<1>6. \A x : Pending(gs, x) <=> Below(gs, x) \/ Holds(gs[Len(gs)], x)
  BY <1>2, SplitTop
<1>. QED  BY <1>2, <1>3, <1>5, <1>6

\* A return leaves what the calls below hold.
LEMMA ReturnCall ==
  ASSUME NEW fs \in Seq(Frame), fs # <<>>,
         NEW gs, gs = SubSeq(fs, 1, Len(fs) - 1)
  PROVE  /\ gs \in Seq(Frame) /\ Len(gs) = Len(fs) - 1
         /\ \A i \in 1 .. Len(gs) : gs[i] = fs[i]
         /\ \A x : Pending(gs, x) <=> Below(fs, x)
<1>1. Len(fs) \in Nat \ {0}
  OBVIOUS
<1>2. /\ gs \in Seq(Frame) /\ Len(gs) = Len(fs) - 1
      /\ \A i \in 1 .. Len(fs) - 1 : gs[i] = fs[i]
  BY DropLast, Zenon
<1>. QED  BY <1>1, <1>2 DEF Pending, Below

-----------------------------------------------------------------------------
\* A step of the marker keeps the invariant when what was pending stays pending
\* or is marked, a cell newly marked was pending and leaves its children
\* pending, and what becomes pending is a child of a marked cell.
LEMMA MarkerStep ==
  ASSUME IInv, phase = "mark",
         heap' = heap, roots' = roots, todo' = todo, freed' = freed,
         phase' = phase, misread' \in BOOLEAN,
         frames' \in Seq(Frame), FramesOK',
         marked' \subseteq Obj, marked \subseteq marked',
         \A x \in Obj : Pending(frames, x) => x \in marked' \/ Pending(frames', x),
         \A o \in marked' : o \in marked \/ Pending(frames, o),
         \A o \in marked' \ marked : \A c \in Children(o) \cap Obj :
            c \in marked' \/ Pending(frames', c),
         \A x \in Obj : Pending(frames', x) =>
            Pending(frames, x) \/ \E o \in marked' : x \in Children(o)
  PROVE  IInv'
<1>1. TypeOK'
  <2>1. \A i \in 1 .. Len(frames') : Len(frames'[i].stack) <= StackSize
    BY DEF FramesOK, FrameOK
  <2>. QED  BY <2>1 DEF IInv, TypeOK
<1>2. \A o \in Obj : Children(o)' = Children(o)
  BY DEF Children
<1>3. \A S \in SUBSET Obj : Closed(S)' <=> Closed(S)
  BY <1>2 DEF Closed
<1>4. Covered'
  <2>1. roots \subseteq Obj
    BY DEF IInv, TypeOK
  <2>2. \A r \in roots : r \in marked' \/ r \in todo \/ Pending(frames', r)
    BY <2>1 DEF IInv, Marking, Covered
  <2>3. ASSUME NEW o \in marked', NEW c \in Children(o) \cap Obj
        PROVE  c \in marked' \/ Pending(frames', c)
    <3>1. CASE o \in marked
      <4>1. c \in marked \/ Pending(frames, c)
        BY <3>1 DEF IInv, Marking, Covered
      <4>. QED  BY <4>1
    <3>2. CASE o \notin marked
      BY <3>2
    <3>. QED  BY <3>1, <3>2
  <2>. QED  BY <1>2, <2>2, <2>3 DEF Covered
<1>5. Precise'
  <2>1. SUFFICES ASSUME NEW S \in SUBSET Obj, Closed(S)
                 PROVE  /\ marked' \subseteq S
                        /\ \A o \in Obj : Pending(frames', o) => o \in S
    BY <1>3 DEF Precise
  <2>2. marked \subseteq S /\ \A o \in Obj : Pending(frames, o) => o \in S
    BY <2>1 DEF IInv, Marking, Precise
  <2>3. marked' \subseteq S
    BY <2>2
  <2>4. \A o \in marked' : Children(o) \cap Obj \subseteq S
    BY <2>1, <2>3 DEF Closed
  <2>. QED  BY <2>2, <2>3, <2>4
<1>. QED  BY <1>1, <1>4, <1>5 DEF IInv, Marking

\* Initially nothing is marked and no call is active.
LEMMA InitInv == Init => IInv
<1>. SUFFICES ASSUME Init PROVE IInv
  OBVIOUS
<1>1. TypeOK
  <2>1. heap \in [Obj -> Node]
    BY NodesAssumption DEF Init
  <2>2. frames \in Seq(Frame) /\ Len(frames) = 0
    BY DEF Init
  <2>3. \A i \in 1 .. Len(frames) : Len(frames[i].stack) <= StackSize
    BY <2>2
  <2>. QED  BY <2>1, <2>2, <2>3 DEF Init, TypeOK
<1>2. \A x : ~Pending(frames, x)
  BY DEF Init, Pending
<1>3. Covered /\ Precise /\ FramesOK
  BY <1>2 DEF Init, Covered, Precise, FramesOK
<1>. QED  BY <1>1, <1>3 DEF Init, IInv, Marking

\* The innermost call when the invariant holds.
LEMMA TopFacts ==
  ASSUME IInv, frames # <<>>
  PROVE  /\ frames \in Seq(Frame) /\ Depth \in Nat \ {0} /\ Top \in Frame
         /\ Depth = Len(frames) /\ Top = frames[Len(frames)]
         /\ phase = "mark" /\ FrameOK(Top)
BY DEF IInv, TypeOK, Depth, Top, FramesOK

\* What a step that continues the innermost call as f makes pending.
LEMMA ContinueFacts ==
  ASSUME IInv, frames # <<>>, NEW f \in Frame,
         FrameOK(f), Continue(f)
  PROVE  /\ frames' \in Seq(Frame) /\ FramesOK'
         /\ \A x : Pending(frames', x) <=> Below(frames, x) \/ Holds(f, x)
         /\ \A x : Pending(frames, x) <=> Below(frames, x) \/ Holds(Top, x)
<1>0. frames \in Seq(Frame)
  BY TopFacts
<1>1. /\ frames \in Seq(Frame) /\ Depth \in Nat \ {0}
      /\ Depth = Len(frames) /\ Top = frames[Len(frames)]
  BY TopFacts
<1>2. frames' = [frames EXCEPT ![Len(frames)] = f]
  BY <1>1 DEF Continue
<1>3. /\ frames' \in Seq(Frame) /\ Len(frames') = Len(frames)
      /\ frames'[Len(frames)] = f
      /\ \A x : Pending(frames', x) <=> Below(frames, x) \/ Holds(f, x)
  BY <1>0, <1>2, ReplaceTop, Zenon
<1>3a. \A i \in 1 .. Len(frames) - 1 : frames'[i] = frames[i]
  BY <1>0, <1>2, ReplaceTop, SMT
<1>4. FramesOK'
  BY <1>1, <1>3, <1>3a, LastIndex DEF IInv, FramesOK
<1>5. \A x : Pending(frames, x) <=> Below(frames, x) \/ Holds(Top, x)
  BY <1>1, SplitTop
<1>. QED  BY <1>3, <1>4, <1>5

\* The same for a step that also makes a nested call for o.
LEMMA RecurseFacts ==
  ASSUME IInv, frames # <<>>, NEW f \in Frame, NEW o \in Ref,
         FrameOK(f), Recurse(f, o)
  PROVE  /\ frames' \in Seq(Frame) /\ FramesOK'
         /\ \A x : Pending(frames', x) <=>
                     Below(frames, x) \/ Holds(f, x) \/ x = o
         /\ \A x : Pending(frames, x) <=> Below(frames, x) \/ Holds(Top, x)
<1>0. frames \in Seq(Frame)
  BY TopFacts
<1>1. /\ frames \in Seq(Frame) /\ Depth \in Nat \ {0}
      /\ Depth = Len(frames) /\ Top = frames[Len(frames)]
  BY TopFacts
<1>. DEFINE gs == [frames EXCEPT ![Len(frames)] = f]
<1>2. /\ gs \in Seq(Frame) /\ Len(gs) = Len(frames)
      /\ gs[Len(frames)] = f
      /\ \A i \in 1 .. Len(frames) - 1 : gs[i] = frames[i]
      /\ \A x : Pending(gs, x) <=> Below(frames, x) \/ Holds(f, x)
  BY <1>0, ReplaceTop, Zenon
<1>3. frames' = Append(gs, NewFrame(o))
  BY <1>1 DEF Recurse
<1>. HIDE DEF gs
<1>4. /\ frames' \in Seq(Frame) /\ Len(frames') = Len(gs) + 1
      /\ frames'[Len(frames')] = NewFrame(o)
      /\ \A x : Pending(frames', x) <=> Pending(gs, x) \/ x = o
  BY <1>2, <1>3, NestedCall, Zenon
<1>4a. \A i \in 1 .. Len(gs) : frames'[i] = gs[i]
  BY <1>2, <1>3, NestedCall, SMT
<1>5. FramesOK'
  <2>1. FrameOK(NewFrame(o))
    BY StackSizeAssumption DEF NewFrame, FrameOK
  <2>2. \A i \in 1 .. Len(gs) : FrameOK(gs[i])
    BY <1>1, <1>2, LastIndex DEF IInv, FramesOK
  <2>3. \A i \in 1 .. Len(gs) + 1 : i \in 1 .. Len(gs) \/ i = Len(gs) + 1
    BY <1>1, <1>2
  <2>. QED  BY <1>4, <1>4a, <2>1, <2>2, <2>3 DEF FramesOK
<1>6. \A x : Pending(frames, x) <=> Below(frames, x) \/ Holds(Top, x)
  BY <1>1, SplitTop
<1>. QED  BY <1>2, <1>4, <1>5, <1>6

\* A frame whose stack is replaced.
LEMMA SetStack ==
  ASSUME NEW f \in Frame, NEW s \in Seq(Ref)
  PROVE  LET g == [f EXCEPT !.stack = s]
         IN  /\ g \in Frame /\ g.at = f.at /\ g.obj = f.obj /\ g.left = f.left
             /\ g.stack = s
BY DEF Frame

\* Push makes o pending, on the stack or in a nested call.
LEMMA PushFacts ==
  ASSUME IInv, frames # <<>>, NEW f \in Frame, NEW o \in Ref,
         FrameOK(f), Push(f, o)
  PROVE  /\ frames' \in Seq(Frame) /\ FramesOK'
         /\ \A x : Pending(frames', x) <=>
                     Below(frames, x) \/ Holds(f, x) \/ x = o
         /\ \A x : Pending(frames, x) <=> Below(frames, x) \/ Holds(Top, x)
<1>1. CASE Len(f.stack) < StackSize
  <2>. DEFINE t == Append(f.stack, o)
              g == [f EXCEPT !.stack = t]
  <2>1. f.stack \in Seq(Ref) /\ Len(f.stack) \in Nat
    BY DEF Frame
  <2>2. /\ t \in Seq(Ref) /\ Len(t) = Len(f.stack) + 1
        /\ \A j \in 1 .. Len(f.stack) : t[j] = f.stack[j]
        /\ t[Len(f.stack) + 1] = o
    BY <2>1
  <2>4. Continue(g)
    BY <1>1 DEF Push
  <2>. HIDE DEF t
  <2>3. /\ g \in Frame /\ g.at = f.at /\ g.obj = f.obj /\ g.left = f.left
        /\ g.stack = t
    BY <2>2, SetStack
  <2>3a. FrameOK(g)
    BY <1>1, <2>1, <2>2, <2>3, StackSizeAssumption DEF FrameOK
  <2>5. \A j \in 1 .. Len(f.stack) + 1 :
          j \in 1 .. Len(f.stack) \/ j = Len(f.stack) + 1
    BY <2>1
  <2>6. /\ 1 .. Len(f.stack) \subseteq 1 .. Len(f.stack) + 1
        /\ Len(f.stack) + 1 \in 1 .. Len(f.stack) + 1
    BY <2>1
  <2>. HIDE DEF g
  <2>7. \A x : Holds(g, x) <=> Holds(f, x) \/ x = o
    BY <2>2, <2>3, <2>5, <2>6 DEF Holds
  <2>. QED  BY <2>3, <2>3a, <2>4, <2>7, ContinueFacts
<1>2. CASE ~(Len(f.stack) < StackSize)
  BY <1>2, RecurseFacts DEF Push
<1>. QED  BY <1>1, <1>2

-----------------------------------------------------------------------------
\* A frame that goes on elsewhere.
LEMMA SetAt ==
  ASSUME NEW f \in Frame, NEW a \in {"enter", "slots", "embedded", "pop"}
  PROVE  LET g == [f EXCEPT !.at = a]
         IN  /\ g \in Frame /\ g.at = a /\ g.obj = f.obj /\ g.left = f.left
             /\ g.stack = f.stack
BY DEF Frame

\* A frame that goes on with another cell.
LEMMA SetObj ==
  ASSUME NEW f \in Frame, NEW o \in Ref
  PROVE  LET g == [f EXCEPT !.obj = o]
         IN  /\ g \in Frame /\ g.at = f.at /\ g.obj = o /\ g.left = f.left
             /\ g.stack = f.stack
BY DEF Frame

\* A frame with other slots left.
LEMMA SetLeft ==
  ASSUME NEW f \in Frame, NEW l \in SUBSET Ref
  PROVE  LET g == [f EXCEPT !.left = l]
         IN  /\ g \in Frame /\ g.at = f.at /\ g.obj = f.obj /\ g.left = l
             /\ g.stack = f.stack
BY DEF Frame

\* A cell that is marked already, or is not a cell, is passed over.
LEMMA SkipInv == IInv /\ Skip => IInv'
<1>. SUFFICES ASSUME IInv, Skip PROVE IInv'
  OBVIOUS
<1>. DEFINE f == [Top EXCEPT !.at = "pop"]
<1>1. /\ frames # <<>> /\ Top.at = "enter" /\ Top.obj \notin Obj \ marked
      /\ Continue(f)
      /\ UNCHANGED <<heap, roots, todo, marked, freed, phase, misread>>
  BY DEF Skip, Running
<1>2. Top \in Frame /\ phase = "mark" /\ FrameOK(Top)
  BY <1>1, TopFacts
<1>3. /\ f \in Frame /\ f.at = "pop" /\ f.left = Top.left
      /\ f.stack = Top.stack
  BY <1>2 DEF Frame
<1>3a. FrameOK(f)
  BY <1>1, <1>2, <1>3 DEF FrameOK
<1>. HIDE DEF f
<1>4. /\ frames' \in Seq(Frame) /\ FramesOK'
      /\ \A x : Pending(frames', x) <=> Below(frames, x) \/ Holds(f, x)
      /\ \A x : Pending(frames, x) <=> Below(frames, x) \/ Holds(Top, x)
  BY <1>1, <1>3, <1>3a, ContinueFacts
<1>5. \A x : Holds(Top, x) <=> Holds(f, x) \/ x = Top.obj
  BY <1>1, <1>3 DEF Holds
<1>6. misread \in BOOLEAN /\ marked \subseteq Obj
  BY DEF IInv, TypeOK
<1>. QED  BY <1>1, <1>2, <1>4, <1>5, <1>6, MarkerStep

\* A pair is marked: its car is pushed and its cdr followed.
LEMMA MarkPairInv == IInv /\ MarkPair => IInv'
<1>. SUFFICES ASSUME IInv, MarkPair PROVE IInv'
  OBVIOUS
<1>1. PICK o \in Obj :
      /\ frames # <<>> /\ Top.at = "enter" /\ o = Top.obj /\ o \notin marked
      /\ heap[o].kind = "pair"
      /\ marked' = marked \cup {o}
      /\ Push([Top EXCEPT !.obj = heap[o].cdr], heap[o].car)
      /\ UNCHANGED <<heap, roots, todo, freed, phase, misread>>
  BY DEF MarkPair, Entering, Running
<1>. DEFINE f == [Top EXCEPT !.obj = heap[o].cdr]
<1>2. Top \in Frame /\ phase = "mark" /\ FrameOK(Top)
  BY <1>1, TopFacts
<1>3. heap[o].car \in Ref /\ heap[o].cdr \in Ref
  BY DEF IInv, TypeOK, Node
<1>4. /\ f \in Frame /\ f.at = "enter" /\ f.obj = heap[o].cdr
      /\ f.left = Top.left /\ f.stack = Top.stack
  BY <1>1, <1>2, <1>3, SetObj
<1>4a. Push(f, heap[o].car) /\ FrameOK(f)
  BY <1>1, <1>2, <1>4 DEF FrameOK
<1>. HIDE DEF f
<1>5. /\ frames' \in Seq(Frame) /\ FramesOK'
      /\ \A x : Pending(frames', x) <=>
                  Below(frames, x) \/ Holds(f, x) \/ x = heap[o].car
      /\ \A x : Pending(frames, x) <=> Below(frames, x) \/ Holds(Top, x)
  BY <1>1, <1>3, <1>4, <1>4a, PushFacts
<1>6. \A x : Holds(Top, x) => Holds(f, x) \/ x = o
  BY <1>1, <1>4 DEF Holds
<1>7. \A x : Holds(f, x) => Holds(Top, x) \/ x = heap[o].cdr
  BY <1>1, <1>4 DEF Holds
<1>8. Holds(Top, o) /\ Holds(f, heap[o].cdr)
  BY <1>1, <1>4 DEF Holds
<1>9. Children(o) = {heap[o].car, heap[o].cdr}
  BY <1>1 DEF Children
<1>10. misread \in BOOLEAN /\ marked \subseteq Obj
  BY DEF IInv, TypeOK
<1>. QED  BY <1>1, <1>2, <1>5, <1>6, <1>7, <1>8, <1>9, <1>10, MarkerStep

\* A function, macro or symbol is marked and its cdr followed.
LEMMA MarkLinkInv == IInv /\ MarkLink => IInv'
<1>. SUFFICES ASSUME IInv, MarkLink PROVE IInv'
  OBVIOUS
<1>1. PICK o \in Obj :
      /\ frames # <<>> /\ Top.at = "enter" /\ o = Top.obj /\ o \notin marked
      /\ heap[o].kind = "link"
      /\ marked' = marked \cup {o}
      /\ Continue([Top EXCEPT !.obj = heap[o].cdr])
      /\ UNCHANGED <<heap, roots, todo, freed, phase, misread>>
  BY DEF MarkLink, Entering, Running
<1>. DEFINE f == [Top EXCEPT !.obj = heap[o].cdr]
<1>2. Top \in Frame /\ phase = "mark" /\ FrameOK(Top)
  BY <1>1, TopFacts
<1>3. heap[o].cdr \in Ref
  BY DEF IInv, TypeOK, Node
<1>4. /\ f \in Frame /\ f.at = "enter" /\ f.obj = heap[o].cdr
      /\ f.left = Top.left /\ f.stack = Top.stack
  BY <1>1, <1>2, <1>3, SetObj
<1>4a. Continue(f) /\ FrameOK(f)
  BY <1>1, <1>2, <1>4 DEF FrameOK
<1>. HIDE DEF f
<1>5. /\ frames' \in Seq(Frame) /\ FramesOK'
      /\ \A x : Pending(frames', x) <=> Below(frames, x) \/ Holds(f, x)
      /\ \A x : Pending(frames, x) <=> Below(frames, x) \/ Holds(Top, x)
  BY <1>1, <1>4, <1>4a, ContinueFacts
<1>6. \A x : Holds(Top, x) => Holds(f, x) \/ x = o
  BY <1>1, <1>4 DEF Holds
<1>7. \A x : Holds(f, x) => Holds(Top, x) \/ x = heap[o].cdr
  BY <1>1, <1>4 DEF Holds
<1>8. Holds(Top, o) /\ Holds(f, heap[o].cdr)
  BY <1>1, <1>4 DEF Holds
<1>9. Children(o) = {heap[o].cdr}
  BY <1>1 DEF Children
<1>10. misread \in BOOLEAN /\ marked \subseteq Obj
  BY DEF IInv, TypeOK
<1>. QED  BY <1>1, <1>2, <1>5, <1>6, <1>7, <1>8, <1>9, <1>10, MarkerStep

\* A cell without children is marked.
LEMMA MarkLeafInv == IInv /\ MarkLeaf => IInv'
<1>. SUFFICES ASSUME IInv, MarkLeaf PROVE IInv'
  OBVIOUS
<1>1. PICK o \in Obj :
      /\ frames # <<>> /\ Top.at = "enter" /\ o = Top.obj /\ o \notin marked
      /\ heap[o].kind \in {"leaf", "free"}
      /\ marked' = marked \cup {o}
      /\ Continue([Top EXCEPT !.at = "pop"])
      /\ UNCHANGED <<heap, roots, todo, freed, phase, misread>>
  BY DEF MarkLeaf, Entering, Running
<1>. DEFINE f == [Top EXCEPT !.at = "pop"]
<1>2. Top \in Frame /\ phase = "mark" /\ FrameOK(Top)
  BY <1>1, TopFacts
<1>4. f \in Frame /\ f.at = "pop" /\ f.left = Top.left /\ f.stack = Top.stack
  BY <1>2, SetAt
<1>4a. Continue(f) /\ FrameOK(f)
  BY <1>1, <1>2, <1>4 DEF FrameOK
<1>. HIDE DEF f
<1>5. /\ frames' \in Seq(Frame) /\ FramesOK'
      /\ \A x : Pending(frames', x) <=> Below(frames, x) \/ Holds(f, x)
      /\ \A x : Pending(frames, x) <=> Below(frames, x) \/ Holds(Top, x)
  BY <1>1, <1>4, <1>4a, ContinueFacts
<1>6. \A x : Holds(Top, x) <=> Holds(f, x) \/ x = o
  BY <1>1, <1>4 DEF Holds
<1>9. Children(o) = {}
  BY <1>1 DEF Children
<1>10. misread \in BOOLEAN /\ marked \subseteq Obj
  BY DEF IInv, TypeOK
<1>. QED  BY <1>1, <1>2, <1>5, <1>6, <1>9, <1>10, MarkerStep

\* MarkMap and MarkPtr differ in the loop that the call enters.
LEMMA MarkKidsInv ==
  ASSUME IInv, NEW o \in Obj, NEW a \in {"slots", "embedded"},
         frames # <<>>, Top.at = "enter", o = Top.obj, o \notin marked,
         heap[o].kind \in {"map", "ptr"}, marked' = marked \cup {o},
         Continue([Top EXCEPT !.at = a, !.left = heap[o].kids]),
         UNCHANGED <<heap, roots, todo, freed, phase, misread>>
  PROVE  IInv'
<1>. DEFINE l == heap[o].kids
            h == [Top EXCEPT !.at = a]
            f == [h EXCEPT !.left = l]
<1>1. Continue(f)
  OBVIOUS
<1>2. Top \in Frame /\ phase = "mark" /\ FrameOK(Top)
  BY TopFacts
<1>3. l \in SUBSET Ref /\ a \in {"enter", "slots", "embedded", "pop"}
  BY DEF IInv, TypeOK, Node
<1>3a. l = heap[o].kids
  OBVIOUS
<1>. HIDE DEF l
<1>3b. h \in Frame /\ h.at = a /\ h.obj = Top.obj /\ h.stack = Top.stack
  BY <1>2, <1>3, SetAt
<1>. HIDE DEF h
<1>4. /\ f \in Frame /\ f.at = a /\ f.obj = Top.obj
      /\ f.left = l /\ f.stack = Top.stack
  BY <1>3, <1>3b, SetLeft
<1>. HIDE DEF f
<1>4a. Continue(f) /\ FrameOK(f) /\ Top.left = {}
  BY <1>1, <1>2, <1>4 DEF FrameOK
<1>5. /\ frames' \in Seq(Frame) /\ FramesOK'
      /\ \A x : Pending(frames', x) <=> Below(frames, x) \/ Holds(f, x)
      /\ \A x : Pending(frames, x) <=> Below(frames, x) \/ Holds(Top, x)
  BY <1>4, <1>4a, ContinueFacts
<1>6. \A x : Holds(Top, x) => Holds(f, x) \/ x = o
  BY <1>4, <1>4a DEF Holds
<1>7. \A x : Holds(f, x) => Holds(Top, x) \/ x \in l
  BY <1>4 DEF Holds
<1>8. Holds(Top, o) /\ \A x \in l : Holds(f, x)
  BY <1>4 DEF Holds
<1>9. Children(o) = l
  BY <1>3a DEF Children
<1>10. misread \in BOOLEAN /\ marked \subseteq Obj
  BY DEF IInv, TypeOK
<1>. QED  BY <1>2, <1>5, <1>6, <1>7, <1>8, <1>9, <1>10, MarkerStep

\* A map is marked, and the loop over its slots begins.
LEMMA MarkMapInv == IInv /\ MarkMap => IInv'
BY MarkKidsInv DEF MarkMap, Entering, Running

\* A pointer object is marked, and the host's mark handler begins.
LEMMA MarkPtrInv == IInv /\ MarkPtr => IInv'
BY MarkKidsInv DEF MarkPtr, Entering, Running

\* A used slot of a map is pushed.
LEMMA MapSlotInv == IInv /\ MapSlot => IInv'
<1>. SUFFICES ASSUME IInv, MapSlot PROVE IInv'
  OBVIOUS
<1>1. PICK k \in Top.left :
      /\ frames # <<>> /\ Top.at = "slots"
      /\ Push([Top EXCEPT !.left = @ \ {k}], k)
      /\ UNCHANGED <<heap, roots, todo, marked, freed, phase, misread>>
  BY DEF MapSlot, Running
<1>. DEFINE l == Top.left \ {k}
            f == [Top EXCEPT !.left = l]
<1>2. Top \in Frame /\ phase = "mark" /\ FrameOK(Top)
  BY <1>1, TopFacts
<1>3. k \in Ref /\ l \in SUBSET Ref
  BY <1>2 DEF Frame
<1>4. Push(f, k)
  BY <1>1
<1>5. \A x : x \in Top.left <=> x \in l \/ x = k
  OBVIOUS
<1>. HIDE DEF l
<1>6. /\ f \in Frame /\ f.at = Top.at /\ f.obj = Top.obj /\ f.left = l
      /\ f.stack = Top.stack
  BY <1>2, <1>3, SetLeft, Zenon
<1>. HIDE DEF f
<1>7. FrameOK(f)
  BY <1>1, <1>2, <1>6 DEF FrameOK
<1>8. /\ frames' \in Seq(Frame) /\ FramesOK'
      /\ \A x : Pending(frames', x) <=> Below(frames, x) \/ Holds(f, x) \/ x = k
      /\ \A x : Pending(frames, x) <=> Below(frames, x) \/ Holds(Top, x)
  BY <1>1, <1>3, <1>4, <1>6, <1>7, PushFacts
<1>9. \A x : Holds(Top, x) <=> Holds(f, x) \/ x = k
  BY <1>5, <1>6 DEF Holds
<1>10. misread \in BOOLEAN /\ marked \subseteq Obj
  BY DEF IInv, TypeOK
<1>. QED  BY <1>1, <1>2, <1>8, <1>9, <1>10, MarkerStep

\* The mark handler calls fe_mark for an embedded reference.
LEMMA HandlerMarkInv == IInv /\ HandlerMark => IInv'
<1>. SUFFICES ASSUME IInv, HandlerMark PROVE IInv'
  OBVIOUS
<1>1. PICK k \in Top.left :
      /\ frames # <<>> /\ Top.at = "embedded"
      /\ Recurse([Top EXCEPT !.left = @ \ {k}], k)
      /\ UNCHANGED <<heap, roots, todo, marked, freed, phase, misread>>
  BY DEF HandlerMark, Running
<1>. DEFINE l == Top.left \ {k}
            f == [Top EXCEPT !.left = l]
<1>2. Top \in Frame /\ phase = "mark" /\ FrameOK(Top)
  BY <1>1, TopFacts
<1>3. k \in Ref /\ l \in SUBSET Ref
  BY <1>2 DEF Frame
<1>4. Recurse(f, k)
  BY <1>1
<1>5. \A x : x \in Top.left <=> x \in l \/ x = k
  OBVIOUS
<1>. HIDE DEF l
<1>6. /\ f \in Frame /\ f.at = Top.at /\ f.obj = Top.obj /\ f.left = l
      /\ f.stack = Top.stack
  BY <1>2, <1>3, SetLeft, Zenon
<1>. HIDE DEF f
<1>7. FrameOK(f)
  BY <1>1, <1>2, <1>6 DEF FrameOK
<1>8. /\ frames' \in Seq(Frame) /\ FramesOK'
      /\ \A x : Pending(frames', x) <=> Below(frames, x) \/ Holds(f, x) \/ x = k
      /\ \A x : Pending(frames, x) <=> Below(frames, x) \/ Holds(Top, x)
  BY <1>1, <1>3, <1>4, <1>6, <1>7, RecurseFacts
<1>9. \A x : Holds(Top, x) <=> Holds(f, x) \/ x = k
  BY <1>5, <1>6 DEF Holds
<1>10. misread \in BOOLEAN /\ marked \subseteq Obj
  BY DEF IInv, TypeOK
<1>. QED  BY <1>1, <1>2, <1>8, <1>9, <1>10, MarkerStep

\* The end of the loop over the slots or over the embedded references.
LEMMA LoopEndInv ==
  ASSUME IInv, frames # <<>>, Top.at \in {"slots", "embedded"}, Top.left = {},
         Continue([Top EXCEPT !.at = "pop"]), misread' \in BOOLEAN,
         UNCHANGED <<heap, roots, todo, marked, freed, phase>>
  PROVE  IInv'
<1>. DEFINE f == [Top EXCEPT !.at = "pop"]
<1>1. Top \in Frame /\ phase = "mark" /\ FrameOK(Top)
  BY TopFacts
<1>2. f \in Frame /\ f.at = "pop" /\ f.left = Top.left /\ f.stack = Top.stack
  BY <1>1, SetAt
<1>3. Continue(f) /\ FrameOK(f)
  BY <1>1, <1>2 DEF FrameOK
<1>. HIDE DEF f
<1>4. /\ frames' \in Seq(Frame) /\ FramesOK'
      /\ \A x : Pending(frames', x) <=> Below(frames, x) \/ Holds(f, x)
      /\ \A x : Pending(frames, x) <=> Below(frames, x) \/ Holds(Top, x)
  BY <1>2, <1>3, ContinueFacts
<1>5. \A x : Holds(Top, x) <=> Holds(f, x)
  BY <1>2 DEF Holds
<1>6. marked \subseteq Obj
  BY DEF IInv, TypeOK
<1>. QED  BY <1>1, <1>4, <1>5, <1>6, MarkerStep

\* The loop over the slots of a map ends.
LEMMA MapEndInv == IInv /\ MapEnd => IInv'
<1>. SUFFICES ASSUME IInv, MapEnd PROVE IInv'
  OBVIOUS
<1>1. misread' \in BOOLEAN
  BY DEF IInv, TypeOK, MapEnd
<1>. QED  BY <1>1, LoopEndInv DEF MapEnd, Running

\* The mark handler returns and the pointer object falls through.
LEMMA PtrFallThroughInv == IInv /\ PtrFallThrough => IInv'
<1>. SUFFICES ASSUME IInv, PtrFallThrough PROVE IInv'
  OBVIOUS
<1>1. frames # <<>> /\ Top.at = "embedded"
  BY DEF PtrFallThrough, Running
<1>2. Top.obj \in Obj
  BY <1>1, TopFacts DEF FrameOK
<1>3. heap[Top.obj].host \in BOOLEAN /\ misread \in BOOLEAN
  BY <1>2 DEF IInv, TypeOK, Node
<1>4. misread' \in BOOLEAN
  BY <1>3, Zenon DEF PtrFallThrough
<1>. QED  BY <1>4, LoopEndInv DEF PtrFallThrough, Running

\* The innermost call takes the next entry of its stack.
LEMMA PopInv == IInv /\ Pop => IInv'
<1>. SUFFICES ASSUME IInv, Pop PROVE IInv'
  OBVIOUS
<1>. DEFINE n == Len(Top.stack)
            s == SubSeq(Top.stack, 1, n - 1)
            f == [Top EXCEPT !.at = "enter", !.obj = Top.stack[n], !.stack = s]
<1>1. /\ frames # <<>> /\ Top.at = "pop" /\ Top.stack # <<>>
      /\ Continue(f)
      /\ UNCHANGED <<heap, roots, todo, marked, freed, phase, misread>>
  BY DEF Pop, Running
<1>2. Top \in Frame /\ phase = "mark" /\ FrameOK(Top)
  BY <1>1, TopFacts
<1>3. Top.stack \in Seq(Ref) /\ n \in Nat \ {0} /\ Top.stack[n] \in Ref
  BY <1>1, <1>2 DEF Frame
<1>4. /\ s \in Seq(Ref) /\ Len(s) = n - 1
      /\ \A j \in 1 .. n - 1 : s[j] = Top.stack[j]
  BY <1>1, <1>3, DropLast
<1>. HIDE DEF s, n
<1>5. /\ f \in Frame /\ f.at = "enter" /\ f.obj = Top.stack[n]
      /\ f.left = Top.left /\ f.stack = s
  BY <1>2, <1>3, <1>4 DEF Frame
<1>. HIDE DEF f
<1>6. FrameOK(f)
  <2>1. Len(f.stack) <= StackSize
    BY <1>2, <1>3, <1>4, <1>5, StackSizeAssumption DEF FrameOK, n
  <2>. QED  BY <1>1, <1>2, <1>5, <2>1 DEF FrameOK
<1>7. /\ frames' \in Seq(Frame) /\ FramesOK'
      /\ \A x : Pending(frames', x) <=> Below(frames, x) \/ Holds(f, x)
      /\ \A x : Pending(frames, x) <=> Below(frames, x) \/ Holds(Top, x)
  BY <1>1, <1>5, <1>6, ContinueFacts
<1>8. \A x : Holds(Top, x) <=> Holds(f, x)
  <2>1. \A x : (\E j \in 1 .. n : x = Top.stack[j]) <=>
               (x = Top.stack[n] \/ \E j \in 1 .. n - 1 : x = s[j])
    BY <1>3, <1>4, LastIndex
  <2>. QED  BY <1>1, <1>4, <1>5, <2>1 DEF Holds, n
<1>9. misread \in BOOLEAN /\ marked \subseteq Obj
  BY DEF IInv, TypeOK
<1>. QED  BY <1>1, <1>2, <1>7, <1>8, <1>9, MarkerStep

\* The innermost call returns: it holds nothing any more.
LEMMA ReturnInv == IInv /\ Return => IInv'
<1>. SUFFICES ASSUME IInv, Return PROVE IInv'
  OBVIOUS
<1>1. /\ frames # <<>> /\ Top.at = "pop" /\ Top.stack = <<>>
      /\ UNCHANGED <<heap, roots, todo, marked, freed, phase, misread>>
  BY DEF Return, Running
<1>2. /\ frames \in Seq(Frame) /\ Top = frames[Len(frames)]
      /\ phase = "mark" /\ FrameOK(Top) /\ Len(frames) \in Nat \ {0}
  BY <1>1, TopFacts
<1>3. frames' = SubSeq(frames, 1, Len(frames) - 1)
  BY DEF Return, Depth
<1>4. /\ frames' \in Seq(Frame) /\ Len(frames') = Len(frames) - 1
      /\ \A x : Pending(frames', x) <=> Below(frames, x)
  BY <1>1, <1>2, <1>3, ReturnCall, Zenon
<1>5. \A i \in 1 .. Len(frames') : frames'[i] = frames[i]
  BY <1>1, <1>2, <1>3, ReturnCall, SMT
<1>6. FramesOK'
  BY <1>2, <1>4, <1>5, LastIndex DEF IInv, FramesOK
<1>7. \A x : ~Holds(Top, x)
  BY <1>1, <1>2 DEF Holds, FrameOK
<1>8. \A x : Pending(frames, x) <=> Below(frames, x) \/ Holds(Top, x)
  BY <1>1, <1>2, SplitTop
<1>9. misread \in BOOLEAN /\ marked \subseteq Obj
  BY DEF IInv, TypeOK
<1>. QED  BY <1>1, <1>2, <1>4, <1>6, <1>7, <1>8, <1>9, MarkerStep

\* collectgarbage hands the next root to fe_mark.
LEMMA MarkRootInv == IInv /\ MarkRoot => IInv'
<1>. SUFFICES ASSUME IInv, MarkRoot PROVE IInv'
  OBVIOUS
<1>1. PICK r \in todo :
      /\ phase = "mark" /\ frames = <<>>
      /\ todo' = todo \ {r} /\ frames' = <<NewFrame(r)>>
      /\ UNCHANGED <<heap, roots, marked, freed, phase, misread>>
  BY DEF MarkRoot
<1>2. roots \subseteq Obj /\ todo \subseteq roots /\ r \in Ref
  BY DEF IInv, TypeOK, Ref
<1>3. NewFrame(r) \in Frame /\ FrameOK(NewFrame(r))
  BY <1>2, StackSizeAssumption DEF NewFrame, Frame, FrameOK
<1>4. \A x : Holds(NewFrame(r), x) <=> x = r
  BY DEF Holds, NewFrame
<1>5. /\ frames' \in Seq(Frame) /\ Len(frames') = 1 /\ frames'[1] = NewFrame(r)
  BY <1>1, <1>3
<1>6. \A i \in 1 .. 1 : i = 1
  OBVIOUS
<1>7. FramesOK'
  BY <1>3, <1>5, <1>6 DEF FramesOK
<1>8. \A x : Pending(frames', x) <=> x = r
  BY <1>4, <1>5, <1>6 DEF Pending
<1>9. \A x : ~Pending(frames, x)
  BY <1>1 DEF Pending
<1>10. TypeOK'
  <2>1. \A i \in 1 .. Len(frames') : Len(frames'[i].stack) <= StackSize
    BY <1>7 DEF FramesOK, FrameOK
  <2>. QED  BY <1>1, <1>5, <2>1 DEF IInv, TypeOK
<1>11. \A o \in Obj : Children(o)' = Children(o)
  BY <1>1 DEF Children
<1>12. \A S \in SUBSET Obj : Closed(S)' <=> Closed(S)
  BY <1>1, <1>11 DEF Closed
<1>13. Covered'
  <2>1. \A q \in roots : q \in marked \/ q \in todo
    BY <1>1, <1>9 DEF IInv, Marking, Covered
  <2>2. \A o \in marked : \A c \in Children(o) \cap Obj : c \in marked
    BY <1>1, <1>9 DEF IInv, Marking, Covered
  <2>3. marked \subseteq Obj
    BY DEF IInv, TypeOK
  <2>. QED  BY <1>1, <1>8, <1>11, <2>1, <2>2, <2>3 DEF Covered
<1>14. Precise'
  <2>1. \A S \in SUBSET Obj : Closed(S) => marked \subseteq S /\ r \in S
    BY <1>1, <1>2 DEF IInv, Marking, Precise, Closed
  <2>. QED  BY <1>1, <1>8, <1>12, <2>1 DEF Precise
<1>. QED  BY <1>1, <1>7, <1>10, <1>13, <1>14 DEF IInv, Marking

\* When no call is active and no root is left, the marked cells are the
\* reachable ones.
LEMMA MarkedIsReachable ==
  ASSUME IInv, phase = "mark", todo = {}, frames = <<>>
  PROVE  marked = Reachable
<1>1. \A x : ~Pending(frames, x)
  BY DEF Pending
<1>2. marked \in SUBSET Obj
  BY DEF IInv, TypeOK
<1>3. Closed(marked)
  BY <1>1 DEF IInv, Marking, Covered, Closed
<1>4. \A S \in SUBSET Obj : Closed(S) => marked \subseteq S
  BY DEF IInv, Marking, Precise
<1>. QED  BY <1>2, <1>3, <1>4 DEF Reachable

\* The sweep frees what is not marked, which is what is not reachable.
LEMMA SweepInv == IInv /\ Sweep => IInv'
<1>. SUFFICES ASSUME IInv, Sweep PROVE IInv'
  OBVIOUS
<1>1. /\ phase = "mark" /\ todo = {} /\ frames = <<>>
      /\ freed' = {o \in Obj : heap[o].kind # "free" /\ o \notin marked}
      /\ marked' \subseteq marked /\ phase' = "done"
      /\ UNCHANGED <<heap, roots, todo, frames, misread>>
  BY DEF Sweep
<1>2. \A o \in Obj : Children(o)' = Children(o)
  BY <1>1 DEF Children
<1>3. \A S \in SUBSET Obj : Closed(S)' <=> Closed(S)
  BY <1>1, <1>2 DEF Closed
<1>4. Reachable' = Reachable
  BY <1>3 DEF Reachable
<1>5. marked = Reachable
  BY <1>1, MarkedIsReachable
<1>6. CollectsExactly'
  BY <1>1, <1>4, <1>5 DEF CollectsExactly
<1>7. TypeOK'
  BY <1>1 DEF IInv, TypeOK
<1>8. FramesOK'
  BY <1>1 DEF IInv, FramesOK
<1>. QED  BY <1>1, <1>6, <1>7, <1>8 DEF IInv

\* A step that changes nothing keeps the invariant.
LEMMA StutterInv == IInv /\ UNCHANGED vars => IInv'
<1>. SUFFICES ASSUME IInv, UNCHANGED vars PROVE IInv'
  OBVIOUS
<1>. USE DEF vars
<1>1. TypeOK' /\ FramesOK'
  BY DEF IInv, TypeOK, FramesOK
<1>2. \A o \in Obj : Children(o)' = Children(o)
  BY DEF Children
<1>3. \A S \in SUBSET Obj : Closed(S)' <=> Closed(S)
  BY <1>2 DEF Closed
<1>4. phase = "done" => CollectsExactly'
  BY <1>3 DEF IInv, CollectsExactly, Reachable
<1>5. phase = "mark" => Covered'
  BY <1>2 DEF IInv, TypeOK, Marking, Covered
<1>6. phase = "mark" => Precise'
  BY <1>3 DEF IInv, Marking, Precise
<1>. QED  BY <1>1, <1>4, <1>5, <1>6 DEF IInv, Marking

-----------------------------------------------------------------------------
\* The invariant of the collector holds throughout.
THEOREM Invariance == Spec => []IInv
<1>1. IInv /\ [Next]_vars => IInv'
  BY MarkRootInv, SkipInv, MarkPairInv, MarkLinkInv, MarkLeafInv, MarkMapInv,
     MapSlotInv, MapEndInv, MarkPtrInv, HandlerMarkInv, PtrFallThroughInv,
     PopInv, ReturnInv, SweepInv, StutterInv DEF Next
<1>. QED  BY InitInv, <1>1, PTL DEF Spec

\* The variables keep their types.
THEOREM TypeCorrect == Spec => []TypeOK
<1>1. IInv => TypeOK
  BY DEF IInv
<1>. QED  BY Invariance, <1>1, PTL

\* collectgarbage frees exactly the allocated cells that no root reaches: for
\* every arena, heap, set of roots and mark stack size, nothing in use is freed
\* and no garbage survives the collection.
THEOREM CollectionExact == Spec => []CollectsExactly
<1>1. IInv => CollectsExactly
  BY DEF IInv, TypeOK, CollectsExactly
<1>. QED  BY Invariance, <1>1, PTL
=============================================================================
