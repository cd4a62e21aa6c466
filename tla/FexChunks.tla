------------------------------ MODULE FexChunks ------------------------------
(***************************************************************************)
(* Facts about texts that are taken chunk by chunk, for FexFilesProofs.    *)
(***************************************************************************)
EXTENDS SequenceTheorems, TLAPS

\* The first bytes of a text, and the next few, are the first bytes again.
LEMMA NextBytes ==
    ASSUME NEW Byte, NEW s \in Seq(Byte), NEW m \in 0 .. Len(s), NEW n \in m .. Len(s)
    PROVE  /\ SubSeq(s, 1, m) \o SubSeq(s, m + 1, n) = SubSeq(s, 1, n)
           /\ SubSeq(s, m + 1, n) \in Seq(Byte)
           /\ SubSeq(s, 1, n) \in Seq(Byte)
           /\ Len(SubSeq(s, 1, n)) = n
           /\ SubSeq(SubSeq(s, 1, n), 1, n) = SubSeq(s, 1, n)
<1>1. SubSeq(s, 1, m) \o SubSeq(s, m + 1, n) = SubSeq(s, 1, n)
  BY ConcatAdjacentSubSeq
<1>2. SubSeq(s, m + 1, n) \in Seq(Byte)
  BY SubSeqProperties
<1>3. SubSeq(s, 1, n) \in Seq(Byte) /\ Len(SubSeq(s, 1, n)) = n
  BY SubSeqProperties
<1>4. SubSeq(SubSeq(s, 1, n), 1, n) = SubSeq(s, 1, n)
  BY <1>3, SubSeqFull
<1> QED
  BY <1>1, <1>2, <1>3, <1>4

\* The file, the stream's buffer and the chunk, put together in any order.
LEMMA ThreeParts ==
    ASSUME NEW Byte, NEW a \in Seq(Byte), NEW b \in Seq(Byte), NEW c \in Seq(Byte)
    PROVE  (a \o b) \o c = a \o (b \o c) /\ b \o c \in Seq(Byte)
<1>1. (a \o b) \o c = a \o (b \o c)
  BY ConcatAssociative
<1>2. b \o c \in Seq(Byte)
  BY ConcatProperties
<1> QED
  BY <1>1, <1>2

\* A text is all its bytes, and an empty buffer adds nothing.
LEMMA WholeText ==
    ASSUME NEW Byte, NEW s \in Seq(Byte)
    PROVE  SubSeq(s, 1, Len(s)) = s /\ s \o <<>> = s /\ <<>> \in Seq(Byte)
  BY SubSeqFull, ConcatEmptySeq, EmptySeq

\* A script of some calls is one of more calls.
LEMMA LargerScript ==
    ASSUME NEW Some, NEW Calls, Some \subseteq Calls, NEW s \in Seq(Some)
    PROVE  s \in Seq(Calls)
  OBVIOUS

\* The first call of a script, and the rest.
LEMMA FirstOfScript ==
    ASSUME NEW Calls, NEW s \in Seq(Calls), s # <<>>
    PROVE  Head(s) \in Calls /\ Tail(s) \in Seq(Calls)
  BY HeadTailProperties
=============================================================================
