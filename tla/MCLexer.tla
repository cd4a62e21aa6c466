------------------------------ MODULE MCLexer ------------------------------
(***************************************************************************)
(* All sources over a small alphabet, up to a length, for FexLexer.        *)
(***************************************************************************)
EXTENDS FexLexer

UpTo(S, n) == UNION {[1 .. k -> S] : k \in 0 .. n}

\* Layout, strings, numbers, and every kind of character.
MCSources ==
  UpTo({"a", "/", NL, " ", ":", "="}, 5) \cup UpTo({"quote", "backslash", "a", NL}, 6)
  \cup UpTo({"0", "1", "x", "e", ".", "+"}, 5)
  \cup UpTo({"1", "e", ".", "+"}, 6)
  \cup UpTo(Alpha \cup Digit \cup Single \cup WithEqual \cup {":", "quote", "backslash", NL, "tab", "#"}, 2)

MCGarbage == {0, 99}

=============================================================================
