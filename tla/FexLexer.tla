------------------------------ MODULE FexLexer ------------------------------
(***************************************************************************)
(* The lexer of src/src/fex.c, one token for each step of parser_advance.  *)
(* A source is a sequence of characters; the character after the last one  *)
(* is the NUL that ends the string.  Keywords are names here: which names  *)
(* identifier_type makes keywords is left out.                             *)
(***************************************************************************)
EXTENDS Integers, Sequences, FiniteSets

CONSTANTS
  Sources,   \* the sources to scan
  Garbage    \* the values of a field that is never written

VARIABLES
  source,  \* the source
  try,     \* a fex_try_* call is active: the first error ends the compilation
  lexer,   \* current, line and line_start
  tokens,  \* the tokens so far
  ended    \* the end of the source has been reached, or an error raised

vars == <<source, try, lexer, tokens, ended>>

-----------------------------------------------------------------------------
(* Characters. *)

NL == "nl"
NUL == "nul"
Blank == {" ", "cr", "tab"}
Digit == {"0", "1"}
Alpha == {"a", "e", "x", "_"}
Hex == Digit \cup {"a", "e"}
Single == {"(", ")", "{", "}", "[", "]", ";", ",", ".", "-", "+", "/", "*"}
WithEqual == {"!", "=", "<", ">"}

At(i) == IF i <= Len(source) THEN source[i] ELSE NUL
is_at_end(i) == At(i) = NUL

\* The first position from i on whose character is not in S.
Past(S, i) ==
  CHOOSE j \in i .. Len(source) + 1 : At(j) \notin S /\ \A k \in i .. j - 1 : At(k) \in S
LineEnd(i) ==
  CHOOSE j \in i .. Len(source) + 1 :
    (At(j) = NL \/ is_at_end(j)) /\ \A k \in i .. j - 1 : At(k) # NL

Newlines(i, j) == {k \in i .. j - 1 : At(k) = NL}

\* Fault: a newline does not set line_start.
advance_only(l, j) == [l EXCEPT !.current = j, !.line = @ + Cardinality(Newlines(l.current, j))]

\* advance, from l up to position j.
advance(l, j) ==
  LET new == Newlines(l.current, j) IN
  [current |-> j,
   line |-> l.line + Cardinality(new),
   line_start |-> IF new = {} THEN l.line_start
                  ELSE 1 + CHOOSE k \in new : \A i \in new : i <= k]

\* Fault: a single slash begins a comment.
comment_slash(i) == At(i) = "/"

\* Blanks, newlines and comments.
comment(i) == At(i) = "/" /\ At(i + 1) = "/"
RECURSIVE layout_end(_)
layout_end(i) ==
  CASE At(i) \in Blank \cup {NL} -> layout_end(i + 1)
    [] comment(i) -> layout_end(LineEnd(i))
    [] OTHER -> i

\* A newline is counted here and in advance.
skip_whitespace(l) ==
  LET j == layout_end(l.current)
  IN [advance(l, j) EXCEPT !.line = @ + Cardinality(Newlines(l.current, j))]

-----------------------------------------------------------------------------
(* Tokens.  l is the lexer when the token begins, m when it ends.           *)

make_token(type, l, m) ==
  [type |-> type, from |-> l.current, to |-> m.current,
   line |-> m.line, column |-> l.current - m.line_start + 1]

\* start points to a message, and column is not written.
error_token(l, m, garbage) ==
  [type |-> "error", from |-> l.current, to |-> m.current, line |-> m.line, column |-> garbage]

\* The end of a token whose first character is before position i.
lex_identifier(i) == Past(Alpha \cup Digit, i)

\* Fault: an e after the digits is always an exponent.
exponent_greedy(i) ==
  IF At(i) # "e" THEN i ELSE Past(Digit, IF At(i + 1) \in {"+", "-"} THEN i + 2 ELSE i + 1)

\* The fraction and the exponent, each only if a digit follows.
fraction(i) == IF At(i) = "." /\ At(i + 1) \in Digit THEN Past(Digit, i + 1) ELSE i
exponent(i) ==
  LET d == IF At(i + 1) \in {"+", "-"} THEN i + 2 ELSE i + 1
  IN IF At(i) = "e" /\ At(d) \in Digit THEN Past(Digit, d) ELSE i
lex_number(i) == exponent(fraction(Past(Digit, i)))

\* Past the closing quote; a backslash takes the next character along.  The
\* result is beyond the source if there is no such quote.
RECURSIVE lex_string(_)
lex_string(i) ==
  CASE is_at_end(i) -> i + 2
    [] At(i) = "quote" -> i + 1
    [] At(i) = "backslash" /\ ~is_at_end(i + 1) -> lex_string(i + 2)
    [] OTHER -> lex_string(i + 1)

\* The token at l, after layout, and the lexer behind it.
scan_token(l, garbage) ==
  LET i == l.current
      c == At(i)
      two(next) == IF At(i + 1) = next THEN i + 2 ELSE i + 1
      token(type, j) == LET m == advance(l, j) IN [token |-> make_token(type, l, m), lexer |-> m]
      failing(j) == LET m == advance(l, j) IN [token |-> error_token(l, m, garbage), lexer |-> m]
      string == lex_string(i + 1)
  IN
  CASE c = NUL -> token("eof", i)
    [] c \in Alpha -> token("name", lex_identifier(i + 1))
    [] c = "0" /\ At(i + 1) = "x" ->
         IF At(i + 2) \in Hex THEN token("number", Past(Hex, i + 2)) ELSE failing(i + 2)
    [] c \in Digit /\ (c = "0" => At(i + 1) # "x") -> token("number", lex_number(i + 1))
    [] c \in Single -> token("single", i + 1)
    [] c \in WithEqual -> token("operator", two("="))
    [] c = ":" -> token(IF At(i + 1) = ":" THEN "operator" ELSE "error", two(":"))
    [] c = "quote" -> IF string <= Len(source) + 1 THEN token("string", string) ELSE failing(Len(source) + 1)
    [] OTHER -> failing(i + 1)

-----------------------------------------------------------------------------

\* init_lexer.
Init ==
  /\ source \in Sources /\ try \in BOOLEAN
  /\ lexer = [current |-> 1, line |-> 1, line_start |-> 1]
  /\ tokens = <<>>
  /\ ended = FALSE

\* One token.  An error is raised at once under a fex_try_* call; otherwise it
\* is printed and the next token is scanned.
parser_advance ==
  /\ ~ended
  /\ \E garbage \in Garbage :
       LET s == scan_token(skip_whitespace(lexer), garbage) IN
       /\ tokens' = Append(tokens, s.token)
       /\ lexer' = s.lexer
       /\ ended' = (s.token.type = "eof" \/ (try /\ s.token.type = "error"))
  /\ UNCHANGED <<source, try>>

Done == ended /\ UNCHANGED vars

Next == parser_advance \/ Done

Spec == Init /\ [][Next]_vars

-----------------------------------------------------------------------------
(* Properties. *)

\* The positions that are inside a token, and the layout: blanks, newlines,
\* and two slashes with the rest of the line.
Inside(i) == \E k \in 1 .. Len(tokens) : tokens[k].from <= i /\ i < tokens[k].to
Commented(i) ==
  \E j \in 1 .. i - 1 :
    /\ source[j] = "/" /\ source[j + 1] = "/" /\ ~Inside(j)
    /\ \A k \in j .. i : source[k] # NL
Layout(i) == source[i] \in Blank \cup {NL} \/ Commented(i) \/ (source[i] = "/" /\ At(i + 1) = "/")

\* The tokens that scan_token returns follow each other, none but the last is
\* empty, and between them there is layout only: no character of the source is
\* lost and none is read twice.
Partition ==
  /\ \A k \in 1 .. Len(tokens) :
       /\ tokens[k].from < tokens[k].to \/ tokens[k].type = "eof"
       /\ k > 1 => tokens[k - 1].to <= tokens[k].from
  /\ \A i \in 1 .. Len(source) :
       i < lexer.current /\ ~Inside(i) => Layout(i)

\* The line and the column of a position.
LineOf(i) == 1 + Cardinality({j \in 1 .. i - 1 : source[j] = NL})
ColumnOf(i) == i - Cardinality({j \in 1 .. i - 1 : LineOf(j) < LineOf(i)})

\* The column of a token is the one at which it begins, if the token is on one
\* line and is not an error: an error token has no column, and the column of a
\* string with a newline in it is counted from the line on which it ends.
ColumnsTrue ==
  \A k \in 1 .. Len(tokens) :
    LET t == tokens[k] IN
    t.type # "error" /\ Newlines(t.from, t.to) = {} => t.column = ColumnOf(t.from)

\* What lex_number should accept, as a grammar: digits, a fraction and an
\* exponent with at least one digit each.
Digits(a, b) == a <= b /\ \A i \in a .. b : source[i] \in Digit
Numeral(a, b) ==
  \E f \in a .. b, e \in a .. b :
    /\ f <= e /\ Digits(a, f)
    /\ e = f \/ (At(f + 1) = "." /\ Digits(f + 2, e))
    /\ \/ e = b
       \/ /\ At(e + 1) = "e"
          /\ Digits(e + 2, b) \/ (At(e + 2) \in {"+", "-"} /\ Digits(e + 3, b))
HexNumeral(a, b) ==
  /\ b >= a + 2 /\ source[a] = "0" /\ source[a + 1] = "x"
  /\ \A i \in a + 2 .. b : source[i] \in Hex

\* A number token is the longest numeral that begins at its place: an e, a
\* point or a sign that does not continue the numeral is left to the next one.
NumbersLongest ==
  \A k \in 1 .. Len(tokens) : tokens[k].type = "number" =>
    LET a == tokens[k].from
        b == tokens[k].to - 1
    IN /\ Numeral(a, b) \/ HexNumeral(a, b)
       /\ \A c \in b + 1 .. Len(source) : ~Numeral(a, c) /\ ~HexNumeral(a, c)

\* The length of the run of backslashes just before position i.
Escapes(i, a) == Cardinality({j \in a + 1 .. i - 1 : \A k \in j .. i - 1 : source[k] = "backslash"})
Closes(i, a) == source[i] = "quote" /\ Escapes(i, a) % 2 = 0

\* A string token ends at the first quote that is preceded by an even number
\* of backslashes, and it is an error only if there is no such quote.
StringsClosed ==
  \A k \in 1 .. Len(tokens) :
    LET a == tokens[k].from
        quotes == {i \in a + 1 .. Len(source) : Closes(i, a)}
    IN At(a) = "quote" =>
         IF quotes = {} THEN tokens[k].type = "error" /\ tokens[k].to = Len(source) + 1
         ELSE /\ tokens[k].type = "string" /\ tokens[k].to - 1 \in quotes
              /\ \A i \in quotes : tokens[k].to - 1 <= i

\* The tokens whose end lex_number and lex_string have to find end where their
\* grammar says.
TokensExact == NumbersLongest /\ StringsClosed

=============================================================================
