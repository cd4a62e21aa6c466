----------------------------- MODULE FexJsonSpec -----------------------------
(***************************************************************************)
(* What a JSON text means, said without a reader: a text means a value     *)
(* when it can be cut into parts that mean its parts.  The grammar is the  *)
(* JSON grammar over the characters of FexJson, with the two choices the   *)
(* interpreter makes: [] is nil, and of two members with one name the last *)
(* counts.                                                                 *)
(***************************************************************************)
EXTENDS FexJson

\* A text without the blanks around it.
Trimmed(t) ==
    LET solid == {i \in DOMAIN t : t[i] \notin Blank}
    IN  IF solid = {} THEN <<>>
        ELSE SubSeq(t, CHOOSE i \in solid : \A j \in solid : i <= j,
                       CHOOSE i \in solid : \A j \in solid : i >= j)

Inner(t) == SubSeq(t, 2, Len(t) - 1)
Encloses(t, open, close) == Len(t) >= 2 /\ t[1] = open /\ t[Len(t)] = close

\* A character is escaped when an odd run of backslashes ends before it.
IsEscaped(t, i) ==
    \E n \in 1 .. i - 1 : /\ n % 2 = 1
                          /\ \A k \in i - n .. i - 1 : t[k] = "backslash"
                          /\ i - n = 1 \/ t[i - n - 1] # "backslash"

WellQuoted(t) ==
    \A i \in DOMAIN t :
        IF IsEscaped(t, i) THEN t[i] \in DOMAIN Escape
        ELSE /\ t[i] \notin Control \union {"quote"}
             /\ t[i] = "backslash" => i < Len(t)

\* The characters a quoted text stands for.
Unquoted(t) ==
    LET stands == SelectSeq([i \in DOMAIN t |-> i],
                            LAMBDA i : IsEscaped(t, i) \/ t[i] # "backslash")
    IN  [n \in DOMAIN stands |-> IF IsEscaped(t, stands[n]) THEN Escape[t[stands[n]]]
                                 ELSE t[stands[n]]]

IsNatural(t) == t # <<>> /\ \A i \in DOMAIN t : t[i] \in DOMAIN Numeral

RECURSIVE NaturalOf(_)
NaturalOf(t) ==
    IF t = <<>> THEN 0 ELSE 10 * NaturalOf(Front(t)) + Numeral[Last(t)]

RECURSIVE Means(_), Items(_), Members(_)

Means(text) ==
    LET t == Trimmed(text)
    IN  CASE t = <<"null">>  -> {Nil}
          [] t = <<"true">>  -> {Bool(TRUE)}
          [] t = <<"false">> -> {Bool(FALSE)}
          [] IsNatural(t)    -> {Number(NaturalOf(t))}
          [] Len(t) > 1 /\ t[1] = "-" /\ IsNatural(Tail(t)) ->
                {Number(-NaturalOf(Tail(t)))}
          [] Encloses(t, "quote", "quote") ->
                IF WellQuoted(Inner(t)) THEN {String(Unquoted(Inner(t)))} ELSE {}
          [] Encloses(t, "[", "]") ->
                {List(vs) : vs \in Items(Inner(t))}
                  \union (IF Trimmed(Inner(t)) = <<>> THEN {Nil} ELSE {})
          [] Encloses(t, "{", "}") ->
                Members(Inner(t))
                  \union (IF Trimmed(Inner(t)) = <<>> THEN {Map(EmptyMap)} ELSE {})
          [] OTHER -> {}

Before(t, i) == SubSeq(t, 1, i - 1)
After(t, i) == SubSeq(t, i + 1, Len(t))
Places(t, chr) == {i \in DOMAIN t : t[i] = chr}

\* One or more values with commas between.
Items(t) ==
    {<<v>> : v \in Means(t)}
      \union UNION {{Append(vs, v) : vs \in Items(Before(t, i)), v \in Means(After(t, i))} :
                      i \in Places(t, ",")}

\* One or more members with commas between, as the map they make.
Members(t) ==
    LET Member(u) == UNION {{<<k.string, v>> : k \in {w \in Means(Before(u, c)) : IsA(w, "string")},
                                               v \in Means(After(u, c))} :
                              c \in Places(u, ":")}
        With(f, m) == [k \in DOMAIN f \union {m[1]} |-> IF k = m[1] THEN m[2] ELSE f[k]]
    IN  {Map(With(EmptyMap, m)) : m \in Member(t)}
          \union UNION {{Map(With(f.map, m)) : f \in Members(Before(t, i)),
                                               m \in Member(After(t, i))} :
                          i \in Places(t, ",")}
=============================================================================
