------------------------------- MODULE FexJson -------------------------------
(***************************************************************************)
(* The JSON reader and writer behind parsejson, readjson, tojson and       *)
(* writejson (fex_builtins.c), as functions from texts to values and from  *)
(* values to texts.                                                        *)
(*                                                                         *)
(* A text is a sequence of characters.  The words true, false and null     *)
(* and the \u escape with its four digits are one character each, and no   *)
(* text has one of the three words right after a backslash.  The numerals  *)
(* are the decimal integers without a zero, which strtod and "%.15g"       *)
(* convert exactly up to fifteen digits; the texts are far shorter.        *)
(*                                                                         *)
(* The deadlines that both directions poll, and the memory they use, are   *)
(* in FexFiles.                                                            *)
(***************************************************************************)
EXTENDS Integers, Sequences, SequencesExt

NUL == "nul"
Blank == {" ", "nl"}
Control == {"nl", "ctl", NUL}
Numeral == [d \in {"1", "2"} |-> IF d = "1" THEN 1 ELSE 2]

\* What the character after a backslash stands for.
Escape == [e \in {"quote", "backslash", "/", "n", "u0000", "u0001", "u0061"} |->
             CASE e = "n"     -> "nl"
               [] e = "u0000" -> NUL
               [] e = "u0001" -> "ctl"
               [] e = "u0061" -> "a"
               [] OTHER       -> e]

(***************************************************************************)
(* The values of the interpreter that the two directions tell apart.  An   *)
(* empty list is nil.                                                      *)
(***************************************************************************)
Nil == [nil |-> TRUE]
Bool(b) == [bool |-> b]
Number(n) == [number |-> n]
String(s) == [string |-> s]
Map(f) == [map |-> f]
List(vs) == IF vs = <<>> THEN Nil ELSE [list |-> vs]
Dotted(a, d) == [dotted |-> <<a, d>>]
Function == [function |-> TRUE]

IsA(v, tag) == tag \in DOMAIN v

EmptyMap == [k \in {} |-> Nil]

----------------------------------------------------------------------------
(***************************************************************************)
(* The reader.  It walks a C string, so every text ends in a NUL, whether  *)
(* the file holds one or not.  A reader takes a text and a place in it and *)
(* returns the value it read and the place after it; place 0 is an error.  *)
(***************************************************************************)
At(s, i) == IF i \in DOMAIN s THEN s[i] ELSE NUL

Read(v, i) == [value |-> v, at |-> i]
Failed == Read(Nil, 0)
HasFailed(r) == r.at = 0

json_skip_ws(s, i) ==
    CHOOSE j \in i .. Len(s) + 1 : /\ \A k \in i .. j - 1 : s[k] \in Blank
                                   /\ At(s, j) \notin Blank

RECURSIVE StringRest(_, _, _)
StringRest(s, i, buf) ==
    LET chr == At(s, i)
        next == At(s, i + 1)
    IN  CASE chr = "quote" -> Read(String(buf), i + 1)
          [] chr = "backslash" /\ next \in DOMAIN Escape ->
                StringRest(s, i + 2, Append(buf, Escape[next]))
          [] chr = "backslash" /\ next \notin DOMAIN Escape -> Failed
          [] chr \in Control -> Failed
          [] OTHER -> StringRest(s, i + 1, Append(buf, chr))

json_parse_string(s, i) ==
    IF At(s, i) = "quote" THEN StringRest(s, i + 1, <<>>) ELSE Failed

\* strtod: the longest numeral that starts here.
json_parse_number(s, i) ==
    LET first == IF At(s, i) = "-" THEN i + 1 ELSE i
        end == CHOOSE j \in first .. Len(s) + 1 :
                  /\ \A k \in first .. j - 1 : s[k] \in DOMAIN Numeral
                  /\ At(s, j) \notin DOMAIN Numeral
        size == FoldLeft(LAMBDA n, d : 10 * n + Numeral[d], 0,
                         SubSeq(s, first, end - 1))
    IN  IF end = first THEN Failed
        ELSE Read(Number(IF first = i THEN size ELSE -size), end)

RECURSIVE json_parse_value(_, _), ArrayRest(_, _, _), ObjectRest(_, _, _)

\* The loop of json_parse_array, with the items read so far.
ArrayRest(s, i, items) ==
    LET item == json_parse_value(s, i)
        j == json_skip_ws(s, item.at)
        all == Append(items, item.value)
    IN  CASE HasFailed(item) -> Failed
          [] ~HasFailed(item) /\ At(s, j) = "]" -> Read(List(all), j + 1)
          [] ~HasFailed(item) /\ At(s, j) = "," ->
                ArrayRest(s, json_skip_ws(s, j + 1), all)
          [] OTHER -> Failed

json_parse_array(s, i) ==
    LET j == json_skip_ws(s, i + 1)
    IN  IF At(s, j) = "]" THEN Read(Nil, j + 1) ELSE ArrayRest(s, j, <<>>)

\* The loop of json_parse_object: fe_map_set keeps the last value of a key.
ObjectRest(s, i, map) ==
    LET key == json_parse_string(s, i)
        colon == json_skip_ws(s, key.at)
        value == json_parse_value(s, json_skip_ws(s, colon + 1))
        j == json_skip_ws(s, value.at)
        name == key.value.string
        all == [k \in DOMAIN map \union {name} |->
                   IF k = name THEN value.value ELSE map[k]]
    IN  CASE HasFailed(key) -> Failed
          [] ~HasFailed(key) /\ At(s, colon) # ":" -> Failed
          [] ~HasFailed(key) /\ At(s, colon) = ":" ->
                CASE HasFailed(value) -> Failed
                  [] ~HasFailed(value) /\ At(s, j) = "}" -> Read(Map(all), j + 1)
                  [] ~HasFailed(value) /\ At(s, j) = "," ->
                        ObjectRest(s, json_skip_ws(s, j + 1), all)
                  [] OTHER -> Failed

json_parse_object(s, i) ==
    LET j == json_skip_ws(s, i + 1)
    IN  IF At(s, j) = "}" THEN Read(Map(EmptyMap), j + 1)
        ELSE ObjectRest(s, j, EmptyMap)

json_parse_value(s, i) ==
    LET j == json_skip_ws(s, i)
        chr == At(s, j)
    IN  CASE chr = "quote" -> json_parse_string(s, j)
          [] chr = "{"     -> json_parse_object(s, j)
          [] chr = "["     -> json_parse_array(s, j)
          [] chr = "true"  -> Read(Bool(TRUE), j + 1)
          [] chr = "false" -> Read(Bool(FALSE), j + 1)
          [] chr = "null"  -> Read(Nil, j + 1)
          [] chr \in DOMAIN Numeral \union {"-"} -> json_parse_number(s, j)
          [] OTHER -> Failed


(***************************************************************************)
(* What parsejson and readjson make of a text: a value, an error raised    *)
(* inside the reader, or the "trailing characters" their caller reports.   *)
(***************************************************************************)
ParseText(s) ==
    LET r == json_parse_value(s, 1)
    IN  [kind |-> CASE HasFailed(r) -> "error"
                    [] ~HasFailed(r) /\ At(s, json_skip_ws(s, r.at)) # NUL -> "trailing"
                    [] OTHER -> "value",
         value |-> r.value]

----------------------------------------------------------------------------

EscapeOf(chr) ==
    CASE chr \in {"quote", "backslash"} -> <<"backslash", chr>>
      [] chr = "nl"  -> <<"backslash", "n">>
      [] chr = NUL   -> <<"backslash", "u0000">>
      [] chr = "ctl" -> <<"backslash", "u0001">>
      [] OTHER       -> <<chr>>

json_write_string(str) ==
    <<"quote">> \o FlattenSeq([i \in DOMAIN str |-> EscapeOf(str[i])]) \o <<"quote">>

RECURSIVE Digits(_)
Digits(n) ==
    LET last == CHOOSE d \in DOMAIN Numeral : Numeral[d] = n % 10
    IN  IF n < 10 THEN <<last>> ELSE Append(Digits(n \div 10), last)

NumberText(n) == IF n < 0 THEN <<"-">> \o Digits(-n) ELSE Digits(n)

\* One text of each part, with commas between.
RECURSIVE Commas(_)
Commas(parts) ==
    IF parts = <<>> THEN {<<>>}
    ELSE IF Len(parts) = 1 THEN parts[1]
    ELSE {p \o <<",">> \o rest : p \in parts[1], rest \in Commas(Tail(parts))}

Bracketed(open, texts, close) == {<<open>> \o t \o <<close>> : t \in texts}

RECURSIVE json_write_value(_)
json_write_value(v) ==
    CASE IsA(v, "nil")    -> {<<"null">>}
      [] IsA(v, "bool")   -> {<<IF v.bool THEN "true" ELSE "false">>}
      [] IsA(v, "number") -> {NumberText(v.number)}
      [] IsA(v, "string") -> {json_write_string(v.string)}
      [] IsA(v, "list")   ->
            Bracketed("[", Commas([i \in DOMAIN v.list |-> json_write_value(v.list[i])]), "]")
      [] IsA(v, "map")    ->
            LET Member(k) == {json_write_string(k) \o <<":">> \o t :
                                t \in json_write_value(v.map[k])}
            IN  Bracketed("{", UNION {Commas([i \in DOMAIN keys |-> Member(keys[i])]) :
                                        keys \in SetToSeqs(DOMAIN v.map)}, "}")
      [] OTHER -> {}
=============================================================================
