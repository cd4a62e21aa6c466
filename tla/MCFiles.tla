------------------------------- MODULE MCFiles -------------------------------
(***************************************************************************)
(* FexFiles with the JSON reader and writer of FexJson.                    *)
(***************************************************************************)
EXTENDS FexFiles, FexJsonSpec

Upto(S, n) == UNION {[1 .. k -> S] : k \in 0 .. n}

\* Texts that nest, and texts of one string with its escapes.
Nesting == Upto({"[", "]", "{", "}", ",", ":", "quote", "1", " "}, 4)
           \union {<<"[">> \o t \o <<"]">> : t \in Upto({"[", "]", ",", "1", "-"}, 4)}
           \union {<<"{", "quote">> \o t \o <<":", "1", "}">> :
                     t \in Upto({"quote", ":", ",", "1", "a"}, 4)}
Quoted == {<<"quote">> \o t \o <<"quote">> :
             t \in Upto({"quote", "backslash", "n", "u0001", "u", "nl"}, 4)}
Words == Upto({"null", "true", "false", " ", "nul"}, 2)

Values ==
    LET s == String(<<"quote", "nl", "nul">>)
        atoms == {Nil, Bool(TRUE), Bool(FALSE), Number(12), Number(-1), s, Function}
        lists == {List(<<a, b>>) : a, b \in atoms}
        maps == {Map([k \in ks |-> a]) : ks \in SUBSET {<<"a">>, <<"backslash">>}, a \in atoms}
    IN  atoms \union lists \union maps
          \union {Map([k \in {<<"a">>, <<>>} |-> v]) : v \in lists}
          \union {List(<<m>>) : m \in maps} \union {Dotted(Nil, Number(1))}

Contents == {<<>>, <<"a", "1", "nl">>, <<"a", "nul">>}

Paths == {p \in Upto({"/", "backslash", "a", ".", ":"}, 4) :
             \A i \in 1 .. Len(p) - 1 : ~(p[i] = "." /\ p[i + 1] = ".")}

PureScripts ==
    {<<[op |-> "parsejson", content |-> t]>> : t \in Nesting \union Quoted \union Words}
      \union {<<[op |-> "tojson", content |-> v]>> : v \in Values}
      \union {<<[op |-> op, path |-> p]>> : op \in PathOps, p \in Paths}
      \union {<<[op |-> "pathjoin", parts |-> ps]>> :
                ps \in UNION {[1 .. n -> Upto({"/", "backslash", "a"}, 2)] : n \in 1 .. 2}}
      \union {<<[op |-> "pathjoin", parts |-> ps]>> : ps \in [1 .. 3 -> Upto({"/", "a"}, 2)]}

DirPaths == Upto({"/", "a", ":"}, 4) \union {<<"a", "backslash", "a">>, <<".">>}

DirScripts ==
    {<<[op |-> op, path |-> p]>> : op \in {"mkdir", "mkdirp", "exists", "listdir"}, p \in DirPaths}

FileScripts ==
    {<<[op |-> w, content |-> c], [op |-> r]>> :
       w \in {"writefile", "writebytes"}, r \in Readers, c \in Contents}
      \union {<<[op |-> "writejson", content |-> v], [op |-> "readjson"]>> : v \in Values}
      \union {<<[op |-> r]>> : r \in Readers}

MCDisks == {NoFile, <<"1">>, <<"[", "1", "]", "nul">>, <<"1", "1", "1", "1", "1">>}

Bare == [dirs |-> {<<>>, <<<<"/">>>>}, files |-> {}]
MCTrees == {Bare,
            [dirs |-> Bare.dirs \union {<<<<"a">>>>}, files |-> {<<<<"/">>, <<"a">>>>}],
            [dirs |-> Bare.dirs \union {<<<<"a">>>>, <<<<"a">>, <<"a">>>>},
             files |-> {<<<<"a">>, <<":">>>>}]}

Start(s, d, t) == [script |-> s, disk |-> d, dirs |-> t.dirs, files |-> t.files]

MCStarts == {Start(s, NoFile, Bare) : s \in PureScripts}
              \union {Start(s, NoFile, t) : s \in DirScripts, t \in MCTrees}
              \union {Start(s, d, Bare) : s \in FileScripts, d \in MCDisks}

MCByte == {"[", "]", "{", "}", ",", ":", "quote", "backslash", "1", "2", "-", " ", "a", "n", "/",
           "null", "true", "false", "nl", NUL} \union DOMAIN Escape

\* A C string ends at its first NUL.
CString(t) == LET ends == {n \in 0 .. Len(t) : n = Len(t) \/ t[n + 1] = NUL}
              IN  SubSeq(t, 1, CHOOSE n \in ends : \A m \in ends : n <= m)


=============================================================================
