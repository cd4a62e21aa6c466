------------------------------- MODULE FexPath -------------------------------
(***************************************************************************)
(* The path builtins pathjoin, dirname and basename and the paths that     *)
(* mkdirp creates (fex_builtins.c), in the POSIX build.  A path is a       *)
(* sequence of characters.  The builtins take "/" and the backslash for    *)
(* separators, the system only "/".                                        *)
(***************************************************************************)
EXTENDS SequencesExt

SystemSeparators == {"/"}
PathSeparators == {"/", "backslash"}
IsSeparator(chr) == chr \in PathSeparators

\* The separators at the end of a path dropped, down to a given length.
Stripped(path, least) ==
    LET ends == {n \in least .. Len(path) :
                    \A k \in n + 1 .. Len(path) : IsSeparator(path[k])}
    IN  IF ends = {} THEN path ELSE SubSeq(path, 1, Min(ends))

Separators(path) == {i \in DOMAIN path : IsSeparator(path[i])}

dirname(path) ==
    LET p == Stripped(path, 1)
        last == Max(Separators(p))
        first == Min({i \in 1 .. last : \A k \in i .. last : IsSeparator(p[k])})
    IN  IF Separators(p) = {} THEN <<".">>
        ELSE IF first = 1 THEN <<"/">>
        ELSE SubSeq(p, 1, first - 1)

basename(path) ==
    LET p == Stripped(path, 1)
    IN  SubSeq(p, Max(Separators(p) \union {0}) + 1, Len(p))

\* Fault: no separator between the parts.
JoinPartBare(buf, part) == buf \o Stripped(part, 0)

\* One turn of pathjoin's loop: what the buffer holds after one more part.
JoinPart(buf, part) ==
    LET starts == {n \in 0 .. Len(part) : \A k \in 1 .. n : IsSeparator(part[k])}
        start == IF buf = <<>> THEN 0 ELSE Max(starts)
        whole == Stripped(part, start)
        body == SubSeq(whole, start + 1, Len(whole))
        need_sep == buf # <<>> /\ body # <<>> /\ Last(buf) # "/"
    IN  buf \o (IF need_sep THEN <<"/">> ELSE <<>>)
            \o [i \in DOMAIN body |-> IF IsSeparator(body[i]) THEN "/" ELSE body[i]]

pathjoin(parts) ==
    LET buf == FoldLeft(JoinPart, <<>>, parts)
    IN  IF buf = <<>> THEN <<".">> ELSE buf

path_root_length(path) == IF path # <<>> /\ IsSeparator(path[1]) THEN 1 ELSE 0

(***************************************************************************)
(* The paths ensure_directory_tree_cstr hands to create_directory_cstr, in *)
(* order; none for the empty path, which it refuses.  The test for a drive *)
(* letter is made on every platform.                                       *)
(***************************************************************************)
ensure_directory_tree(path) ==
    LET root == path_root_length(path)
        p == Stripped(path, root)
        cuts == {i \in Separators(p) : /\ i > root + 1
                                       /\ ~(i = 3 /\ p[2] = ":")}
        Upto(i) == SubSeq(p, 1, i - 1)
        order == SetToSortSeq(cuts, LAMBDA i, j : i < j)
    IN  IF p = <<>> THEN <<>>
        ELSE Append([n \in DOMAIN order |-> Upto(order[n])], p)

----------------------------------------------------------------------------
(***************************************************************************)
(* What a path names, for a process that stays in one directory: the names *)
(* on the way from that directory, or from the root.                       *)
(***************************************************************************)
Names(path, seps) ==
    LET heads == {i \in DOMAIN path : /\ path[i] \notin seps
                                      /\ i = 1 \/ path[i - 1] \in seps}
        Ends(i) == {j \in i .. Len(path) : j = Len(path) \/ path[j + 1] \in seps}
        order == SetToSortSeq(heads, LAMBDA i, j : i < j)
        names == [n \in DOMAIN order |-> SubSeq(path, order[n], Min(Ends(order[n])))]
    IN  SelectSeq(names, LAMBDA name : name # <<".">>)

IsRooted(path, seps) == path # <<>> /\ path[1] \in seps

Located(path, seps) == (IF IsRooted(path, seps) THEN <<<<"/">>>> ELSE <<>>) \o Names(path, seps)

\* What the system makes of a path.
Place(path) == Located(path, SystemSeparators)
=============================================================================
