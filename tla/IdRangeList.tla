----------------------------- MODULE IdRangeList -----------------------------
(***************************************************************************)
(* The lists of trusted user and group ids (safe_id_range_list.c): ranges  *)
(* in an array, the test for membership, and the parser of the textual     *)
(* form "1 - 5 : 7 : name".  A text is a sequence of characters over       *)
(* digits, name characters, ' ', '-', '*' and ':'.                         *)
(***************************************************************************)
EXTENDS Integers, Sequences, FiniteSetsExt, SequencesExt, TLC

CONSTANTS
    IdMod,          \* ids are unsigned with IdMod values
    ULongMod,       \* an unsigned long has ULongMod values, at least as many
    Users, Groups   \* [name -> id]: the databases; a name is a sequence of characters

ASSUME IdAssumption ==
    /\ IdMod \in Nat \ {0, 1}
    /\ ULongMod \in Nat /\ ULongMod >= IdMod
    /\ \A db \in {Users, Groups} : \A n \in DOMAIN db : db[n] \in 0..(IdMod - 1)

Value == [d \in {"0", "1", "2", "3", "4", "5", "6", "7", "8", "9"} |->
            CHOOSE n \in 0..9 : d = ToString(n)]
Digits == DOMAIN Value

safe_err_id == IdMod - 1

-----------------------------------------------------------------------------
\* The list.  Growing the array keeps the elements, so a list is its elements.
safe_init_id_range_list == <<>>

\* EINVAL leaves the list as it is.
safe_add_id_range_to_list(list, min, max) ==
    IF min > max THEN list ELSE Append(list, [min |-> min, max |-> max])

safe_add_id_to_list(list, id) == safe_add_id_range_to_list(list, id, id)

\* Mutant: the upper end of a range does not belong to it.
safe_is_id_in_list_open(list, id) == \E i \in DOMAIN list : list[i].min <= id /\ id < list[i].max
safe_is_id_in_list(list, id) == \E i \in DOMAIN list : list[i].min <= id /\ id <= list[i].max

-----------------------------------------------------------------------------
\* The parser.  Positions are indexes into the text; Len + 1 is its end.
At(s, i) == IF i \in DOMAIN s THEN s[i] ELSE "end"

\* The first position from i on at which the text has no character of cs.
SkipAll(s, i, cs) ==
    Min({j \in i..(Len(s) + 1) : At(s, j) \notin cs /\ \A k \in i..(j - 1) : At(s, k) \in cs})

skip_whitespace_const(s, i) == SkipAll(s, i, {" "})

\* The number that digits denote.
Numeral[s \in Seq(Digits)] ==
    IF s = <<>> THEN 0 ELSE 10 * Numeral[SubSeq(s, 1, Len(s) - 1)] + Value[s[Len(s)]]

\* strtoul and the conversion to id_t: a number beyond unsigned long gives its
\* largest value and ERANGE; the conversion keeps the low bits, without an errno.
Converted(n) == IF n < ULongMod THEN [id |-> n % IdMod, err |-> FALSE]
                ELSE [id |-> (ULongMod - 1) % IdMod, err |-> TRUE]

\* A failing lookup gives safe_err_id and an errno.  In a list of plain numbers
\* (name_to_error) every lookup fails: its database is empty.
Lookup(db, name) ==
    IF name \in DOMAIN db THEN [id |-> db[name], err |-> FALSE]
    ELSE [id |-> safe_err_id, err |-> TRUE]

NoNames == [n \in {} |-> 0]

\* The id that starts at b, behind the white space after i: its value, the
\* position behind it and whether errno is set.  Without any id the position
\* stays where it was.
NameEnd(s, b) == Min({j \in b..(Len(s) + 1) : At(s, j) \in {" ", ":", "end"}})

IdAt(s, i, b, db) ==
    CASE At(s, b) \in Digits ->
             LET n == SkipAll(s, b, Digits)
             IN  Converted(Numeral[SubSeq(s, b, n - 1)]) @@ [end |-> n]
      [] At(s, b) = "end" -> [id |-> safe_err_id, end |-> i, err |-> TRUE]
      [] At(s, b) = ":" -> [id |-> safe_err_id, end |-> b, err |-> TRUE]
      [] OTHER -> Lookup(db, SubSeq(s, b, NameEnd(s, b) - 1)) @@ [end |-> NameEnd(s, b)]

strto_id(s, i, db) == IdAt(s, i, skip_whitespace_const(s, i), db)

\* One id, or two with a '-' between them, the second of which may be '*'.
Limits(lo, last) == [min |-> lo.id, max |-> last.id, end |-> last.end, err |-> last.err \/ lo.id > last.id]

UpperAt(s, i, db, max) ==
    IF At(s, i) = "*" THEN [id |-> max, end |-> i + 1, err |-> FALSE] ELSE strto_id(s, i, db)

RangeFrom(s, lo, dash, db, max) ==
    Limits(lo, IF ~lo.err /\ At(s, dash) = "-"
               THEN UpperAt(s, skip_whitespace_const(s, dash + 1), db, max) ELSE lo)

RangeWith(s, lo, db, max) == RangeFrom(s, lo, skip_whitespace_const(s, lo.end), db, max)

strto_id_range(s, i, db, max) == RangeWith(s, strto_id(s, i, db), db, max)

\* parse_id_list: nothing but white space may follow.
Complete(s, end) == At(s, skip_whitespace_const(s, end)) = "end"

\* The loop over the ranges from position i with the list so far; the ranges
\* before an erroneous one stay in the list.
strto_id_list(s, list0, db, max) ==
    LET at == [i \in 1..(Len(s) + 1) |-> strto_id_range(s, i, db, max)]
        next == [i \in DOMAIN at |-> skip_whitespace_const(s, at[i].end)]
        from[i \in DOMAIN at] ==
            IF at[i].err THEN [list |-> <<>>, end |-> at[i].end, err |-> TRUE]
            ELSE IF At(s, next[i]) = ":"
                 THEN [from[next[i] + 1] EXCEPT !.list = <<at[i]>> \o @]
                 ELSE [list |-> <<at[i]>>, end |-> at[i].end, err |-> FALSE]
    IN  [from[1] EXCEPT !.list = FoldLeft(LAMBDA l, r : safe_add_id_range_to_list(l, r.min, r.max), list0, @)]

IdList(s, r) == [list |-> r.list, ok |-> ~r.err /\ Complete(s, r.end)]

parse_id_list(s, db, max) == IdList(s, strto_id_list(s, safe_init_id_range_list, db, max))

safe_parse_id_list(s)  == parse_id_list(s, NoNames, 0)
safe_parse_uid_list(s) == parse_id_list(s, Users, IdMod - 1)
safe_parse_gid_list(s) == parse_id_list(s, Groups, IdMod - 1)

-----------------------------------------------------------------------------
\* The grammar of the comments, without positions: a text is cut at its colons,
\* and each part is an id, or two ids around a '-' that is not part of a name.
Trim(t) ==
    LET solid == {i \in DOMAIN t : t[i] # " "}
    IN  IF solid = {} THEN <<>> ELSE SubSeq(t, Min(solid), Max(solid))

IsNumber(t) == t # <<>> /\ \A i \in DOMAIN t : t[i] \in Digits

\* A number stands for its low bits, one that no unsigned long holds for nothing.
IdOf(t, db) ==
    CASE IsNumber(t) -> {n % IdMod : n \in {Numeral[t]} \cap 0..(ULongMod - 1)}
      [] ~IsNumber(t) /\ t \in DOMAIN db -> {db[t]}
      [] OTHER -> {}

\* The ranges a part may denote: none if it is not in the grammar; '*' is max.
Denoted(t, db, max) ==
    {[min |-> n, max |-> n] : n \in IdOf(Trim(t), db)} \cup
    UNION {LET left  == SubSeq(t, 1, p - 1)
               right == Trim(SubSeq(t, p + 1, Len(t)))
           IN  {[min |-> n, max |-> m] :
                   n \in IF IsNumber(Trim(left)) \/ At(left, p - 1) = " "
                         THEN IdOf(Trim(left), db) ELSE {},
                   m \in IdOf(right, db) \cup IF right = <<"*">> THEN {max} ELSE {}} :
           p \in {q \in DOMAIN t : t[q] = "-"}}

Parts(s) ==
    LET cut == {0, Len(s) + 1} \cup {i \in DOMAIN s : s[i] = ":"}
    IN  {SubSeq(s, i + 1, Min({j \in cut : j > i}) - 1) : i \in cut \ {Len(s) + 1}}
=============================================================================
