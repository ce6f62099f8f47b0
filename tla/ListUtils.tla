----------------------------- MODULE ListUtils ------------------------------
(***************************************************************************)
(* listUtils.c on lists of C strings: a list is the sequence of its        *)
(* values, a string the sequence of its bytes.  How list_t keeps that      *)
(* sequence is the subject of LinkedList.                                  *)
(***************************************************************************)
EXTENDS Json

\* strtok: the pieces between runs of delimiters, never an empty one.
strtok(s, delim) ==
  LET go[i \in Nat, word \in Seq(0..255)] ==
        IF i > Len(s) THEN IF word = <<>> THEN <<>> ELSE <<word>>
        ELSE IF s[i] /= delim THEN go[i + 1, Append(word, s[i])]
        ELSE (IF word = <<>> THEN <<>> ELSE <<word>>) \o go[i + 1, <<>>]
  IN  go[1, <<>>]

delimitedStringToList(s, delim) == strtok(s, delim)

\* A value NULL is printed as "(null)".
Printed(v) == IF v = NoText THEN PrintedNull ELSE v

listToDelimitedString(l, delim) ==
  FlattenSeq([i \in 1..Len(l) |-> IF i = 1 THEN Printed(l[i])
                                  ELSE delim \o Printed(l[i])])

\* Without any token the first one is the "(null)" that strtok's NULL prints.
delimitedStringToJSONArray(s, delim) ==
  LET toks == strtok(s, delim)
      quoted(v) == <<QUOTE>> \o v \o <<QUOTE>>
      rest == IF toks = <<>> THEN <<>> ELSE SelectSeq(Tail(toks), strValid)
      first == IF toks = <<>> THEN PrintedNull ELSE toks[1]
  IN  <<LBRACKET>> \o quoted(first)
      \o FlattenSeq([i \in 1..Len(rest) |-> <<COMMA, SPACE>> \o quoted(rest[i])])
      \o <<RBRACKET>>

JSONArrayToDelimitedString(v, delim) ==
  LET l == JSONArrayToList(v) IN IF l.ok THEN listToDelimitedString(l.l, delim) ELSE NoText

listToJSONArrayString(l) == jsonToString(stringListToJSONArray(l))

listValid(l) == l /= <<>>

\* The index of the first equal value among the first `limit', 0 without one.
findInListUntil(l, limit, v) ==
  LET hits == {i \in 1..(IF limit > Len(l) THEN Len(l) ELSE limit) : l[i] = v}
  IN  IF hits = {} THEN 0 ELSE Min(hits)

findInList(l, v) == findInListUntil(l, Len(l), v)
findAllInList(l, v) == SelectSeq(l, LAMBDA x : x = v)

intersectLists(a, b) == SelectSeq(a, LAMBDA x : Contains(b, x))
subtractLists(a, b) == SelectSeq(a, LAMBDA x : ~Contains(b, x))

\* Only values of a are looked for: what b holds twice comes twice.
mergeLists(a, b) == a \o subtractLists(b, a)

subtractListStrings(a, b, delim) ==
  listToDelimitedString(subtractLists(strtok(a, delim), strtok(b, delim)), <<delim>>)

list_removeIfFound(l, v) ==
  LET i == findInList(l, v) IN IF i = 0 THEN l ELSE RemoveAt(l, i)

list_addStringIfNotFound(l, v) == IF v = NoText \/ Contains(l, v) THEN l ELSE Append(l, v)

------------------------------------------------------------------------------
\* Sorting numbers by the order the comparison function gives them.

merge(left, right) ==
  LET go[i \in Nat, j \in Nat] ==
        IF i > Len(left) THEN SubSeq(right, j, Len(right))
        ELSE IF j > Len(right) THEN SubSeq(left, i, Len(left))
        ELSE IF left[i].key <= right[j].key THEN <<left[i]>> \o go[i + 1, j]
        ELSE <<right[j]>> \o go[i, j + 1]
  IN  go[1, 1]

\* arr[l..r] with the indices of the C array.
list_mergeSort(arr) ==
  LET sorted[l \in Nat, r \in Int] ==
        IF l >= r THEN SubSeq(arr, l + 1, r + 1)
        ELSE LET m == l + (r - l) \div 2 IN merge(sorted[l, m], sorted[m + 1, r])
  IN  IF Len(arr) < 2 THEN arr ELSE sorted[0, Len(arr) - 1]
==============================================================================
