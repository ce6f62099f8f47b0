-------------------------- MODULE StructuresProofs --------------------------
(***************************************************************************)
(* The links of lib/list and of the items of lib/cJSON are consistent      *)
(* after any sequence of operations, and both structures implement         *)
(* OrderedForest, for any number of nodes, items, values and keys.         *)
(*                                                                         *)
(* ListInv: the fields of the list link one sequence of nodes both ways.   *)
(* ItemInv: there is a forest K, the children of each item, such that the  *)
(* fields of the items link exactly the sequences of K, and the items have *)
(* ranks that fall from each item to its children.                         *)
(***************************************************************************)
EXTENDS MCStructures, SequenceTheorems, FiniteSetTheorems, FunctionTheorems, WellFoundedInduction, TLAPS

-----------------------------------------------------------------------------
(* Walks along the links                                                   *)

LEMMA Least ==
    ASSUME NEW S \in SUBSET Nat, S # {}
    PROVE  \E t \in S : \A u \in S : t <= u
<1>1. PICK x \in S : \A y \in S : ~(<<y, x>> \in OpToRel(<, Nat))
    BY WFMin, NatLessThanWellFounded
<1>2. \A y \in S : y \in Nat /\ ~(y < x)
    BY <1>1 DEF OpToRel
<1> QED BY <1>2

LEMMA Most ==
    ASSUME NEW top \in Nat, NEW S \in SUBSET (0..top), S # {}
    PROVE  \E t \in S : \A u \in S : u <= t
<1> DEFINE D == {k \in 0..top : top - k \in S}
<1>1. D \in SUBSET Nat /\ \A u \in S : top - u \in D
    OBVIOUS
<1>2. PICK x \in D : \A y \in D : x <= y
    BY <1>1, Least
<1> QED BY <1>1, <1>2

\* The sequences that a walk through N along step sees from each node, if it
\* is left to go so many nodes; g knows them for one node less.
Ahead(N, step, g, left) ==
    [n \in N \cup {NULL} |-> IF n = NULL \/ left = 0 THEN <<>> ELSE <<n>> \o g[left - 1][step[n]]]

Goes(N, step, g) == g = [left \in Nat |-> Ahead(N, step, g, left)]

\* The walk of list_iterator_next, and of cJSON's loops over next.
Along(N, from, step) == (CHOOSE g : Goes(N, step, g))[Cardinality(N)][from]

LEMMA ListWalk == \A from, step : Walk(from, step) = Along(Nodes, from, step)
    BY DEF Walk, Along, Goes, Ahead, Refs

LEMMA ItemCount == \A S : Json!Cardinality(S) = Cardinality(S)
    BY DEF Json!Cardinality, Cardinality

LEMMA ItemWalk == \A links, n : Json!ChainIn(links, n) = Along(Items0, n, links.next)
    BY ItemCount DEF Json!ChainIn, Along, Goes, Ahead, Json!Refs

\* g is right for walks of up to m nodes.
Right(N, step, g, m) == \A left \in 0..m : g[left] = Ahead(N, step, g, left)

LEMMA OneMore ==
    ASSUME NEW N, NEW step, NEW m \in Nat, NEW g, Right(N, step, g, m)
    PROVE  \E f : Right(N, step, f, m + 1)
<1> DEFINE f == [left \in Nat |-> IF left <= m THEN g[left] ELSE Ahead(N, step, g, left)]
<1>1. ASSUME NEW left \in 0..(m + 1) PROVE Ahead(N, step, f, left) = Ahead(N, step, g, left)
    <2>1. CASE left = 0
        BY <2>1 DEF Ahead
    <2>2. CASE left # 0
        <3>1. left - 1 \in Nat /\ left - 1 <= m
            BY <2>2
        <3>2. f[left - 1] = g[left - 1]
            BY <3>1
        <3> QED BY <3>2 DEF Ahead
    <2> QED BY <2>1, <2>2
<1>2. ASSUME NEW left \in 0..(m + 1) PROVE f[left] = Ahead(N, step, g, left)
    BY DEF Right
<1>3. Right(N, step, f, m + 1)
    BY <1>1, <1>2 DEF Right
<1> QED BY <1>3

LEMMA AnyLength == ASSUME NEW N, NEW step, NEW m \in Nat PROVE \E g : Right(N, step, g, m)
<1> DEFINE Bad == {j \in Nat : ~ \E g : Right(N, step, g, j)}
<1>1. 0 \notin Bad
    <2> DEFINE g == [left \in Nat |-> Ahead(N, step, left, 0)]
    <2>1. g[0] = Ahead(N, step, g, 0)
        BY DEF Ahead
    <2>2. Right(N, step, g, 0)
        BY <2>1 DEF Right
    <2> QED BY <2>2
<1>2. Bad = {}
    <2> SUFFICES ASSUME Bad # {} PROVE FALSE
        OBVIOUS
    <2>1. PICK j \in Bad : \A u \in Bad : j <= u
        BY Least
    <2>2. j # 0 /\ j - 1 \in Nat /\ j - 1 \notin Bad /\ j = (j - 1) + 1
        BY <1>1, <2>1
    <2>3. PICK g : Right(N, step, g, j - 1)
        BY <2>2
    <2>4. \E f : Right(N, step, f, (j - 1) + 1)
        BY <2>2, <2>3, OneMore
    <2> QED BY <2>1, <2>2, <2>4
<1> QED BY <1>2

LEMMA OneAnswer ==
    ASSUME NEW N, NEW step, NEW m \in Nat, NEW f, NEW g, Right(N, step, f, m), Right(N, step, g, m)
    PROVE  \A left \in 0..m : f[left] = g[left]
<1> DEFINE Bad == {j \in 0..m : f[j] # g[j]}
<1> SUFFICES ASSUME Bad # {} PROVE FALSE
    OBVIOUS
<1>1. Bad \in SUBSET Nat
    OBVIOUS
<1> PICK j \in Bad : \A u \in Bad : j <= u
    BY <1>1, Least
<1>2. Ahead(N, step, f, j) = Ahead(N, step, g, j)
    <2>1. CASE j = 0
        BY <2>1 DEF Ahead
    <2>2. CASE j # 0
        <3>1. j - 1 \in 0..m /\ j - 1 \notin Bad
            BY <2>2
        <3>2. f[j - 1] = g[j - 1]
            BY <3>1
        <3> QED BY <3>2 DEF Ahead
    <2> QED BY <2>1, <2>2
<1> QED BY <1>2 DEF Right

\* The recursion has a solution.
LEMMA WalkGoes == ASSUME NEW N, NEW step PROVE \E g : Goes(N, step, g)
<1> DEFINE upTo(m) == CHOOSE g : Right(N, step, g, m)
           G == [left \in Nat |-> upTo(left)[left]]
<1>1. ASSUME NEW m \in Nat PROVE Right(N, step, upTo(m), m)
    BY AnyLength
<1> HIDE DEF upTo
<1>2. ASSUME NEW m \in Nat PROVE G[m] = Ahead(N, step, G, m)
    <2>1. G[m] = Ahead(N, step, upTo(m), m)
        BY <1>1 DEF Right
    <2>2. CASE m = 0
        BY <2>1, <2>2 DEF Ahead
    <2>3. CASE m # 0
        <3>1. m - 1 \in Nat /\ 0..(m - 1) \subseteq 0..m
            BY <2>3
        <3>2. Right(N, step, upTo(m), m - 1) /\ Right(N, step, upTo(m - 1), m - 1)
            BY <1>1, <3>1 DEF Right
        <3>3. upTo(m)[m - 1] = upTo(m - 1)[m - 1]
            BY <3>1, <3>2, OneAnswer
        <3>4. G[m - 1] = upTo(m)[m - 1]
            BY <3>1, <3>3
        <3> QED BY <2>1, <3>4 DEF Ahead
    <2> QED BY <2>2, <2>3
<1>3. G = [left \in Nat |-> Ahead(N, step, G, left)]
    BY <1>2
<1> QED BY <1>3 DEF Goes

\* s is a chain of nodes of N along step, from its start to NULL.
Chain(N, step, s) ==
    /\ s \in Seq(N)
    /\ \A i \in 1..Len(s) : step[s[i]] = IF i = Len(s) THEN NULL ELSE s[i + 1]

FirstOf(s) == IF s = <<>> THEN NULL ELSE s[1]
LastOf(s) == IF s = <<>> THEN NULL ELSE s[Len(s)]

\* A walk from the start of a chain that is no longer than N is large sees just the chain.
LEMMA WalkSees ==
    ASSUME NEW N, IsFiniteSet(N), NULL \notin N, NEW step, NEW s, Chain(N, step, s), Len(s) <= Cardinality(N)
    PROVE  Along(N, FirstOf(s), step) = s
<1>1. PICK g : g = CHOOSE f : Goes(N, step, f)
    OBVIOUS
<1>2. Goes(N, step, g)
    BY <1>1, WalkGoes
<1>3. PICK C, L : C = Cardinality(N) /\ L = Len(s)
    OBVIOUS
<1>4. C \in Nat /\ L \in Nat /\ L <= C /\ s \in Seq(N) /\ s \in [1..L -> N]
    BY <1>3, FS_CardinalityType, LenProperties DEF Chain
<1>5. PICK rest : rest = [i \in 0..L |-> IF i = L THEN NULL ELSE s[i + 1]]
    OBVIOUS
<1>6. PICK Bad : Bad = {i \in 0..L : g[C - i][rest[i]] # SubSeq(s, i + 1, L)}
    OBVIOUS
<1>7. \A i \in 0..L : C - i \in Nat
    BY <1>4
<1>8. \A i \in 0..L : g[C - i] = Ahead(N, step, g, C - i)
    BY <1>2, <1>7 DEF Goes
<1>9. L \in 0..L /\ L \notin Bad
    <2>1. L \in 0..L /\ rest[L] = NULL
        BY <1>4, <1>5
    <2>2. SubSeq(s, L + 1, L) = <<>>
        <3>1. L + 1 \in Int /\ L \in Int /\ L < L + 1
            BY <1>4
        <3> QED BY <3>1, SubSeqEmpty
    <2>3. g[C - L][NULL] = <<>>
        BY <1>8, <2>1 DEF Ahead
    <2> QED BY <1>6, <2>1, <2>2, <2>3
<1>10. ASSUME NEW i \in 0..L, i # L, i + 1 \notin Bad PROVE i \notin Bad
    <2>1. i + 1 \in 1..L /\ i + 1 \in 0..L /\ C - i # 0 /\ (C - i) - 1 = C - (i + 1) /\ L \in (i + 1)..L
        BY <1>4, <1>10
    <2>2. s[i + 1] \in N /\ rest[i] = s[i + 1]
        BY <1>4, <1>5, <1>10, <2>1
    <2>3. step[s[i + 1]] = rest[i + 1]
        BY <1>3, <1>5, <2>1 DEF Chain
    <2>4. g[C - i][s[i + 1]] = <<s[i + 1]>> \o g[C - (i + 1)][rest[i + 1]]
        <3>1. Ahead(N, step, g, C - i)[s[i + 1]] = <<s[i + 1]>> \o g[(C - i) - 1][step[s[i + 1]]]
            BY <2>1, <2>2 DEF Ahead
        <3> QED BY <1>8, <2>1, <2>3, <3>1
    <2>5. g[C - (i + 1)][rest[i + 1]] = SubSeq(s, (i + 1) + 1, L)
        BY <1>6, <1>10, <2>1
    <2>6. SubSeq(s, i + 1, L) = <<s[i + 1]>> \o SubSeq(s, (i + 1) + 1, L)
        BY <1>3, <1>4, <2>1, SubSeqRecursiveFirst
    <2> QED BY <1>6, <2>2, <2>4, <2>5, <2>6
<1>11. ASSUME Bad # {} PROVE FALSE
    <2>1. Bad \in SUBSET (0..L)
        BY <1>6
    <2>2. PICK i \in Bad : \A u \in Bad : u <= i
        BY <1>4, <1>11, <2>1, Most
    <2>3. i \in 0..L /\ i # L /\ i + 1 \notin Bad
        BY <1>9, <2>1, <2>2
    <2> QED BY <1>10, <2>2, <2>3
<1>12. 0 \in 0..L /\ C - 0 = C /\ 0 + 1 = 1
    BY <1>4
<1>13. g[C][rest[0]] = SubSeq(s, 1, L)
    BY <1>6, <1>11, <1>12
<1>14. SubSeq(s, 1, L) = s
    BY <1>3, <1>4, SubSeqFull
<1>15. rest[0] = FirstOf(s)
    <2>1. (L = 0) = (s = <<>>)
        BY <1>3, <1>4, EmptySeq
    <2> QED BY <1>5, <1>12, <2>1 DEF FirstOf
<1> QED BY <1>1, <1>3, <1>13, <1>14, <1>15 DEF Along

LEMMA Fits == ASSUME NEW N, IsFiniteSet(N), NEW s \in Seq(N), IsInjective(s) PROVE Len(s) <= Cardinality(N)
<1>1. Len(s) \in Nat /\ s \in [1..Len(s) -> N]
    BY LenProperties
<1>2. s \in Injection(1..Len(s), N)
    BY <1>1 DEF Injection
<1>3. Cardinality(1..Len(s)) <= Cardinality(N)
    BY <1>2, FS_Injection
<1>4. Cardinality(1..Len(s)) = Len(s)
    BY <1>1, FS_Interval
<1> QED BY <1>3, <1>4

\* What insertion and removal do to a sequence.
LEMMA Inserted ==
    ASSUME NEW N, NEW s \in Seq(N), NEW n \in N, NEW i \in 1..(Len(s) + 1)
    PROVE  /\ InsertAt(s, i, n) \in Seq(N)
           /\ Len(InsertAt(s, i, n)) = Len(s) + 1
           /\ \A j \in 1..(Len(s) + 1) :
                InsertAt(s, i, n)[j] = IF j < i THEN s[j] ELSE IF j = i THEN n ELSE s[j - 1]
<1>1. PICK L : L = Len(s)
    OBVIOUS
<1>2. L \in Nat /\ s \in [1..L -> N] /\ i \in Nat /\ i >= 1 /\ i <= L + 1
    BY <1>1, LenProperties
<1>3. PICK a : a = SubSeq(s, 1, i - 1)
    OBVIOUS
<1>4. PICK b : b = SubSeq(s, i, L)
    OBVIOUS
<1>5. a \in Seq(N) /\ Len(a) = i - 1 /\ \A j \in 1..(i - 1) : a[j] = s[j]
    <2>1. \A j \in 1..(i - 1) : s[j] \in N
        BY <1>2
    <2>2. a \in Seq(N) /\ Len(a) = (IF 1 <= i - 1 THEN (i - 1) - 1 + 1 ELSE 0) /\ \A j \in 1..((i - 1) - 1 + 1) : a[j] = s[1 + j - 1]
        BY <1>2, <1>3, <2>1, SubSeqProperties
    <2> QED BY <1>2, <2>2
<1>6. b \in Seq(N) /\ Len(b) = L - i + 1 /\ \A j \in 1..(L - i + 1) : b[j] = s[i + j - 1]
    <2>1. \A j \in i..L : s[j] \in N
        BY <1>2
    <2>2. b \in Seq(N) /\ Len(b) = (IF i <= L THEN L - i + 1 ELSE 0) /\ \A j \in 1..(L - i + 1) : b[j] = s[i + j - 1]
        BY <1>2, <1>4, <2>1, SubSeqProperties
    <2> QED BY <1>2, <2>2
<1>7. <<n>> \in Seq(N) /\ Len(<<n>>) = 1 /\ <<n>>[1] = n
    OBVIOUS
<1>8. PICK c : c = a \o <<n>>
    OBVIOUS
<1>9. c \in Seq(N) /\ Len(c) = i /\ \A j \in 1..i : c[j] = IF j < i THEN s[j] ELSE n
    <2>1. c \in Seq(N) /\ Len(c) = Len(a) + 1 /\ \A j \in 1..(Len(a) + 1) : c[j] = IF j <= Len(a) THEN a[j] ELSE <<n>>[j - Len(a)]
        BY <1>5, <1>7, <1>8, ConcatProperties
    <2>2. ASSUME NEW j \in 1..i PROVE c[j] = IF j < i THEN s[j] ELSE n
        <3>1. CASE j < i
            BY <1>2, <1>5, <2>1, <3>1
        <3>2. CASE j = i
            BY <1>2, <1>5, <1>7, <2>1, <3>2
        <3> QED BY <1>2, <3>1, <3>2
    <2> QED BY <1>2, <1>5, <2>1, <2>2
<1>10. InsertAt(s, i, n) = c \o b
    BY <1>1, <1>3, <1>4, <1>8 DEF InsertAt
<1>11. c \o b \in Seq(N) /\ Len(c \o b) = i + Len(b) /\ \A j \in 1..(i + Len(b)) : (c \o b)[j] = IF j <= i THEN c[j] ELSE b[j - i]
    BY <1>6, <1>9, ConcatProperties
<1>12. ASSUME NEW j \in 1..(L + 1) PROVE (c \o b)[j] = IF j < i THEN s[j] ELSE IF j = i THEN n ELSE s[j - 1]
    <2>1. j \in 1..(i + Len(b))
        BY <1>2, <1>6
    <2>2. CASE j <= i
        BY <1>2, <1>9, <1>11, <2>1, <2>2
    <2>3. CASE j > i
        <3>1. j - i \in 1..(L - i + 1) /\ i + (j - i) - 1 = j - 1
            BY <1>2, <2>3
        <3>2. b[j - i] = s[j - 1]
            BY <1>6, <3>1
        <3> QED BY <1>2, <1>11, <2>1, <2>3, <3>2
    <2>4. j <= i \/ j > i
        BY <1>2
    <2> QED BY <2>2, <2>3, <2>4
<1> QED BY <1>1, <1>2, <1>6, <1>10, <1>11, <1>12

LEMMA Removed ==
    ASSUME NEW N, NEW s \in Seq(N), NEW i \in 1..Len(s)
    PROVE  /\ RemoveAt(s, i) \in Seq(N)
           /\ Len(RemoveAt(s, i)) = Len(s) - 1
           /\ \A j \in 1..(Len(s) - 1) : RemoveAt(s, i)[j] = IF j < i THEN s[j] ELSE s[j + 1]
<1>1. PICK L : L = Len(s)
    OBVIOUS
<1>2. L \in Nat /\ s \in [1..L -> N] /\ i \in Nat /\ i >= 1 /\ i <= L
    BY <1>1, LenProperties
<1>3. PICK a : a = SubSeq(s, 1, i - 1)
    OBVIOUS
<1>4. PICK b : b = SubSeq(s, i + 1, L)
    OBVIOUS
<1>5. a \in Seq(N) /\ Len(a) = i - 1 /\ \A j \in 1..(i - 1) : a[j] = s[j]
    <2>1. \A j \in 1..(i - 1) : s[j] \in N
        BY <1>2
    <2>2. a \in Seq(N) /\ Len(a) = (IF 1 <= i - 1 THEN (i - 1) - 1 + 1 ELSE 0) /\ \A j \in 1..((i - 1) - 1 + 1) : a[j] = s[1 + j - 1]
        BY <1>2, <1>3, <2>1, SubSeqProperties
    <2> QED BY <1>2, <2>2
<1>6. b \in Seq(N) /\ Len(b) = L - i /\ \A j \in 1..(L - i) : b[j] = s[i + j]
    <2>1. \A j \in (i + 1)..L : s[j] \in N
        BY <1>2
    <2>2. b \in Seq(N) /\ Len(b) = (IF i + 1 <= L THEN L - (i + 1) + 1 ELSE 0) /\ \A j \in 1..(L - (i + 1) + 1) : b[j] = s[(i + 1) + j - 1]
        BY <1>2, <1>4, <2>1, SubSeqProperties
    <2> QED BY <1>2, <2>2
<1>7. RemoveAt(s, i) = a \o b
    BY <1>1, <1>3, <1>4 DEF RemoveAt
<1>8. a \o b \in Seq(N) /\ Len(a \o b) = Len(a) + Len(b)
      /\ \A j \in 1..(Len(a) + Len(b)) : (a \o b)[j] = IF j <= Len(a) THEN a[j] ELSE b[j - Len(a)]
    BY <1>5, <1>6, ConcatProperties
<1>9. ASSUME NEW j \in 1..(L - 1) PROVE (a \o b)[j] = IF j < i THEN s[j] ELSE s[j + 1]
    <2>1. j \in 1..(Len(a) + Len(b))
        BY <1>2, <1>5, <1>6
    <2>2. CASE j < i
        BY <1>2, <1>5, <1>8, <2>1, <2>2
    <2>3. CASE j >= i
        <3>1. j - (i - 1) \in 1..(L - i) /\ i + (j - (i - 1)) = j + 1
            BY <1>2, <2>3
        <3>2. b[j - (i - 1)] = s[j + 1]
            BY <1>6, <3>1
        <3> QED BY <1>2, <1>5, <1>8, <2>1, <2>3, <3>2
    <2>4. j < i \/ j >= i
        BY <1>2
    <2> QED BY <2>2, <2>3, <2>4
<1> QED BY <1>1, <1>2, <1>5, <1>6, <1>7, <1>8, <1>9

-----------------------------------------------------------------------------
(* list.c                                                                  *)

\* s is what nx and pv link, from h to t, all of it in A.
LinkedBy(s, A, h1, t1, nx, pv) ==
    /\ s \in Seq(A) /\ h1 = FirstOf(s) /\ t1 = LastOf(s)
    /\ \A i, j \in 1..Len(s) : s[i] = s[j] => i = j
    /\ \A i \in 1..Len(s) : nx[s[i]] = IF i = Len(s) THEN NULL ELSE s[i + 1]
    /\ \A i \in 1..Len(s) : pv[s[i]] = IF i = 1 THEN NULL ELSE s[i - 1]

FieldsTyped ==
    /\ exists \in BOOLEAN /\ alive \subseteq Nodes
    /\ prev \in [Nodes -> Refs] /\ next \in [Nodes -> Refs] /\ val \in [Nodes -> Vals \cup {NULL}]

ListInv ==
    /\ FieldsTyped
    /\ IF exists THEN \E s : LinkedBy(s, alive, head, tail, next, prev) /\ len = Len(s)
                 ELSE head = NULL /\ tail = NULL /\ len = 0

\* The walk in either direction.
LEMMA BothWays ==
    ASSUME NEW A, A \subseteq Nodes, NEW s, NEW h1, NEW t1, NEW nx, NEW pv, LinkedBy(s, A, h1, t1, nx, pv)
    PROVE  /\ s \in Seq(Nodes) /\ IsInjective(s) /\ Len(s) <= Cardinality(Nodes)
           /\ Walk(h1, nx) = s /\ Walk(t1, pv) = Reverse(s)
<1>1. s \in Seq(Nodes) /\ Len(s) \in Nat /\ DOMAIN s = 1..Len(s) /\ s \in [1..Len(s) -> Nodes]
    <2>1. s \in Seq(Nodes)
        BY SeqMonotonic, SMTT(30) DEF LinkedBy
    <2> QED BY <2>1, LenProperties
<1>2. IsInjective(s)
    BY <1>1 DEF IsInjective, LinkedBy
<1>3. Len(s) <= Cardinality(Nodes)
    BY <1>1, <1>2, Fits, NodeAssumption
<1>4. Walk(h1, nx) = s
    <2>1. Chain(Nodes, nx, s)
        BY <1>1 DEF LinkedBy, Chain
    <2>2. Along(Nodes, FirstOf(s), nx) = s
        BY <1>3, <2>1, WalkSees, NodeAssumption
    <2>3. h1 = FirstOf(s)
        BY DEF LinkedBy
    <2> QED BY <2>2, <2>3, ListWalk, SMTT(30)
<1>5. Walk(t1, pv) = Reverse(s)
    <2>1. PICK r : r = Reverse(s)
        OBVIOUS
    <2>2. PICK L : L = Len(s)
        OBVIOUS
    <2>3. L \in Nat /\ r = [i \in 1..L |-> s[(L - i) + 1]]
        BY <1>1, <2>1, <2>2 DEF Reverse
    <2>4. r \in Seq(Nodes) /\ Len(r) = L
        BY <1>1, <2>2, <2>3
    <2>5. ASSUME NEW i \in 1..L PROVE pv[r[i]] = IF i = L THEN NULL ELSE r[i + 1]
        <3>1. (L - i) + 1 \in 1..L /\ r[i] = s[(L - i) + 1]
            BY <2>3
        <3>2. pv[r[i]] = IF (L - i) + 1 = 1 THEN NULL ELSE s[((L - i) + 1) - 1]
            BY <2>2, <3>1 DEF LinkedBy
        <3>3. CASE i = L
            BY <2>3, <3>2, <3>3
        <3>4. CASE i # L
            <4>1. i + 1 \in 1..L /\ ((L - i) + 1) - 1 = (L - (i + 1)) + 1 /\ (L - i) + 1 # 1
                BY <2>3, <3>4
            <4> QED BY <2>3, <3>2, <3>4, <4>1
        <3> QED BY <3>3, <3>4
    <2>6. Chain(Nodes, pv, r)
        BY <2>4, <2>5 DEF Chain
    <2>7. FirstOf(r) = t1
        <3>1. CASE L = 0
            <4>1. s = <<>> /\ r = <<>>
                BY <1>1, <2>2, <2>4, <3>1, EmptySeq
            <4> QED BY <4>1 DEF FirstOf, LastOf, LinkedBy
        <3>2. CASE L # 0
            <4>1. s # <<>> /\ r # <<>>
                BY <1>1, <2>2, <2>4, <3>2, EmptySeq
            <4>2. 1 \in 1..L /\ (L - 1) + 1 = L
                BY <2>3, <3>2
            <4>3. r[1] = s[L]
                BY <2>3, <4>2
            <4> QED BY <2>2, <4>1, <4>3 DEF FirstOf, LastOf, LinkedBy
        <3> QED BY <3>1, <3>2
    <2> QED BY <1>3, <2>1, <2>2, <2>4, <2>6, <2>7, WalkSees, ListWalk, NodeAssumption
<1> QED BY <1>1, <1>2, <1>3, <1>4, <1>5

\* The links once n, a node of the list, is bridged.
Bridged(n, A, h1, t1, nx, pv, h2, t2, nx2, pv2) ==
    /\ \A m \in A \ {n} : nx2[m] = (IF m = pv[n] THEN nx[n] ELSE nx[m])
                       /\ pv2[m] = (IF m = nx[n] THEN pv[n] ELSE pv[m])
    /\ h2 = (IF pv[n] = NULL THEN nx[n] ELSE h1) /\ t2 = (IF nx[n] = NULL THEN pv[n] ELSE t1)

LEMMA TakenOut ==
    ASSUME NEW A, NEW s, NEW h1, NEW t1, NEW nx, NEW pv, LinkedBy(s, A, h1, t1, nx, pv), NULL \notin A,
           NEW i \in 1..Len(s), NEW B, A \ {s[i]} \subseteq B,
           NEW h2, NEW t2, NEW nx2, NEW pv2, Bridged(s[i], A, h1, t1, nx, pv, h2, t2, nx2, pv2)
    PROVE  LinkedBy(RemoveAt(s, i), B, h2, t2, nx2, pv2)
<1> PICK n, r : n = s[i] /\ r = RemoveAt(s, i)
    OBVIOUS
<1> USE DEF Bridged
<1>1. PICK L : L = Len(s)
    OBVIOUS
<1>2. L \in Nat /\ s \in Seq(A) /\ s \in [1..L -> A] /\ i \in Nat /\ i >= 1 /\ i <= L /\ s # <<>>
    <2>1. s \in Seq(A)
        BY DEF LinkedBy
    <2> QED BY <1>1, <2>1, LenProperties, EmptySeq
<1>3. r \in Seq(A) /\ Len(r) = L - 1 /\ \A j \in 1..(L - 1) : r[j] = IF j < i THEN s[j] ELSE s[j + 1]
    BY <1>1, <1>2, Removed, SMTT(30)
<1>4. \A a, b \in 1..L : s[a] = s[b] => a = b
    BY <1>1 DEF LinkedBy
<1>5. nx[n] = (IF i = L THEN NULL ELSE s[i + 1]) /\ pv[n] = (IF i = 1 THEN NULL ELSE s[i - 1])
    BY <1>1 DEF LinkedBy
<1>6. \A j \in 1..(L - 1) : r[j] \in A /\ r[j] # n
    BY <1>2, <1>3, <1>4
<1>7. r \in Seq(B)
    <2>1. r \in [1..(L - 1) -> A] /\ L - 1 \in Nat
        BY <1>2, <1>3, LenProperties
    <2>2. r \in [1..(L - 1) -> B]
        BY <1>6, <2>1
    <2> QED BY <2>1, <2>2
<1>8. \A a, b \in 1..(L - 1) : r[a] = r[b] => a = b
    BY <1>2, <1>3, <1>4
<1>9. ASSUME NEW j \in 1..(L - 1) PROVE nx2[r[j]] = IF j = L - 1 THEN NULL ELSE r[j + 1]
    <2>1. nx2[r[j]] = IF r[j] = pv[n] THEN nx[n] ELSE nx[r[j]]
        BY <1>6
    <2>2. CASE j < i - 1
        <3>1. j \in 1..L /\ j # L /\ j < i /\ j + 1 < i /\ j + 1 \in 1..(L - 1) /\ i - 1 \in 1..L /\ i # 1
            BY <1>2, <2>2
        <3>2. nx[s[j]] = s[j + 1] /\ s[j] # s[i - 1]
            BY <1>1, <1>4, <2>2, <3>1 DEF LinkedBy
        <3>3. r[j] = s[j] /\ r[j + 1] = s[j + 1]
            BY <1>3, <3>1
        <3>4. j # L - 1
            BY <1>2, <3>1
        <3> QED BY <1>5, <2>1, <3>1, <3>2, <3>3, <3>4
    <2>3. CASE j = i - 1
        <3>1. r[j] = s[i - 1] /\ i # 1 /\ (j = L - 1) = (i = L)
            BY <1>2, <1>3, <2>3
        <3>2. CASE i = L
            BY <1>5, <2>1, <3>1, <3>2
        <3>3. CASE i # L
            <4>1. j + 1 \in 1..(L - 1) /\ ~(j + 1 < i) /\ (j + 1) + 1 = i + 1
                BY <1>2, <2>3, <3>3
            <4>2. r[j + 1] = s[i + 1]
                BY <1>3, <4>1
            <4> QED BY <1>5, <2>1, <3>1, <3>3, <4>2
        <3> QED BY <3>2, <3>3
    <2>4. CASE j >= i
        <3>1. j + 1 \in 1..L /\ ~(j < i) /\ (j = L - 1) = (j + 1 = L) /\ (i # 1 => i - 1 \in 1..L /\ i - 1 # j + 1)
            BY <1>2, <2>4
        <3>2. r[j] = s[j + 1] /\ r[j] # pv[n]
            <4>1. r[j] = s[j + 1]
                BY <1>3, <3>1
            <4>2. CASE i = 1
                BY <1>5, <1>6, <4>1, <4>2
            <4>3. CASE i # 1
                BY <1>4, <1>5, <3>1, <4>1, <4>3
            <4> QED BY <4>1, <4>2, <4>3
        <3>3. nx[s[j + 1]] = IF j + 1 = L THEN NULL ELSE s[(j + 1) + 1]
            BY <1>1, <3>1 DEF LinkedBy
        <3>4. CASE j = L - 1
            BY <2>1, <3>1, <3>2, <3>3, <3>4
        <3>5. CASE j # L - 1
            <4>1. j + 1 \in 1..(L - 1) /\ ~(j + 1 < i)
                BY <1>2, <2>4, <3>5
            <4>2. r[j + 1] = s[(j + 1) + 1]
                BY <1>3, <4>1
            <4> QED BY <2>1, <3>1, <3>2, <3>3, <3>5, <4>2
        <3> QED BY <3>4, <3>5
    <2>5. j < i - 1 \/ j = i - 1 \/ j >= i
        BY <1>2
    <2> QED BY <2>2, <2>3, <2>4, <2>5
<1>10. ASSUME NEW j \in 1..(L - 1) PROVE pv2[r[j]] = IF j = 1 THEN NULL ELSE r[j - 1]
    <2>1. pv2[r[j]] = IF r[j] = nx[n] THEN pv[n] ELSE pv[r[j]]
        BY <1>6
    <2>2. CASE j < i
        <3>1. j \in 1..L /\ r[j] = s[j]
            BY <1>2, <1>3, <2>2
        <3>2. r[j] # nx[n]
            <4>1. CASE i = L
                BY <1>5, <1>6, <4>1
            <4>2. CASE i # L
                <5>1. i + 1 \in 1..L /\ i + 1 # j
                    BY <1>2, <2>2, <4>2
                <5> QED BY <1>4, <1>5, <3>1, <4>2, <5>1
            <4> QED BY <4>1, <4>2
        <3>3. pv[s[j]] = IF j = 1 THEN NULL ELSE s[j - 1]
            BY <1>1, <3>1 DEF LinkedBy
        <3>4. j # 1 => j - 1 \in 1..(L - 1) /\ j - 1 < i
            BY <1>2, <2>2
        <3>5. j # 1 => r[j - 1] = s[j - 1]
            BY <1>3, <3>4
        <3> QED BY <2>1, <3>1, <3>2, <3>3, <3>5
    <2>3. CASE j = i
        <3>1. r[j] = s[i + 1] /\ i # L
            BY <1>2, <1>3, <2>3
        <3>2. pv2[r[j]] = pv[n]
            BY <1>5, <2>1, <3>1
        <3>3. j # 1 => j - 1 \in 1..(L - 1) /\ j - 1 < i
            BY <1>2, <2>3
        <3>4. j # 1 => r[j - 1] = s[j - 1]
            BY <1>3, <3>3
        <3> QED BY <1>5, <2>3, <3>2, <3>4
    <2>4. CASE j > i
        <3>1. j + 1 \in 1..L /\ ~(j < i) /\ j # 1 /\ j - 1 \in 1..(L - 1) /\ ~(j - 1 < i) /\ (j - 1) + 1 = j /\ (j + 1) - 1 = j /\ j + 1 # 1
            BY <1>2, <2>4
        <3>2. r[j] = s[j + 1] /\ r[j - 1] = s[j]
            BY <1>3, <3>1
        <3>3. r[j] # nx[n]
            <4>1. CASE i = L
                BY <1>5, <1>6, <4>1
            <4>2. CASE i # L
                <5>1. i + 1 \in 1..L /\ i + 1 # j + 1
                    BY <1>2, <2>4, <4>2
                <5> QED BY <1>4, <1>5, <3>1, <3>2, <4>2, <5>1
            <4> QED BY <4>1, <4>2
        <3>4. pv[s[j + 1]] = s[j]
            BY <1>1, <3>1 DEF LinkedBy
        <3> QED BY <2>1, <3>1, <3>2, <3>3, <3>4
    <2>5. j < i \/ j = i \/ j > i
        BY <1>2
    <2> QED BY <2>2, <2>3, <2>4, <2>5
<1>11. (r = <<>>) = (L = 1)
    BY <1>2, <1>3, EmptySeq
<1>12. h2 = FirstOf(r)
    <2>1. h1 = s[1]
        BY <1>2 DEF LinkedBy, FirstOf
    <2>2. CASE L = 1
        BY <1>2, <1>5, <1>11, <2>2 DEF FirstOf
    <2>3. CASE L # 1
        <3>1. 1 \in 1..(L - 1) /\ 1 \in 1..L /\ (i = 1 => i # L) /\ (i # 1 => 1 < i /\ i - 1 \in 1..L)
            BY <1>2, <2>3
        <3>2. r[1] = IF i = 1 THEN s[2] ELSE s[1]
            BY <1>2, <1>3, <3>1
        <3>3. (pv[n] = NULL) = (i = 1)
            BY <1>2, <1>5, <3>1
        <3> QED BY <1>5, <1>11, <2>1, <2>3, <3>1, <3>2, <3>3 DEF FirstOf
    <2> QED BY <2>2, <2>3
<1>13. t2 = LastOf(r)
    <2>1. t1 = s[L]
        BY <1>1, <1>2 DEF LinkedBy, LastOf
    <2>2. CASE L = 1
        BY <1>2, <1>5, <1>11, <2>2 DEF LastOf
    <2>3. CASE L # 1
        <3>1. L - 1 \in 1..(L - 1) /\ (i = L => L - 1 < i /\ i # 1) /\ (i # L => ~(L - 1 < i) /\ i + 1 \in 1..L) /\ (L - 1) + 1 = L
            BY <1>2, <2>3
        <3>2. r[L - 1] = IF i = L THEN s[L - 1] ELSE s[L]
            BY <1>3, <3>1
        <3>3. (nx[n] = NULL) = (i = L)
            BY <1>2, <1>5, <3>1
        <3> QED BY <1>3, <1>5, <1>11, <2>1, <2>3, <3>1, <3>2, <3>3 DEF LastOf
    <2> QED BY <2>2, <2>3
<1> QED BY <1>3, <1>7, <1>8, <1>9, <1>10, <1>12, <1>13 DEF LinkedBy

LEMMA PutIn ==
    ASSUME NEW A, NEW s, NEW h1, NEW t1, NEW nx, NEW pv, LinkedBy(s, A, h1, t1, nx, pv), NULL \notin A,
           NEW i \in 1..(Len(s) + 1), NEW n \in A, \A j \in 1..Len(s) : s[j] # n,
           NEW r, r = InsertAt(s, i, n), NEW h2, NEW t2, NEW nx2, NEW pv2,
           NEW before, before = (IF i = 1 THEN NULL ELSE s[i - 1]),
           NEW after, after = (IF i = Len(s) + 1 THEN NULL ELSE s[i]),
           \A m \in A : nx2[m] = (IF m = n THEN after ELSE IF m = before THEN n ELSE nx[m])
                      /\ pv2[m] = (IF m = n THEN before ELSE IF m = after THEN n ELSE pv[m]),
           h2 = (IF i = 1 THEN n ELSE h1), t2 = (IF i = Len(s) + 1 THEN n ELSE t1)
    PROVE  LinkedBy(r, A, h2, t2, nx2, pv2)
<1>1. PICK L : L = Len(s)
    OBVIOUS
<1>2. L \in Nat /\ s \in Seq(A) /\ s \in [1..L -> A] /\ i \in Nat /\ i >= 1 /\ i <= L + 1
    <2>1. s \in Seq(A)
        BY DEF LinkedBy
    <2> QED BY <1>1, <2>1, LenProperties
<1>3. r \in Seq(A) /\ Len(r) = L + 1
      /\ \A j \in 1..(L + 1) : r[j] = IF j < i THEN s[j] ELSE IF j = i THEN n ELSE s[j - 1]
    <2>1. s \in Seq(A)
        BY <1>2
    <2>2. /\ InsertAt(s, i, n) \in Seq(A)
          /\ Len(InsertAt(s, i, n)) = Len(s) + 1
          /\ \A j \in 1..(Len(s) + 1) :
               InsertAt(s, i, n)[j] = IF j < i THEN s[j] ELSE IF j = i THEN n ELSE s[j - 1]
        BY <2>1, Inserted, SMTT(30)
    <2> QED BY <1>1, <2>2
<1>4. \A a, b \in 1..L : s[a] = s[b] => a = b
    BY <1>1 DEF LinkedBy
<1>5. \A j \in 1..(L + 1) : r[j] \in A
    BY <1>2, <1>3
<1>6. \A j \in 1..L : s[j] # n /\ s[j] # NULL /\ s[j] \in A
    BY <1>1, <1>2
<1>7. \A a, b \in 1..(L + 1) : r[a] = r[b] => a = b
    BY <1>2, <1>3, <1>4, <1>6
<1>8. ASSUME NEW j \in 1..(L + 1) PROVE nx2[r[j]] = IF j = L + 1 THEN NULL ELSE r[j + 1]
    <2>1. nx2[r[j]] = IF r[j] = n THEN after ELSE IF r[j] = before THEN n ELSE nx[r[j]]
        BY <1>5
    <2>2. CASE j < i - 1
        <3>1. j \in 1..L /\ j # L /\ j # L + 1 /\ j + 1 \in 1..(L + 1) /\ j < i /\ j + 1 < i /\ i # 1 /\ i - 1 \in 1..L /\ i - 1 # j
            BY <1>2, <2>2
        <3>2. r[j] = s[j] /\ r[j + 1] = s[j + 1]
            BY <1>3, <3>1
        <3>3. s[j] # before
            BY <1>4, <3>1
        <3>4. nx[s[j]] = s[j + 1]
            BY <1>1, <3>1 DEF LinkedBy
        <3> QED BY <1>6, <2>1, <3>1, <3>2, <3>3, <3>4
    <2>3. CASE j = i - 1
        <3>1. j \in 1..L /\ j # L + 1 /\ j + 1 \in 1..(L + 1) /\ j < i /\ j + 1 = i /\ ~(j + 1 < i) /\ i # 1
            BY <1>2, <2>3
        <3>2. r[j] = s[j] /\ r[j + 1] = n /\ before = s[j]
            BY <1>3, <2>3, <3>1
        <3> QED BY <1>6, <2>1, <3>1, <3>2
    <2>4. CASE j = i
        <3>1. ~(j < i) /\ (j # L + 1 => j + 1 \in 1..(L + 1) /\ ~(j + 1 < i) /\ j + 1 # i /\ (j + 1) - 1 = i)
            BY <1>2, <2>4
        <3>2. r[j] = n /\ (j # L + 1 => r[j + 1] = s[i])
            BY <1>3, <2>4, <3>1
        <3> QED BY <1>1, <2>1, <2>4, <3>2
    <2>5. CASE j > i
        <3>1. j - 1 \in 1..L /\ ~(j < i) /\ j # i /\ (j = L + 1) = (j - 1 = L) /\ (j - 1) + 1 = j
              /\ (j # L + 1 => j + 1 \in 1..(L + 1) /\ ~(j + 1 < i) /\ j + 1 # i /\ (j + 1) - 1 = j)
              /\ (i # 1 => i - 1 \in 1..L /\ i - 1 # j - 1)
            BY <1>2, <2>5
        <3>2. r[j] = s[j - 1] /\ (j # L + 1 => r[j + 1] = s[j])
            BY <1>3, <3>1
        <3>3. s[j - 1] # before
            <4>1. CASE i = 1
                BY <1>6, <3>1, <4>1
            <4>2. CASE i # 1
                BY <1>4, <3>1, <4>2
            <4> QED BY <4>1, <4>2
        <3>4. nx[s[j - 1]] = IF j - 1 = L THEN NULL ELSE s[(j - 1) + 1]
            BY <1>1, <3>1 DEF LinkedBy
        <3> QED BY <1>6, <2>1, <3>1, <3>2, <3>3, <3>4
    <2>6. j < i - 1 \/ j = i - 1 \/ j = i \/ j > i
        BY <1>2
    <2> QED BY <2>2, <2>3, <2>4, <2>5, <2>6
<1>9. ASSUME NEW j \in 1..(L + 1) PROVE pv2[r[j]] = IF j = 1 THEN NULL ELSE r[j - 1]
    <2>1. pv2[r[j]] = IF r[j] = n THEN before ELSE IF r[j] = after THEN n ELSE pv[r[j]]
        BY <1>5
    <2>2. CASE j < i
        <3>1. j \in 1..L /\ (j # 1 => j - 1 \in 1..(L + 1) /\ j - 1 < i) /\ (i # L + 1 => i \in 1..L /\ i # j)
            BY <1>2, <2>2
        <3>2. r[j] = s[j] /\ (j # 1 => r[j - 1] = s[j - 1])
            BY <1>3, <2>2, <3>1
        <3>3. s[j] # after
            <4>1. CASE i = L + 1
                BY <1>1, <1>6, <3>1, <4>1
            <4>2. CASE i # L + 1
                BY <1>1, <1>4, <3>1, <4>2
            <4> QED BY <4>1, <4>2
        <3>4. pv[s[j]] = IF j = 1 THEN NULL ELSE s[j - 1]
            BY <1>1, <3>1 DEF LinkedBy
        <3> QED BY <1>6, <2>1, <3>1, <3>2, <3>3, <3>4
    <2>3. CASE j = i
        <3>1. ~(j < i) /\ (j # 1 => j - 1 \in 1..(L + 1) /\ j - 1 < i)
            BY <1>2, <2>3
        <3>2. r[j] = n /\ (j # 1 => r[j - 1] = s[j - 1])
            BY <1>3, <2>3, <3>1
        <3> QED BY <2>1, <2>3, <3>2
    <2>4. CASE j = i + 1
        <3>1. i \in 1..L /\ i # L + 1 /\ ~(j < i) /\ j # i /\ j - 1 = i /\ j # 1 /\ i \in 1..(L + 1) /\ ~(i < i)
            BY <1>2, <2>4
        <3>2. r[j] = s[i] /\ r[j - 1] = n /\ after = s[i]
            BY <1>1, <1>3, <3>1
        <3> QED BY <1>6, <2>1, <3>1, <3>2
    <2>5. CASE j > i + 1
        <3>1. j - 1 \in 1..L /\ j - 1 # 1 /\ j # 1 /\ ~(j < i) /\ j # i /\ j - 1 \in 1..(L + 1) /\ ~(j - 1 < i) /\ j - 1 # i
              /\ i \in 1..L /\ i # L + 1
            BY <1>2, <2>5
        <3>2. r[j] = s[j - 1] /\ r[j - 1] = s[(j - 1) - 1]
            BY <1>3, <3>1
        <3>3. s[j - 1] # after
            BY <1>1, <1>4, <3>1
        <3>4. pv[s[j - 1]] = s[(j - 1) - 1]
            BY <1>1, <3>1 DEF LinkedBy
        <3> QED BY <1>6, <2>1, <3>1, <3>2, <3>3, <3>4
    <2>6. j < i \/ j = i \/ j = i + 1 \/ j > i + 1
        BY <1>2
    <2> QED BY <2>2, <2>3, <2>4, <2>5, <2>6
<1>10. r # <<>> /\ (s = <<>>) = (L = 0)
    BY <1>1, <1>2, <1>3, EmptySeq
<1>11. h2 = FirstOf(r)
    <2>1. CASE i = 1
        BY <1>2, <1>3, <1>10, <2>1 DEF FirstOf
    <2>2. CASE i # 1
        <3>1. 1 \in 1..(L + 1) /\ 1 < i /\ L # 0
            BY <1>2, <2>2
        <3> QED BY <1>3, <1>10, <2>2, <3>1 DEF FirstOf, LinkedBy
    <2> QED BY <2>1, <2>2
<1>12. t2 = LastOf(r)
    <2>1. L + 1 \in 1..(L + 1) /\ ~(L + 1 < i) /\ (L + 1) - 1 = L /\ (i # L + 1 => L # 0)
        BY <1>2
    <2>2. r[L + 1] = IF L + 1 = i THEN n ELSE s[L]
        BY <1>3, <2>1
    <2> QED BY <1>1, <1>3, <1>10, <2>1, <2>2 DEF LastOf, LinkedBy
<1> QED BY <1>3, <1>7, <1>8, <1>9, <1>11, <1>12 DEF LinkedBy

\* The list as it is, if it exists.
Listed(s) == LinkedBy(s, alive, head, tail, next, prev) /\ len = Len(s)

LEMMA ItemsListed ==
    ASSUME ListInv, exists, NEW s, Listed(s)
    PROVE  /\ Items = s /\ s \in Seq(alive) /\ s \in Seq(Nodes) /\ len = Len(s) /\ len \in Nat
           /\ Range(s) = {s[i] : i \in 1..len} /\ DOMAIN s = 1..len
<1>1. s \in Seq(alive) /\ s \in Seq(Nodes) /\ Items = s
    <2>1. LinkedBy(s, alive, head, tail, next, prev) /\ alive \subseteq Nodes
        BY DEF ListInv, FieldsTyped, Listed
    <2>2. s \in Seq(Nodes) /\ Walk(head, next) = s
        BY <2>1, BothWays
    <2> QED BY <2>1, <2>2 DEF LinkedBy, Items
<1>2. Len(s) \in Nat /\ DOMAIN s = 1..Len(s)
    BY <1>1, LenProperties
<1> QED BY <1>1, <1>2 DEF Listed, Range

LEMMA AfterStep ==
    ASSUME FieldsTyped', exists', NEW r, LinkedBy(r, alive', head', tail', next', prev'), len' = Len(r)
    PROVE  ListInv' /\ Listed(r)'
    BY DEF ListInv, Listed

\* Common to both pushes.
Pushed(n) ==
    /\ exists /\ exists' = exists /\ alive' = alive /\ val' = val /\ len' = len + 1
    /\ n \in alive /\ n \notin Range(Items)

LEMMA PushKept ==
    ASSUME ListInv, NEW n \in Nodes, Pushed(n), NEW s, Listed(s), NEW i \in 1..(Len(s) + 1),
           NEW before, before = (IF i = 1 THEN NULL ELSE s[i - 1]),
           NEW after, after = (IF i = Len(s) + 1 THEN NULL ELSE s[i]),
           prev' \in [Nodes -> Refs], next' \in [Nodes -> Refs],
           \A m \in alive : next'[m] = (IF m = n THEN after ELSE IF m = before THEN n ELSE next[m]),
           \A m \in alive : prev'[m] = (IF m = n THEN before ELSE IF m = after THEN n ELSE prev[m]),
           head' = (IF i = 1 THEN n ELSE head), tail' = (IF i = Len(s) + 1 THEN n ELSE tail)
    PROVE  ListInv' /\ Listed(InsertAt(s, i, n))'
<1>1. exists /\ exists' = exists /\ alive' = alive /\ val' = val /\ len' = len + 1 /\ n \in alive
    BY DEF Pushed
<1>2. Items = s /\ s \in Seq(alive) /\ len = Len(s) /\ Range(s) = {s[j] : j \in 1..len}
    BY <1>1, ItemsListed
<1>3. \A j \in 1..Len(s) : s[j] # n
    BY <1>2 DEF Pushed
<1>4. FieldsTyped' /\ NULL \notin alive
    BY <1>1, NodeAssumption DEF ListInv, FieldsTyped
<1>5. LinkedBy(s, alive, head, tail, next, prev)
    BY DEF Listed
<1>6. PICK h2, t2, nx2, pv2, r : h2 = head' /\ t2 = tail' /\ nx2 = next' /\ pv2 = prev' /\ r = InsertAt(s, i, n)
    OBVIOUS
<1>7. \A m \in alive : nx2[m] = (IF m = n THEN after ELSE IF m = before THEN n ELSE next[m])
                   /\ pv2[m] = (IF m = n THEN before ELSE IF m = after THEN n ELSE prev[m])
    BY <1>6
<1>8. LinkedBy(r, alive, h2, t2, nx2, pv2)
    BY <1>1, <1>3, <1>4, <1>5, <1>6, <1>7, PutIn
<1>9. Len(r) = Len(s) + 1
    BY <1>1, <1>2, <1>6, Inserted
<1> QED BY <1>1, <1>2, <1>4, <1>6, <1>8, <1>9, AfterStep

\* The ends of the list.
LEMMA Ends ==
    ASSUME ListInv, exists, NEW s, Listed(s)
    PROVE  /\ (s = <<>>) = (len = 0)
           /\ len = 0 => head = NULL /\ tail = NULL
           /\ len # 0 => /\ head = s[1] /\ tail = s[len] /\ 1 \in 1..len /\ len \in 1..len
                         /\ head \in alive /\ tail \in alive /\ head \in Range(Items) /\ tail \in Range(Items)
<1>1. Items = s /\ s \in Seq(alive) /\ len = Len(s) /\ len \in Nat /\ Range(s) = {s[j] : j \in 1..len}
    BY ItemsListed
<1>2. (s = <<>>) = (len = 0)
    BY <1>1, EmptySeq
<1>3. LinkedBy(s, alive, head, tail, next, prev)
    BY DEF Listed
<1>4. head = FirstOf(s) /\ tail = LastOf(s)
    BY <1>3 DEF LinkedBy
<1>5. ASSUME len # 0 PROVE 1 \in 1..len /\ len \in 1..len /\ head = s[1] /\ tail = s[len]
    BY <1>1, <1>2, <1>4, <1>5 DEF FirstOf, LastOf
<1>6. s \in [1..len -> alive]
    BY <1>1, LenProperties
<1> QED BY <1>1, <1>2, <1>4, <1>5, <1>6 DEF FirstOf, LastOf

LEMMA RpushKept ==
    ASSUME ListInv, NEW n \in Nodes, list_rpush(n), NEW s, Listed(s)
    PROVE  ListInv' /\ Listed(InsertAt(s, Len(s) + 1, n))'
<1>1. Pushed(n) /\ exists /\ tail' = n
    BY DEF list_rpush, Loose, Pushed
<1>2. len = Len(s) /\ len \in Nat
    BY <1>1, ItemsListed
<1>3. prev \in [Nodes -> Refs] /\ next \in [Nodes -> Refs] /\ alive \subseteq Nodes /\ NULL \notin alive /\ n \in alive
    BY <1>1, NodeAssumption DEF ListInv, FieldsTyped, Pushed
<1>4. PICK i : i = Len(s) + 1
    OBVIOUS
<1>5. i \in 1..(Len(s) + 1) /\ i - 1 = len /\ (i = 1) = (len = 0) /\ (len > 0) = (len # 0)
    BY <1>2, <1>4
<1>6. PICK before : before = IF i = 1 THEN NULL ELSE s[i - 1]
    OBVIOUS
<1>7. before = tail
    BY <1>1, <1>2, <1>5, <1>6, Ends
<1>8. CASE len > 0
    <2>1. tail \in alive /\ tail # n
        BY <1>1, <1>5, <1>8, Ends DEF Pushed
    <2>2. prev' = [prev EXCEPT ![n] = tail] /\ next' = [next EXCEPT ![n] = NULL, ![tail] = n] /\ head' = head
        BY <1>8 DEF list_rpush
    <2>3. prev' \in [Nodes -> Refs] /\ next' \in [Nodes -> Refs]
        BY <1>3, <2>1, <2>2 DEF Refs
    <2>4. \A m \in alive : next'[m] = (IF m = n THEN NULL ELSE IF m = before THEN n ELSE next[m])
        BY <1>3, <1>7, <2>1, <2>2
    <2>5. \A m \in alive : prev'[m] = (IF m = n THEN before ELSE IF m = NULL THEN n ELSE prev[m])
        BY <1>3, <1>7, <2>2
    <2>6. head' = (IF i = 1 THEN n ELSE head) /\ tail' = (IF i = Len(s) + 1 THEN n ELSE tail)
        BY <1>1, <1>4, <1>5, <1>8, <2>2
    <2>7. NULL = IF i = Len(s) + 1 THEN NULL ELSE s[i]
        BY <1>4
    <2>8. ListInv' /\ Listed(InsertAt(s, i, n))'
        BY <1>1, <1>5, <1>6, <2>3, <2>4, <2>5, <2>6, <2>7, PushKept
    <2> QED BY <1>4, <2>8
<1>9. CASE ~(len > 0)
    <2>1. tail = NULL /\ before = NULL
        BY <1>1, <1>5, <1>7, <1>9, Ends
    <2>2. prev' = [prev EXCEPT ![n] = NULL] /\ next' = [next EXCEPT ![n] = NULL] /\ head' = n
        BY <1>9 DEF list_rpush
    <2>3. prev' \in [Nodes -> Refs] /\ next' \in [Nodes -> Refs]
        BY <1>3, <2>2 DEF Refs
    <2>4. \A m \in alive : next'[m] = (IF m = n THEN NULL ELSE IF m = before THEN n ELSE next[m])
        BY <1>3, <2>1, <2>2
    <2>5. \A m \in alive : prev'[m] = (IF m = n THEN before ELSE IF m = NULL THEN n ELSE prev[m])
        BY <1>3, <2>1, <2>2
    <2> QED BY <1>1, <1>4, <1>5, <1>6, <1>9, <2>2, <2>3, <2>4, <2>5, PushKept
<1> QED BY <1>8, <1>9

LEMMA LpushKept ==
    ASSUME ListInv, NEW n \in Nodes, list_lpush(n), NEW s, Listed(s)
    PROVE  ListInv' /\ Listed(InsertAt(s, 1, n))'
<1>1. Pushed(n) /\ exists /\ head' = n
    BY DEF list_lpush, Loose, Pushed
<1>2. len = Len(s) /\ len \in Nat
    BY <1>1, ItemsListed
<1>3. prev \in [Nodes -> Refs] /\ next \in [Nodes -> Refs] /\ alive \subseteq Nodes /\ NULL \notin alive /\ n \in alive
    BY <1>1, NodeAssumption DEF ListInv, FieldsTyped, Pushed
<1>4. 1 \in 1..(Len(s) + 1) /\ (1 = Len(s) + 1) = (len = 0) /\ (len > 0) = (len # 0)
    BY <1>2
<1>5. PICK after : after = IF 1 = Len(s) + 1 THEN NULL ELSE s[1]
    OBVIOUS
<1>6. after = head
    BY <1>1, <1>2, <1>4, <1>5, Ends
<1>7. CASE len > 0
    <2>1. head \in alive /\ head # n
        BY <1>1, <1>4, <1>7, Ends DEF Pushed
    <2>2. next' = [next EXCEPT ![n] = head] /\ prev' = [prev EXCEPT ![n] = NULL, ![head] = n] /\ tail' = tail
        BY <1>7 DEF list_lpush
    <2>3. prev' \in [Nodes -> Refs] /\ next' \in [Nodes -> Refs]
        BY <1>3, <2>1, <2>2 DEF Refs
    <2>4. \A m \in alive : next'[m] = (IF m = n THEN after ELSE IF m = NULL THEN n ELSE next[m])
        BY <1>3, <1>6, <2>1, <2>2
    <2>5. \A m \in alive : prev'[m] = (IF m = n THEN NULL ELSE IF m = after THEN n ELSE prev[m])
        BY <1>3, <1>6, <2>1, <2>2
    <2>6. head' = (IF 1 = 1 THEN n ELSE head) /\ tail' = (IF 1 = Len(s) + 1 THEN n ELSE tail)
        BY <1>1, <1>4, <1>7, <2>2
    <2>7. NULL = IF 1 = 1 THEN NULL ELSE s[1 - 1]
        OBVIOUS
    <2> QED BY <1>1, <1>4, <1>5, <2>3, <2>4, <2>5, <2>6, <2>7, PushKept
<1>8. CASE ~(len > 0)
    <2>1. head = NULL /\ after = NULL
        BY <1>1, <1>4, <1>6, <1>8, Ends
    <2>2. prev' = [prev EXCEPT ![n] = NULL] /\ next' = [next EXCEPT ![n] = NULL] /\ tail' = n
        BY <1>8 DEF list_lpush
    <2>3. prev' \in [Nodes -> Refs] /\ next' \in [Nodes -> Refs]
        BY <1>3, <2>2 DEF Refs
    <2>4. \A m \in alive : next'[m] = (IF m = n THEN after ELSE IF m = NULL THEN n ELSE next[m])
        BY <1>3, <2>1, <2>2
    <2>5. \A m \in alive : prev'[m] = (IF m = n THEN NULL ELSE IF m = after THEN n ELSE prev[m])
        BY <1>3, <2>1, <2>2
    <2> QED BY <1>1, <1>4, <1>5, <1>8, <2>2, <2>3, <2>4, <2>5, PushKept
<1> QED BY <1>7, <1>8

\* Common to the pops and list_remove: node n goes.
Gone(n) ==
    /\ exists /\ exists' = exists /\ len' = len - 1
    /\ alive \ {n} \subseteq alive' /\ alive' \subseteq alive
    /\ prev' \in [Nodes -> Refs] /\ next' \in [Nodes -> Refs] /\ val' \in [Nodes -> Vals \cup {NULL}]
    /\ \A m \in alive \ {n} : next'[m] = IF m = prev[n] THEN next[n] ELSE next[m]
    /\ \A m \in alive \ {n} : prev'[m] = IF m = next[n] THEN prev[n] ELSE prev[m]
    /\ head' = IF prev[n] = NULL THEN next[n] ELSE head
    /\ tail' = IF next[n] = NULL THEN prev[n] ELSE tail

LEMMA GoneKept ==
    ASSUME ListInv, NEW n, Gone(n), NEW s, Listed(s), NEW i \in 1..Len(s), n = s[i]
    PROVE  ListInv' /\ Listed(RemoveAt(s, i))'
<1>1. exists /\ exists' = exists /\ len' = len - 1
    BY DEF Gone
<1>2. s \in Seq(alive) /\ len = Len(s)
    BY <1>1, ItemsListed
<1>3. FieldsTyped' /\ NULL \notin alive
    BY NodeAssumption DEF ListInv, FieldsTyped, Gone
<1>4. LinkedBy(s, alive, head, tail, next, prev)
    BY DEF Listed
<1>5. PICK B, h2, t2, nx2, pv2, r : B = alive' /\ h2 = head' /\ t2 = tail' /\ nx2 = next' /\ pv2 = prev' /\ r = RemoveAt(s, i)
    OBVIOUS
<1>6. \A m \in alive \ {n} : nx2[m] = (IF m = prev[n] THEN next[n] ELSE next[m])
                         /\ pv2[m] = (IF m = next[n] THEN prev[n] ELSE prev[m])
    BY <1>5 DEF Gone
<1>7. alive \ {n} \subseteq B /\ h2 = (IF prev[n] = NULL THEN next[n] ELSE head) /\ t2 = (IF next[n] = NULL THEN prev[n] ELSE tail)
    BY <1>5 DEF Gone
<1>8. LinkedBy(r, B, h2, t2, nx2, pv2)
    <2>1. NULL \notin alive /\ r = RemoveAt(s, i) /\ n = s[i]
        BY <1>3, <1>5
    <2>2. Bridged(s[i], alive, head, tail, next, prev, h2, t2, nx2, pv2)
        BY <1>6, <1>7, <2>1 DEF Bridged
    <2>3. LinkedBy(RemoveAt(s, i), B, h2, t2, nx2, pv2)
        BY <1>4, <1>7, <2>1, <2>2, TakenOut
    <2> QED BY <2>1, <2>3
<1>9. Len(r) = Len(s) - 1
    BY <1>2, <1>5, Removed
<1> QED BY <1>1, <1>2, <1>3, <1>5, <1>8, <1>9, AfterStep

\* The neighbours of a node of the list.
LEMMA Neighbours ==
    ASSUME ListInv, exists, NEW s, Listed(s), NEW i \in 1..Len(s), NEW n, n = s[i]
    PROVE  /\ n \in alive /\ n \in Nodes /\ Len(s) = len
           /\ next[n] = (IF i = len THEN NULL ELSE s[i + 1]) /\ prev[n] = (IF i = 1 THEN NULL ELSE s[i - 1])
           /\ next[n] \in alive \cup {NULL} /\ prev[n] \in alive \cup {NULL} /\ next[n] # n /\ prev[n] # n
<1>1. s \in Seq(alive) /\ len = Len(s) /\ len \in Nat /\ alive \subseteq Nodes /\ NULL \notin Nodes
    BY ItemsListed, NodeAssumption DEF ListInv, FieldsTyped
<1>2. s \in [1..len -> alive]
    BY <1>1, LenProperties
<1>3. LinkedBy(s, alive, head, tail, next, prev)
    BY DEF Listed
<1>4. next[n] = (IF i = len THEN NULL ELSE s[i + 1]) /\ prev[n] = (IF i = 1 THEN NULL ELSE s[i - 1])
    BY <1>1, <1>3 DEF LinkedBy
<1>5. \A a, b \in 1..len : s[a] = s[b] => a = b
    BY <1>1, <1>3 DEF LinkedBy
<1>6. i \in 1..len /\ (i # len => i + 1 \in 1..len /\ i + 1 # i) /\ (i # 1 => i - 1 \in 1..len /\ i - 1 # i)
    BY <1>1
<1>7. n \in alive
    BY <1>2, <1>6
<1>8. next[n] \in alive \cup {NULL} /\ next[n] # n
    BY <1>1, <1>2, <1>4, <1>5, <1>6, <1>7
<1>9. prev[n] \in alive \cup {NULL} /\ prev[n] # n
    BY <1>1, <1>2, <1>4, <1>5, <1>6, <1>7
<1> QED BY <1>1, <1>4, <1>7, <1>8, <1>9

LEMMA RpopKept ==
    ASSUME ListInv, list_rpop, NEW s, Listed(s)
    PROVE  Len(s) \in 1..Len(s) /\ ListInv' /\ Listed(RemoveAt(s, Len(s)))'
<1>1. exists /\ exists' = exists /\ len > 0 /\ len' = len - 1 /\ val' = val /\ alive' = alive /\ prev' = [prev EXCEPT ![tail] = NULL]
    BY DEF list_rpop
<1>2. len = Len(s) /\ len \in Nat
    BY <1>1, ItemsListed
<1>3. tail = s[Len(s)] /\ head = s[1] /\ Len(s) \in 1..Len(s) /\ 1 \in 1..Len(s) /\ len # 0
    BY <1>1, <1>2, Ends
<1>4. tail \in Nodes /\ next[tail] = NULL /\ prev[tail] \in alive \cup {NULL} /\ prev[tail] # tail
      /\ prev[tail] = (IF len = 1 THEN NULL ELSE s[len - 1])
    <2>1. PICK i \in 1..Len(s) : i = Len(s) /\ tail = s[i]
        BY <1>3
    <2>2. /\ tail \in Nodes /\ next[tail] = (IF i = len THEN NULL ELSE s[i + 1]) /\ prev[tail] = (IF i = 1 THEN NULL ELSE s[i - 1])
          /\ prev[tail] \in alive \cup {NULL} /\ prev[tail] # tail
        BY <1>1, <2>1, Neighbours
    <2> QED BY <1>2, <2>1, <2>2
<1>5. prev \in [Nodes -> Refs] /\ next \in [Nodes -> Refs] /\ val \in [Nodes -> Vals \cup {NULL}] /\ alive \subseteq Nodes /\ NULL \notin Nodes
    BY NodeAssumption DEF ListInv, FieldsTyped
<1>6. Gone(tail)
    <2>1. CASE len > 1
        <3>1. tail' = prev[tail] /\ next' = [next EXCEPT ![prev[tail]] = NULL, ![tail] = NULL] /\ head' = head
            BY <2>1 DEF list_rpop
        <3>2. len - 1 \in 1..len /\ len # 1
            BY <1>2, <2>1
        <3>3. prev[tail] # NULL
            <4>1. s[len - 1] \in alive
                BY <1>1, <1>2, <3>2, Neighbours
            <4> QED BY <1>4, <1>5, <3>2, <4>1
        <3>4. prev' \in [Nodes -> Refs] /\ next' \in [Nodes -> Refs] /\ val' \in [Nodes -> Vals \cup {NULL}]
            BY <1>1, <1>5, <3>1 DEF Refs
        <3>5. \A m \in alive \ {tail} : next'[m] = IF m = prev[tail] THEN next[tail] ELSE next[m]
            BY <1>4, <1>5, <3>1, <3>3
        <3>6. \A m \in alive \ {tail} : prev'[m] = IF m = next[tail] THEN prev[tail] ELSE prev[m]
            BY <1>1, <1>4, <1>5
        <3> QED BY <1>1, <1>4, <3>1, <3>3, <3>4, <3>5, <3>6 DEF Gone
    <2>2. CASE ~(len > 1)
        <3>1. tail' = NULL /\ head' = NULL /\ next' = [next EXCEPT ![tail] = NULL]
            BY <2>2 DEF list_rpop
        <3>2. len = 1 /\ prev[tail] = NULL
            BY <1>1, <1>2, <1>4, <2>2
        <3>3. prev' \in [Nodes -> Refs] /\ next' \in [Nodes -> Refs] /\ val' \in [Nodes -> Vals \cup {NULL}]
            BY <1>1, <1>5, <3>1 DEF Refs
        <3>4. \A m \in alive \ {tail} : next'[m] = IF m = prev[tail] THEN next[tail] ELSE next[m]
            BY <1>5, <3>1, <3>2
        <3>5. \A m \in alive \ {tail} : prev'[m] = IF m = next[tail] THEN prev[tail] ELSE prev[m]
            BY <1>1, <1>4, <1>5
        <3> QED BY <1>1, <1>4, <3>1, <3>2, <3>3, <3>4, <3>5 DEF Gone
    <2> QED BY <2>1, <2>2
<1> QED BY <1>3, <1>6, GoneKept

LEMMA LpopKept ==
    ASSUME ListInv, list_lpop, NEW s, Listed(s)
    PROVE  1 \in 1..Len(s) /\ ListInv' /\ Listed(RemoveAt(s, 1))'
<1>1. exists /\ exists' = exists /\ len > 0 /\ len' = len - 1 /\ val' = val /\ alive' = alive /\ next' = [next EXCEPT ![head] = NULL]
    BY DEF list_lpop
<1>2. len = Len(s) /\ len \in Nat
    BY <1>1, ItemsListed
<1>3. head = s[1] /\ 1 \in 1..Len(s) /\ len # 0
    BY <1>1, <1>2, Ends
<1>4. head \in Nodes /\ prev[head] = NULL /\ next[head] \in alive \cup {NULL} /\ next[head] # head
      /\ next[head] = (IF 1 = len THEN NULL ELSE s[1 + 1])
    BY <1>1, <1>2, <1>3, Neighbours
<1>5. prev \in [Nodes -> Refs] /\ next \in [Nodes -> Refs] /\ val \in [Nodes -> Vals \cup {NULL}] /\ alive \subseteq Nodes /\ NULL \notin Nodes
    BY NodeAssumption DEF ListInv, FieldsTyped
<1>6. Gone(head)
    <2>1. CASE len > 1
        <3>1. head' = next[head] /\ prev' = [prev EXCEPT ![next[head]] = NULL, ![head] = NULL] /\ tail' = tail
            BY <2>1 DEF list_lpop
        <3>2. 1 + 1 \in 1..len /\ len # 1
            BY <1>2, <2>1
        <3>3. next[head] # NULL
            <4>1. s[1 + 1] \in alive
                BY <1>1, <1>2, <3>2, Neighbours
            <4> QED BY <1>4, <1>5, <3>2, <4>1
        <3>4. prev' \in [Nodes -> Refs] /\ next' \in [Nodes -> Refs] /\ val' \in [Nodes -> Vals \cup {NULL}]
            BY <1>1, <1>5, <3>1 DEF Refs
        <3>5. \A m \in alive \ {head} : next'[m] = IF m = prev[head] THEN next[head] ELSE next[m]
            BY <1>1, <1>4, <1>5
        <3>6. \A m \in alive \ {head} : prev'[m] = IF m = next[head] THEN prev[head] ELSE prev[m]
            BY <1>4, <1>5, <3>1, <3>3
        <3> QED BY <1>1, <1>4, <3>1, <3>3, <3>4, <3>5, <3>6 DEF Gone
    <2>2. CASE ~(len > 1)
        <3>1. tail' = NULL /\ head' = NULL /\ prev' = [prev EXCEPT ![head] = NULL]
            BY <2>2 DEF list_lpop
        <3>2. len = 1 /\ next[head] = NULL
            BY <1>1, <1>2, <1>4, <2>2
        <3>3. prev' \in [Nodes -> Refs] /\ next' \in [Nodes -> Refs] /\ val' \in [Nodes -> Vals \cup {NULL}]
            BY <1>1, <1>5, <3>1 DEF Refs
        <3>4. \A m \in alive \ {head} : next'[m] = IF m = prev[head] THEN next[head] ELSE next[m]
            BY <1>1, <1>4, <1>5
        <3>5. \A m \in alive \ {head} : prev'[m] = IF m = next[head] THEN prev[head] ELSE prev[m]
            BY <1>5, <3>1, <3>2
        <3> QED BY <1>1, <1>4, <3>1, <3>2, <3>3, <3>4, <3>5 DEF Gone
    <2> QED BY <2>1, <2>2
<1> QED BY <1>3, <1>6, GoneKept

LEMMA RemoveKept ==
    ASSUME ListInv, NEW n \in Nodes, list_remove(n), NEW s, Listed(s)
    PROVE  /\ alive' = alive \ {n}
           /\ \E i \in 1..Len(s) : n = s[i] /\ ListInv' /\ Listed(RemoveAt(s, i))'
<1>1. exists /\ exists' = exists /\ len' = len - 1 /\ val' = Freed(val, {n}) /\ alive' = alive \ {n} /\ n \in Range(Items)
    BY DEF list_remove
<1>2. Items = s /\ len = Len(s) /\ Range(s) = {s[i] : i \in 1..len}
    BY <1>1, ItemsListed
<1>3. PICK i \in 1..Len(s) : n = s[i]
    BY <1>1, <1>2
<1>4. next[n] \in alive \cup {NULL} /\ prev[n] \in alive \cup {NULL} /\ next[n] # n /\ prev[n] # n
    BY <1>1, <1>3, Neighbours
<1>5. prev \in [Nodes -> Refs] /\ next \in [Nodes -> Refs] /\ val \in [Nodes -> Vals \cup {NULL}] /\ alive \subseteq Nodes /\ NULL \notin Nodes
    BY NodeAssumption DEF ListInv, FieldsTyped
<1>6. /\ next' \in [Nodes -> Refs]
      /\ \A m \in alive \ {n} : next'[m] = IF m = prev[n] THEN next[n] ELSE next[m]
      /\ head' = IF prev[n] = NULL THEN next[n] ELSE head
    <2>1. CASE prev[n] # NULL
        <3>1. next' = Freed([next EXCEPT ![prev[n]] = next[n]], {n}) /\ head' = head
            BY <2>1 DEF list_remove
        <3> QED BY <1>4, <1>5, <2>1, <3>1 DEF Freed, Refs
    <2>2. CASE prev[n] = NULL
        <3>1. next' = Freed(next, {n}) /\ head' = next[n]
            BY <2>2 DEF list_remove
        <3> QED BY <1>4, <1>5, <2>2, <3>1 DEF Freed, Refs
    <2> QED BY <2>1, <2>2
<1>7. /\ prev' \in [Nodes -> Refs]
      /\ \A m \in alive \ {n} : prev'[m] = IF m = next[n] THEN prev[n] ELSE prev[m]
      /\ tail' = IF next[n] = NULL THEN prev[n] ELSE tail
    <2>1. CASE next[n] # NULL
        <3>1. prev' = Freed([prev EXCEPT ![next[n]] = prev[n]], {n}) /\ tail' = tail
            BY <2>1 DEF list_remove
        <3> QED BY <1>4, <1>5, <2>1, <3>1 DEF Freed, Refs
    <2>2. CASE next[n] = NULL
        <3>1. prev' = Freed(prev, {n}) /\ tail' = prev[n]
            BY <2>2 DEF list_remove
        <3> QED BY <1>4, <1>5, <2>2, <3>1 DEF Freed, Refs
    <2> QED BY <2>1, <2>2
<1>8. val' \in [Nodes -> Vals \cup {NULL}]
    BY <1>1, <1>5 DEF Freed
<1>9. Gone(n)
    BY <1>1, <1>6, <1>7, <1>8 DEF Gone
<1> QED BY <1>1, <1>3, <1>9, GoneKept

\* A step that has nothing to do with the nodes of the list.
LEMMA Untouched ==
    ASSUME ListInv, exists, FieldsTyped', exists', head' = head, tail' = tail, len' = len, NEW s, Listed(s),
           \A m \in Range(Items) : m \in alive' /\ next'[m] = next[m] /\ prev'[m] = prev[m]
    PROVE  ListInv' /\ Listed(s)'
<1>1. Items = s /\ s \in Seq(alive) /\ len = Len(s) /\ len \in Nat /\ Range(s) = {s[i] : i \in 1..len}
    BY ItemsListed
<1>2. s \in [1..len -> alive]
    BY <1>1, LenProperties
<1>3. \A i \in 1..len : s[i] \in alive' /\ next'[s[i]] = next[s[i]] /\ prev'[s[i]] = prev[s[i]]
    BY <1>1
<1>4. s \in Seq(alive')
    <2>1. s \in [1..len -> alive']
        BY <1>2, <1>3
    <2> QED BY <1>1, <2>1
<1>5. LinkedBy(s, alive, head, tail, next, prev)
    BY DEF Listed
<1>6. LinkedBy(s, alive', head', tail', next', prev')
    BY <1>1, <1>3, <1>4, <1>5 DEF LinkedBy
<1> QED BY <1>1, <1>6, AfterStep

LEMMA NodeNewKept ==
    ASSUME ListInv, NEW n \in Nodes, NEW v \in Vals, list_node_new(n, v)
    PROVE  ListInv' /\ \A s : exists /\ Listed(s) => Listed(s)'
<1>1. /\ n \notin alive /\ alive' = alive \cup {n} /\ exists' = exists /\ head' = head /\ tail' = tail /\ len' = len
      /\ prev' = [prev EXCEPT ![n] = NULL] /\ next' = [next EXCEPT ![n] = NULL] /\ val' = [val EXCEPT ![n] = v]
    BY DEF list_node_new
<1>2. FieldsTyped /\ FieldsTyped'
    BY <1>1 DEF ListInv, FieldsTyped, Refs
<1>3. \A m \in alive : m \in alive' /\ next'[m] = next[m] /\ prev'[m] = prev[m]
    BY <1>1, <1>2 DEF FieldsTyped
<1>4. ASSUME exists, NEW s, Listed(s) PROVE ListInv' /\ Listed(s)'
    <2>1. Range(Items) \subseteq alive
        <3>1. Items = s /\ s \in Seq(alive)
            BY <1>4, ItemsListed
        <3> QED BY <3>1, RangeOfSeq
    <2> QED BY <1>1, <1>2, <1>3, <1>4, <2>1, Untouched
<1>5. CASE ~exists
    BY <1>1, <1>2, <1>5 DEF ListInv
<1>6. CASE exists
    BY <1>4, <1>6 DEF ListInv, Listed
<1> QED BY <1>4, <1>5, <1>6

LEMMA FreeKept ==
    ASSUME ListInv, NEW n \in Nodes, FreeLoose(n)
    PROVE  ListInv' /\ \A s : exists /\ Listed(s) => Listed(s)'
<1>1. /\ n \in alive /\ n \notin Range(Items) /\ alive' = alive \ {n} /\ exists' = exists /\ head' = head /\ tail' = tail
      /\ len' = len /\ prev' = Freed(prev, {n}) /\ next' = Freed(next, {n}) /\ val' = Freed(val, {n})
    BY DEF FreeLoose, Loose
<1>2. FieldsTyped /\ FieldsTyped'
    BY <1>1 DEF ListInv, FieldsTyped, Refs, Freed
<1>3. \A m \in alive \ {n} : m \in alive' /\ next'[m] = next[m] /\ prev'[m] = prev[m]
    BY <1>1, <1>2 DEF FieldsTyped, Freed
<1>4. ASSUME exists, NEW s, Listed(s) PROVE ListInv' /\ Listed(s)'
    <2>1. Range(Items) \subseteq alive
        <3>1. Items = s /\ s \in Seq(alive)
            BY <1>4, ItemsListed
        <3> QED BY <3>1, RangeOfSeq
    <2>2. \A m \in Range(Items) : m \in alive \ {n}
        BY <1>1, <2>1
    <2> QED BY <1>1, <1>2, <1>3, <1>4, <2>2, Untouched
<1>5. CASE ~exists
    BY <1>1, <1>2, <1>5 DEF ListInv
<1>6. CASE exists
    BY <1>4, <1>6 DEF ListInv, Listed
<1> QED BY <1>4, <1>5, <1>6

\* Nothing is linked in an empty list.
LEMMA EmptyKept ==
    ASSUME FieldsTyped', exists', head' = NULL, tail' = NULL, len' = 0
    PROVE  ListInv' /\ Listed(<<>>)'
<1>1. PICK r : r = <<>>
    OBVIOUS
<1>2. r \in Seq(alive') /\ Len(r) = 0 /\ 1..0 = {}
    BY <1>1, EmptySeq
<1>3. LinkedBy(r, alive', head', tail', next', prev')
    BY <1>1, <1>2 DEF LinkedBy, FirstOf, LastOf
<1> QED BY <1>1, <1>2, <1>3, AfterStep

LEMMA NewKept == ASSUME ListInv, list_new PROVE ListInv' /\ Listed(<<>>)'
<1>1. exists' = TRUE /\ head' = NULL /\ tail' = NULL /\ len' = 0 /\ FieldsTyped'
    BY DEF list_new, ListInv, FieldsTyped
<1> QED BY <1>1, EmptyKept

LEMMA AllFreed ==
    ASSUME ListInv, exists, Destroyed(Counted), exists' \in BOOLEAN
    PROVE  FieldsTyped' /\ head' = NULL /\ tail' = NULL /\ len' = 0 /\ alive' = alive \ Range(Items)
<1>1. PICK s : Listed(s)
    BY DEF ListInv, Listed
<1>2. Items = s /\ len = Len(s) /\ DOMAIN s = 1..len /\ len \in Nat
    BY <1>1, ItemsListed
<1>3. {j \in DOMAIN Items : j <= len} = DOMAIN Items
    BY <1>2
<1>4. Counted = Range(Items)
    BY <1>3 DEF Counted, Range
<1> QED BY <1>4 DEF Destroyed, ListInv, FieldsTyped, Freed, Refs

LEMMA DestroyKept == ASSUME ListInv, list_destroy PROVE ListInv' /\ alive' = alive \ Range(Items)
<1>1. exists /\ exists' = FALSE /\ Destroyed(Counted)
    BY DEF list_destroy
<1> QED BY <1>1, AllFreed DEF ListInv

LEMMA ResetKept == ASSUME ListInv, db_reset PROVE ListInv' /\ Listed(<<>>)' /\ alive' = alive \ Range(Items)
<1>1. exists /\ exists' = exists /\ Destroyed(Counted) /\ exists' \in BOOLEAN
    BY DEF db_reset, ListInv, FieldsTyped
<1> QED BY <1>1, AllFreed, EmptyKept

\* listUtils.c removes what list_find found.
LEMMA FoundRemoved == ASSUME ListInv, NEW v, list_removeIfFound(v) PROVE \E n \in Nodes : list_remove(n)
<1>1. PICK n : n = list_find(v) /\ list_remove(n)
    BY DEF list_removeIfFound
<1>2. exists /\ n \in Range(Items)
    BY <1>1 DEF list_remove
<1>3. PICK s : Listed(s)
    BY <1>2 DEF ListInv, Listed
<1>4. Items = s /\ s \in Seq(Nodes)
    BY <1>2, <1>3, ItemsListed
<1>5. Range(Items) \subseteq Nodes
    BY <1>4, RangeOfSeq
<1> QED BY <1>1, <1>2, <1>5

LEMMA ListNext == ListInv /\ [Next]_lvars => ListInv'
<1> SUFFICES ASSUME ListInv, [Next]_lvars PROVE ListInv'
    OBVIOUS
<1>1. ASSUME exists PROVE \E s : Listed(s)
    BY <1>1 DEF ListInv, Listed
<1>2. CASE UNCHANGED lvars
    BY <1>2 DEF lvars, ListInv, FieldsTyped
<1>3. ASSUME NEW n \in Nodes, list_remove(n) PROVE ListInv'
    BY <1>1, <1>3, RemoveKept DEF list_remove
<1>4. ASSUME NEW n \in Nodes, list_rpush(n) PROVE ListInv'
    BY <1>1, <1>4, RpushKept DEF list_rpush
<1>5. ASSUME NEW n \in Nodes, list_lpush(n) PROVE ListInv'
    BY <1>1, <1>5, LpushKept DEF list_lpush
<1>6. CASE list_rpop
    BY <1>1, <1>6, RpopKept DEF list_rpop
<1>7. CASE list_lpop
    BY <1>1, <1>7, LpopKept DEF list_lpop
<1>8. ASSUME NEW v \in Vals, list_removeIfFound(v) PROVE ListInv'
    BY <1>3, <1>8, FoundRemoved
<1>9. CASE list_new \/ list_destroy \/ db_reset
    BY <1>9, NewKept, DestroyKept, ResetKept
<1> QED BY <1>2, <1>3, <1>4, <1>5, <1>6, <1>7, <1>8, <1>9, NodeNewKept, FreeKept DEF Next

LEMMA ListInit == Init => ListInv
    BY DEF Init, ListInv, FieldsTyped, Refs

LEMMA ListTyped == ListInv => TypeOK
<1> SUFFICES ASSUME ListInv PROVE TypeOK
    OBVIOUS
<1>1. FieldsTyped /\ Cardinality(Nodes) \in Nat
    BY NodeAssumption, FS_CardinalityType DEF ListInv
<1>2. CASE ~exists
    BY <1>1, <1>2 DEF ListInv, FieldsTyped, TypeOK, Refs
<1>3. CASE exists
    <2>1. PICK s : Listed(s)
        BY <1>3 DEF ListInv, Listed
    <2>2. len = Len(s) /\ len \in Nat
        BY <1>3, <2>1, ItemsListed
    <2>3. Len(s) <= Cardinality(Nodes)
        BY <1>1, <2>1, BothWays DEF Listed, FieldsTyped
    <2>4. head \in Refs /\ tail \in Refs
        <3>1. alive \subseteq Refs /\ NULL \in Refs
            BY <1>1 DEF FieldsTyped, Refs
        <3> QED BY <1>3, <2>1, <3>1, Ends
    <2>5. len \in 0..Cardinality(Nodes)
        BY <1>1, <2>2, <2>3
    <2> QED BY <1>1, <2>4, <2>5 DEF FieldsTyped, TypeOK
<1> QED BY <1>2, <1>3

LEMMA ListLinked == ListInv => WellLinked
<1> SUFFICES ASSUME ListInv, exists PROVE WellLinked
    BY DEF WellLinked
<1>1. PICK s : Listed(s)
    BY DEF ListInv, Listed
<1>2. Items = s /\ len = Len(s) /\ s \in Seq(alive)
    BY <1>1, ItemsListed
<1>3. IsInjective(s) /\ Walk(tail, prev) = Reverse(s)
    BY <1>1, BothWays DEF Listed, ListInv, FieldsTyped
<1>4. Range(s) \subseteq alive
    BY <1>2, RangeOfSeq
<1>5. NULL \notin alive
    BY NodeAssumption DEF ListInv, FieldsTyped
<1>6. (head = NULL) = (len = 0) /\ (tail = NULL) = (len = 0)
    BY <1>1, <1>5, Ends
<1> QED BY <1>2, <1>3, <1>4, <1>6 DEF WellLinked

LEMMA ListIndexed == ListInv => IndexingAgrees
<1> SUFFICES ASSUME ListInv, exists, NEW i \in (- len - 1)..len
             PROVE  list_at(i) = IF i \in 0..(len - 1) THEN Items[i + 1]
                                 ELSE IF i \in (- len)..(-1) THEN Items[len + i + 1] ELSE NULL
    BY DEF IndexingAgrees
<1>1. PICK s : Listed(s)
    BY DEF ListInv, Listed
<1>2. Items = s /\ len = Len(s) /\ len \in Nat
    BY <1>1, ItemsListed
<1>3. Walk(tail, prev) = Reverse(s)
    BY <1>1, BothWays DEF Listed, ListInv, FieldsTyped
<1>4. CASE i < 0
    <2>1. list_at(i) = IF - i - 1 < len THEN Reverse(s)[- i - 1 + 1] ELSE NULL
        BY <1>3, <1>4 DEF list_at
    <2>2. CASE i = - len - 1
        BY <1>2, <2>1, <2>2
    <2>3. CASE i # - len - 1
        <3>1. i \in (- len)..(-1) /\ - i - 1 < len /\ (- i - 1 + 1) \in 1..len /\ (len - (- i - 1 + 1)) + 1 = len + i + 1 /\ i \notin 0..(len - 1)
            BY <1>2, <1>4, <2>3
        <3>2. Reverse(s)[- i - 1 + 1] = s[(len - (- i - 1 + 1)) + 1]
            BY <1>2, <3>1 DEF Reverse
        <3> QED BY <1>2, <2>1, <3>1, <3>2
    <2> QED BY <2>2, <2>3
<1>5. CASE ~(i < 0)
    <2>1. list_at(i) = IF i < len THEN s[i + 1] ELSE NULL
        BY <1>2, <1>5 DEF list_at
    <2> QED BY <1>2, <1>5, <2>1
<1> QED BY <1>4, <1>5

-----------------------------------------------------------------------------
(* A list is a sequence of nodes                                           *)

\* What is allocated, the list included, and the children of each: what
\* OrderedForest knows of the list.
Owned == alive \cup (IF exists THEN {List} ELSE {})
Kids == [n \in Owned |-> IF n = List THEN Items ELSE <<>>]

LEMMA SameNotions ==
    /\ \A f : Forest!Range(f) = Range(f)
    /\ \A s, i, n : Forest!InsertAt(s, i, n) = InsertAt(s, i, n)
    /\ \A s, i : Forest!RemoveAt(s, i) = RemoveAt(s, i)
    BY DEF Forest!Range, Range, Forest!InsertAt, InsertAt, Forest!RemoveAt, RemoveAt

LEMMA KidsAre ==
    ASSUME ListInv
    PROVE  /\ \A n \in alive : n \in Owned /\ n # List /\ Kids[n] = <<>>
           /\ exists => List \in Owned /\ Kids[List] = Items /\ Range(Items) \subseteq alive
<1>1. List \notin alive
    BY NodeAssumption DEF ListInv, FieldsTyped
<1>2. ASSUME exists PROVE Range(Items) \subseteq alive
    <2>1. PICK s : Listed(s)
        BY <1>2 DEF ListInv, Listed
    <2>2. Items = s /\ s \in Seq(alive)
        BY <1>2, <2>1, ItemsListed
    <2> QED BY <2>2, RangeOfSeq
<1> QED BY <1>1, <1>2 DEF Owned, Kids

LEMMA TreeIs ==
    ASSUME NEW n
    PROVE  Forest!Tree(n) = {m \in Owned : \A S \in SUBSET Owned :
                               n \in S /\ (\A x \in S : Range(Kids[x]) \subseteq S) => m \in S}
    BY SameNotions DEF Forest!Tree, Owned, Kids

LEMMA NodeTree == ASSUME ListInv, NEW n \in alive PROVE Forest!Tree(n) = {n}
<1>1. n \in Owned /\ Kids[n] = <<>> /\ Range(<<>>) = {}
    BY KidsAre DEF Range
<1>2. {n} \in SUBSET Owned /\ \A x \in {n} : Range(Kids[x]) \subseteq {n}
    BY <1>1
<1> QED BY <1>1, <1>2, TreeIs

LEMMA ListTree == ASSUME ListInv, exists PROVE Forest!Tree(List) = {List} \cup Range(Items)
<1> DEFINE T == {List} \cup Range(Items)
<1>1. List \in Owned /\ Kids[List] = Items /\ Range(Items) \subseteq alive /\ alive \subseteq Owned /\ Range(<<>>) = {}
    BY KidsAre DEF Range, Owned
<1>2. \A x \in Range(Items) : Kids[x] = <<>>
    BY <1>1, KidsAre
<1>3. T \in SUBSET Owned /\ \A x \in T : Range(Kids[x]) \subseteq T
    BY <1>1, <1>2
<1>4. \A S : List \in S /\ (\A x \in S : Range(Kids[x]) \subseteq S) => T \subseteq S
    BY <1>1
<1> HIDE DEF T
<1>5. List \in T
    BY DEF T
<1>6. ASSUME NEW m PROVE m \in Forest!Tree(List) <=> m \in T
    BY <1>3, <1>4, <1>5, TreeIs
<1> QED BY <1>6 DEF T

LEMMA ReadAfter == ASSUME ListInv', exists', NEW r, Listed(r)' PROVE Items' = r
<1>1. PICK A, h2, t2, nx2, pv2 : A = alive' /\ h2 = head' /\ t2 = tail' /\ nx2 = next' /\ pv2 = prev'
    OBVIOUS
<1>2. LinkedBy(r, A, h2, t2, nx2, pv2) /\ A \subseteq Nodes
    BY <1>1 DEF Listed, ListInv, FieldsTyped
<1>3. Walk(h2, nx2) = r
    BY <1>2, BothWays
<1> QED BY <1>1, <1>3 DEF Items

\* The abstract steps, in terms of the list.
LEMMA InsertStep ==
    ASSUME ListInv, exists, exists' = exists, alive' = alive, NEW n \in alive, n \notin Range(Items),
           NEW i \in 1..(Len(Items) + 1), Items' = InsertAt(Items, i, n)
    PROVE  Forest!Next
<1>1. Owned' = Owned /\ List \in Owned /\ Kids[List] = Items /\ n \in Owned /\ n # List
    BY KidsAre DEF Owned
<1>2. Kids' = [Kids EXCEPT ![List] = InsertAt(Kids[List], i, n)]
    BY <1>1 DEF Kids
<1>3. Forest!Root(n)
    <2>1. \A p \in Owned : p # List => Range(Kids[p]) = {}
        BY DEF Kids, Range
    <2>2. n \in Owned /\ \A p \in Owned : n \notin Range(Kids[p])
        BY <1>1, <2>1
    <2> QED BY <2>2, SameNotions DEF Forest!Root, Owned, Kids
<1>4. List \notin Forest!Tree(n)
    BY <1>1, NodeTree
<1>5. Forest!Insert(List, i, n)
    BY <1>1, <1>2, <1>3, <1>4, SameNotions DEF Forest!Insert, Owned, Kids
<1>6. i \in 1..(Len(Kids[List]) + 1)
    BY <1>1
<1> QED BY <1>1, <1>5, <1>6 DEF Forest!Next, Owned, Kids

LEMMA TakeOutStep ==
    ASSUME ListInv, exists, exists' = exists, alive' = alive,
           NEW i \in DOMAIN Items, Items' = RemoveAt(Items, i)
    PROVE  Forest!Next
<1>1. Owned' = Owned /\ List \in Owned /\ Kids[List] = Items
    BY KidsAre DEF Owned
<1>2. Kids' = [Kids EXCEPT ![List] = RemoveAt(Kids[List], i)]
    BY <1>1 DEF Kids
<1>3. Forest!TakeOut(List, i)
    BY <1>1, <1>2, SameNotions DEF Forest!TakeOut, Owned, Kids
<1> QED BY <1>1, <1>3 DEF Forest!Next, Owned, Kids

LEMMA FreeItemStep ==
    ASSUME ListInv, exists, exists' = exists, NEW i \in DOMAIN Items, alive' = alive \ {Items[i]},
           Items' = RemoveAt(Items, i)
    PROVE  Forest!Next
<1>1. List \in Owned /\ Kids[List] = Items /\ Items[i] \in alive /\ List \notin alive
    BY KidsAre DEF Range
<1>2. Owned' = Owned \ {Items[i]} /\ Owned' \subseteq Owned
    BY <1>1 DEF Owned
<1>3. Owned' = Owned \ Forest!Tree(Kids[List][i])
    BY <1>1, <1>2, NodeTree
<1>4. Kids' = [m \in Owned' |-> IF m = List THEN RemoveAt(Kids[List], i) ELSE Kids[m]]
    BY <1>1, <1>2 DEF Kids
<1>5. Forest!RemoveAndFree(List, i)
    BY <1>2, <1>3, <1>4, SameNotions DEF Forest!RemoveAndFree, Owned, Kids
<1> QED BY <1>1, <1>5 DEF Forest!Next, Owned, Kids

LEMMA AllocStep ==
    ASSUME ListInv, NEW n \in Nodes \cup {List}, n \notin Owned, Owned' = Owned \cup {n},
           Kids' = [m \in Owned' |-> IF m = n THEN <<>> ELSE Kids[m]]
    PROVE  Forest!Next
<1>1. Forest!Alloc(n)
    BY DEF Forest!Alloc, Owned, Kids
<1> QED BY <1>1 DEF Forest!Next

LEMMA FreeStep ==
    ASSUME ListInv, NEW n \in Owned, \A p \in Owned : n \notin Range(Kids[p]), Owned' = Owned \ Forest!Tree(n),
           Kids' = [m \in Owned' |-> Kids[m]]
    PROVE  Forest!Next
<1>1. Forest!Root(n)
    BY SameNotions DEF Forest!Root, Owned, Kids
<1>2. Forest!Free(n)
    BY <1>1 DEF Forest!Free, Forest!Without, Owned, Kids
<1> QED BY <1>2 DEF Forest!Next, Owned, Kids

LEMMA ClearStep ==
    ASSUME ListInv, exists, exists' = exists, alive' = alive \ Range(Items), Items' = <<>>
    PROVE  Forest!Next
<1>1. List \in Owned /\ Kids[List] = Items /\ Range(Items) \subseteq alive /\ List \notin alive
    BY KidsAre
<1>2. Owned' = Owned \ Range(Items) /\ Owned' \subseteq Owned
    BY <1>1 DEF Owned
<1>3. UNION {Forest!Tree(m) : m \in Range(Items)} = Range(Items)
    BY <1>1, NodeTree
<1>4. Kids' = [m \in Owned' |-> IF m = List THEN <<>> ELSE Kids[m]]
    BY <1>1, <1>2 DEF Kids
<1>5. Forest!Clear(List)
    BY <1>1, <1>2, <1>3, <1>4, SameNotions DEF Forest!Clear, Owned, Kids
<1> QED BY <1>1, <1>5 DEF Forest!Next, Owned, Kids

\* Every operation of list.c is one step of the forest.
LEMMA ListStepMaps ==
    ASSUME ListInv, [Next]_lvars
    PROVE  [Forest!Next]_(Forest!vars)
<1>1. ASSUME exists PROVE \E s : Listed(s) /\ Items = s /\ DOMAIN Items = 1..Len(s)
    <2>1. PICK s : Listed(s)
        BY <1>1 DEF ListInv, Listed
    <2>2. Items = s /\ DOMAIN s = 1..Len(s)
        BY <1>1, <2>1, ItemsListed
    <2> QED BY <2>1, <2>2
<1>2. ListInv'
    BY ListNext
<1>3. CASE UNCHANGED lvars
    <2>1. UNCHANGED Forest!vars
        BY <1>3 DEF lvars, Forest!vars, Items
    <2> QED BY <2>1
<1>4. ASSUME NEW n \in Nodes, list_rpush(n) PROVE Forest!Next
    <2>1. exists /\ exists' = exists /\ alive' = alive /\ n \in alive /\ n \notin Range(Items)
        BY <1>4 DEF list_rpush, Loose
    <2>2. PICK s : Listed(s) /\ Items = s /\ DOMAIN Items = 1..Len(s)
        BY <1>1, <2>1
    <2>3. Items' = InsertAt(s, Len(s) + 1, n)
        BY <1>2, <1>4, <2>1, <2>2, RpushKept, ReadAfter
    <2>4. Len(s) + 1 \in 1..(Len(s) + 1)
        BY <2>1, <2>2, ItemsListed
    <2> QED BY <2>1, <2>2, <2>3, <2>4, InsertStep
<1>5. ASSUME NEW n \in Nodes, list_lpush(n) PROVE Forest!Next
    <2>1. exists /\ exists' = exists /\ alive' = alive /\ n \in alive /\ n \notin Range(Items)
        BY <1>5 DEF list_lpush, Loose
    <2>2. PICK s : Listed(s) /\ Items = s /\ DOMAIN Items = 1..Len(s)
        BY <1>1, <2>1
    <2>3. Items' = InsertAt(s, 1, n)
        BY <1>2, <1>5, <2>1, <2>2, LpushKept, ReadAfter
    <2>4. 1 \in 1..(Len(s) + 1)
        BY <2>1, <2>2, ItemsListed
    <2> QED BY <2>1, <2>2, <2>3, <2>4, InsertStep
<1>6. ASSUME NEW n \in Nodes, list_remove(n) PROVE Forest!Next
    <2>1. exists /\ exists' = exists
        BY <1>6 DEF list_remove
    <2>2. PICK s : Listed(s) /\ Items = s /\ DOMAIN Items = 1..Len(s)
        BY <1>1, <2>1
    <2>3. alive' = alive \ {n} /\ \E i \in 1..Len(s) : n = s[i] /\ Listed(RemoveAt(s, i))'
        BY <1>6, <2>2, RemoveKept
    <2>4. PICK i \in 1..Len(s) : n = s[i] /\ Listed(RemoveAt(s, i))'
        BY <2>3
    <2>5. Items' = RemoveAt(s, i)
        BY <1>2, <2>1, <2>4, ReadAfter
    <2> QED BY <2>1, <2>2, <2>3, <2>4, <2>5, FreeItemStep
<1>7. CASE list_rpop
    <2>1. exists /\ exists' = exists /\ alive' = alive
        BY <1>7 DEF list_rpop
    <2>2. PICK s : Listed(s) /\ Items = s /\ DOMAIN Items = 1..Len(s)
        BY <1>1, <2>1
    <2>3. Len(s) \in 1..Len(s) /\ Items' = RemoveAt(s, Len(s))
        BY <1>2, <1>7, <2>1, <2>2, RpopKept, ReadAfter
    <2>4. Forest!Next
        BY <2>1, <2>2, <2>3, TakeOutStep
    <2> QED BY <2>4
<1>8. CASE list_lpop
    <2>1. exists /\ exists' = exists /\ alive' = alive
        BY <1>8 DEF list_lpop
    <2>2. PICK s : Listed(s) /\ Items = s /\ DOMAIN Items = 1..Len(s)
        BY <1>1, <2>1
    <2>3. 1 \in 1..Len(s) /\ Items' = RemoveAt(s, 1)
        BY <1>2, <1>8, <2>1, <2>2, LpopKept, ReadAfter
    <2>4. Forest!Next
        BY <2>1, <2>2, <2>3, TakeOutStep
    <2> QED BY <2>4
<1>9. ASSUME NEW n \in Nodes, NEW v \in Vals, list_node_new(n, v) PROVE Forest!Next
    <2>1. n \notin alive /\ alive' = alive \cup {n} /\ exists' = exists /\ List \notin Nodes
        BY <1>9, NodeAssumption DEF list_node_new
    <2>2. Items' = Items
        <3>1. CASE exists
            <4>1. PICK s : Listed(s) /\ Items = s
                BY <1>1, <3>1
            <4> QED BY <1>2, <1>9, <2>1, <3>1, <4>1, NodeNewKept, ReadAfter
        <3>2. CASE ~exists
            BY <2>1, <3>2 DEF Items
        <3> QED BY <3>1, <3>2
    <2>3. n \notin Owned /\ Owned' = Owned \cup {n}
        BY <2>1 DEF Owned
    <2>4. Kids' = [m \in Owned' |-> IF m = n THEN <<>> ELSE Kids[m]]
        BY <2>1, <2>2, <2>3 DEF Kids
    <2> QED BY <2>3, <2>4, AllocStep
<1>10. ASSUME NEW n \in Nodes, FreeLoose(n) PROVE Forest!Next
    <2>1. n \in alive /\ n \notin Range(Items) /\ alive' = alive \ {n} /\ exists' = exists /\ List \notin Nodes
        BY <1>10, NodeAssumption DEF FreeLoose, Loose
    <2>2. Items' = Items
        <3>1. CASE exists
            <4>1. PICK s : Listed(s) /\ Items = s
                BY <1>1, <3>1
            <4> QED BY <1>2, <1>10, <2>1, <3>1, <4>1, FreeKept, ReadAfter
        <3>2. CASE ~exists
            BY <2>1, <3>2 DEF Items
        <3> QED BY <3>1, <3>2
    <2>3. n \in Owned /\ Owned' = Owned \ {n} /\ Owned' \subseteq Owned
        BY <2>1 DEF Owned
    <2>4. \A p \in Owned : n \notin Range(Kids[p])
        BY <2>1 DEF Kids, Range
    <2>5. Kids' = [m \in Owned' |-> Kids[m]]
        BY <2>2, <2>3 DEF Kids
    <2> QED BY <2>1, <2>3, <2>4, <2>5, NodeTree, FreeStep
<1>11. CASE list_new
    <2>1. ~exists /\ exists' = TRUE /\ alive' = alive /\ List \notin alive
        BY <1>11, NodeAssumption DEF list_new, ListInv, FieldsTyped
    <2>2. Items' = <<>>
        BY <1>2, <1>11, <2>1, NewKept, ReadAfter
    <2>3. List \notin Owned /\ Owned' = Owned \cup {List}
        BY <2>1 DEF Owned
    <2>4. Kids' = [m \in Owned' |-> IF m = List THEN <<>> ELSE Kids[m]]
        BY <2>1, <2>2, <2>3 DEF Kids
    <2>5. Forest!Next
        BY <2>3, <2>4, AllocStep
    <2> QED BY <2>5
<1>12. CASE list_destroy
    <2>1. exists /\ exists' = FALSE /\ alive' = alive \ Range(Items)
        BY <1>12, DestroyKept DEF list_destroy
    <2>2. List \in Owned /\ List \notin alive /\ Kids[List] = Items /\ Range(Items) \subseteq alive
        BY <2>1, KidsAre
    <2>3. Owned' = Owned \ ({List} \cup Range(Items)) /\ Owned' \subseteq Owned /\ List \notin Owned'
        BY <2>1, <2>2 DEF Owned
    <2>4. \A p \in Owned : List \notin Range(Kids[p])
        BY <2>2 DEF Kids, Range
    <2>5. Kids' = [m \in Owned' |-> Kids[m]]
        BY <2>3 DEF Kids
    <2>6. Forest!Next
        BY <2>1, <2>2, <2>3, <2>4, <2>5, ListTree, FreeStep
    <2> QED BY <2>6
<1>13. CASE db_reset
    <2>1. exists /\ exists' = exists /\ alive' = alive \ Range(Items)
        BY <1>13, ResetKept DEF db_reset
    <2>2. Items' = <<>>
        BY <1>2, <1>13, <2>1, ResetKept, ReadAfter
    <2>3. Forest!Next
        BY <2>1, <2>2, ClearStep
    <2> QED BY <2>3
<1>14. ASSUME NEW v \in Vals, list_removeIfFound(v) PROVE Forest!Next
    BY <1>6, <1>14, FoundRemoved
<1> QED BY <1>3, <1>4, <1>5, <1>6, <1>7, <1>8, <1>9, <1>10, <1>11, <1>12, <1>13, <1>14 DEF Next

LEMMA ListStart == Init => Forest!Init
<1> SUFFICES ASSUME Init PROVE Forest!Init
    OBVIOUS
<1>1. Owned = {}
    BY DEF Init, Owned
<1>2. Kids = <<>>
    BY <1>1 DEF Kids
<1> QED BY <1>1, <1>2 DEF Forest!Init, Owned, Kids

\* Every operation of list.c, and db.c's reset, puts one node in, takes one out, allocates or frees:
\* read from its head, the list is the sequence that the calls so far say.
THEOREM ListImplements == Spec => ListIsSequence
<1>1. ListInv /\ [Next]_lvars => ListInv' /\ [Forest!Next]_(Forest!vars)
    BY ListNext, ListStepMaps
<1> QED BY <1>1, ListInit, ListStart, PTL DEF Spec, ListIsSequence, Forest!Spec

-----------------------------------------------------------------------------
(* cJSON.c                                                                 *)

\* c is linked by nx from first on, and by pv back; the first knows the last.
Ring(c, A, first, nx, pv) ==
    /\ c \in Seq(A) /\ first = FirstOf(c)
    /\ \A i, j \in 1..Len(c) : c[i] = c[j] => i = j
    /\ \A i \in 1..Len(c) : nx[c[i]] = IF i = Len(c) THEN NULL ELSE c[i + 1]
    /\ \A i \in 1..Len(c) : pv[c[i]] = IF i = 1 THEN c[Len(c)] ELSE c[i - 1]

\* The links of the items of A are those of a forest with the children K.
Shaped(K, A, ch, nx, pv) ==
    /\ K \in [A -> Seq(A)]
    /\ \A p \in A : Ring(K[p], A, ch[p], nx, pv)
    /\ \A p, q \in A : p # q => Range(K[p]) \cap Range(K[q]) = {}
    /\ \A n \in A : (\A p \in A : n \notin Range(K[p])) => nx[n] = NULL

\* The links, as cJSON.c keeps them, are those of such a forest.
Shows(links, K, A) == Shaped(K, A, links.child, links.next, links.prev)

LEMMA SeqFacts ==
    ASSUME NEW A, NEW c \in Seq(A)
    PROVE  /\ Len(c) \in Nat /\ DOMAIN c = 1..Len(c) /\ c \in [1..Len(c) -> A]
           /\ (c = <<>>) = (Len(c) = 0) /\ Range(c) = {c[i] : i \in 1..Len(c)} /\ Range(c) \subseteq A
<1>1. Len(c) \in Nat /\ DOMAIN c = 1..Len(c) /\ c \in [1..Len(c) -> A]
    BY LenProperties
<1>2. (c = <<>>) = (Len(c) = 0)
    BY <1>1, EmptySeq
<1> QED BY <1>1, <1>2 DEF Range

\* The ring as a line.
LEMMA RingLine ==
    ASSUME NEW A, NULL \notin A, NEW c, NEW first, NEW nx, NEW pv, Ring(c, A, first, nx, pv)
    PROVE  /\ LinkedBy(c, A, first, LastOf(c), nx, [m \in A |-> IF m = first THEN NULL ELSE pv[m]])
           /\ c # <<>> => pv[first] = LastOf(c) /\ first \in A /\ LastOf(c) \in A
<1>1. c \in Seq(A) /\ first = FirstOf(c)
    BY DEF Ring
<1>2. Len(c) \in Nat /\ c \in [1..Len(c) -> A] /\ (c = <<>>) = (Len(c) = 0)
    BY <1>1, SeqFacts
<1>3. PICK lin : lin = [m \in A |-> IF m = first THEN NULL ELSE pv[m]]
    OBVIOUS
<1>4. ASSUME NEW i \in 1..Len(c) PROVE lin[c[i]] = IF i = 1 THEN NULL ELSE c[i - 1]
    <2>1. 1 \in 1..Len(c) /\ first = c[1] /\ c[i] \in A
        BY <1>1, <1>2 DEF FirstOf
    <2>2. (c[i] = first) = (i = 1)
        BY <2>1 DEF Ring
    <2>3. pv[c[i]] = IF i = 1 THEN c[Len(c)] ELSE c[i - 1]
        BY DEF Ring
    <2> QED BY <1>3, <2>1, <2>2, <2>3
<1>5. LinkedBy(c, A, first, LastOf(c), nx, lin)
    BY <1>4 DEF LinkedBy, Ring
<1>6. ASSUME c # <<>> PROVE pv[first] = LastOf(c) /\ first \in A /\ LastOf(c) \in A
    <2>1. 1 \in 1..Len(c) /\ Len(c) \in 1..Len(c) /\ first = c[1] /\ LastOf(c) = c[Len(c)]
        BY <1>1, <1>2, <1>6 DEF FirstOf, LastOf
    <2> QED BY <1>2, <2>1 DEF Ring
<1> QED BY <1>3, <1>5, <1>6

LEMMA LineRing ==
    ASSUME NEW A, NULL \notin A, NEW c, NEW first, NEW last, NEW nx, NEW pv,
           LinkedBy(c, A, first, last, nx, [m \in A |-> IF m = first THEN NULL ELSE pv[m]]),
           c # <<>> => pv[first] = last
    PROVE  Ring(c, A, first, nx, pv)
<1>1. PICK lin : lin = [m \in A |-> IF m = first THEN NULL ELSE pv[m]]
    OBVIOUS
<1>2. LinkedBy(c, A, first, last, nx, lin)
    BY <1>1
<1>3. c \in Seq(A) /\ first = FirstOf(c) /\ last = LastOf(c)
    BY <1>2 DEF LinkedBy
<1>4. Len(c) \in Nat /\ c \in [1..Len(c) -> A] /\ (c = <<>>) = (Len(c) = 0)
    BY <1>3, SeqFacts
<1>5. ASSUME NEW i \in 1..Len(c) PROVE pv[c[i]] = IF i = 1 THEN c[Len(c)] ELSE c[i - 1]
    <2>1. 1 \in 1..Len(c) /\ c # <<>> /\ first = c[1] /\ last = c[Len(c)] /\ c[i] \in A
        BY <1>3, <1>4 DEF FirstOf, LastOf
    <2>2. CASE i = 1
        BY <2>1, <2>2
    <2>3. CASE i # 1
        <3>1. c[i] # first
            BY <1>2, <2>1, <2>3 DEF LinkedBy
        <3>2. lin[c[i]] = pv[c[i]]
            BY <1>1, <2>1, <3>1
        <3> QED BY <1>2, <2>3, <3>2 DEF LinkedBy
    <2> QED BY <2>2, <2>3
<1> QED BY <1>2, <1>5 DEF LinkedBy, Ring

LEMMA SameRing ==
    ASSUME NEW A, NEW B, NEW c, NEW first, NEW nx, NEW pv, Ring(c, A, first, nx, pv), NEW nx2, NEW pv2,
           \A m \in Range(c) : m \in B /\ nx2[m] = nx[m] /\ pv2[m] = pv[m]
    PROVE  Ring(c, B, first, nx2, pv2)
<1>1. c \in Seq(A)
    BY DEF Ring
<1>2. Len(c) \in Nat /\ c \in [1..Len(c) -> A] /\ Range(c) = {c[i] : i \in 1..Len(c)}
    BY <1>1, SeqFacts
<1>3. \A i \in 1..Len(c) : c[i] \in B /\ nx2[c[i]] = nx[c[i]] /\ pv2[c[i]] = pv[c[i]]
    BY <1>2
<1>4. c \in Seq(B)
    <2>1. c \in [1..Len(c) -> B]
        BY <1>2, <1>3
    <2> QED BY <1>2, <2>1
<1> QED BY <1>3, <1>4 DEF Ring

\* The walk over the children of an item.
LEMMA RingWalk ==
    ASSUME NEW A, A \subseteq Items0, NEW c, NEW first, NEW nx, NEW pv, Ring(c, A, first, nx, pv)
    PROVE  /\ Along(Items0, first, nx) = c /\ c \in Seq(Items0) /\ IsInjective(c) /\ Len(c) <= Cardinality(A)
           /\ Len(c) <= Cardinality(Items0)
<1>1. c \in Seq(A) /\ first = FirstOf(c)
    BY DEF Ring
<1>2. c \in Seq(Items0)
    BY <1>1, SeqMonotonic
<1>3. IsInjective(c)
    BY <1>1, SeqFacts DEF Ring, IsInjective
<1>4. IsFiniteSet(A)
    BY ItemAssumption, FS_Subset
<1>5. Len(c) <= Cardinality(A) /\ Len(c) <= Cardinality(Items0)
    BY <1>1, <1>2, <1>3, <1>4, ItemAssumption, Fits
<1>6. Chain(Items0, nx, c)
    BY <1>2 DEF Ring, Chain
<1>7. Along(Items0, first, nx) = c
    BY <1>1, <1>5, <1>6, WalkSees, ItemAssumption
<1> QED BY <1>2, <1>3, <1>5, <1>7

LEMMA ChildrenAre ==
    ASSUME NEW links, NEW A, A \subseteq Items0, NEW K, Shows(links, K, A), NEW p \in A
    PROVE  Json!ChildrenIn(links, p) = K[p]
<1>1. Ring(K[p], A, links.child[p], links.next, links.prev)
    BY DEF Shows, Shaped
<1>2. Along(Items0, links.child[p], links.next) = K[p]
    BY <1>1, RingWalk
<1>3. Json!ChainIn(links, links.child[p]) = Along(Items0, links.child[p], links.next)
    BY ItemWalk
<1> QED BY <1>2, <1>3 DEF Json!ChildrenIn

\* No link of another container's children changes but those given to c.
Others(K, A, p, c, ch, nx, pv, ch2, nx2, pv2) ==
    /\ \A q \in A \ {p} : ch2[q] = ch[q] /\ Range(c) \cap Range(K[q]) = {}
    /\ \A q \in A \ {p} : \A m \in Range(K[q]) : nx2[m] = nx[m] /\ pv2[m] = pv[m]
    /\ \A n \in A : n \notin Range(c) /\ (\A q \in A \ {p} : n \notin Range(K[q])) => nx2[n] = NULL

\* Only the children of p change.
LEMMA OneChanged ==
    ASSUME NEW A, NEW K, NEW ch, NEW nx, NEW pv, Shaped(K, A, ch, nx, pv), NEW p \in A,
           NEW c, NEW ch2, NEW nx2, NEW pv2, Ring(c, A, ch2[p], nx2, pv2),
           Others(K, A, p, c, ch, nx, pv, ch2, nx2, pv2)
    PROVE  Shaped([K EXCEPT ![p] = c], A, ch2, nx2, pv2)
<1> USE DEF Others
<1>1. PICK K2 : K2 = [K EXCEPT ![p] = c]
    OBVIOUS
<1>2. K \in [A -> Seq(A)] /\ c \in Seq(A)
    BY DEF Shaped, Ring
<1>3. K2 \in [A -> Seq(A)] /\ K2[p] = c /\ \A q \in A \ {p} : K2[q] = K[q]
    BY <1>1, <1>2
<1>4. ASSUME NEW q \in A PROVE Ring(K2[q], A, ch2[q], nx2, pv2)
    <2>1. CASE q = p
        BY <1>3, <2>1
    <2>2. CASE q # p
        <3>1. Ring(K[q], A, ch2[q], nx, pv) /\ K[q] \in Seq(A) /\ q \in A \ {p}
            BY <1>2, <2>2 DEF Shaped
        <3>2. Range(K[q]) \subseteq A
            BY <3>1, SeqFacts
        <3>3. \A m \in Range(K[q]) : m \in A /\ nx2[m] = nx[m] /\ pv2[m] = pv[m]
            BY <3>1, <3>2
        <3>4. Ring(K[q], A, ch2[q], nx2, pv2)
            BY <3>1, <3>3, SameRing
        <3> QED BY <1>3, <3>1, <3>4
    <2> QED BY <2>1, <2>2
<1>5. ASSUME NEW q \in A, NEW r \in A, q # r PROVE Range(K2[q]) \cap Range(K2[r]) = {}
    <2>1. CASE q = p
        BY <1>3, <1>5, <2>1
    <2>2. CASE r = p
        BY <1>3, <1>5, <2>2
    <2>3. CASE q # p /\ r # p
        BY <1>3, <1>5, <2>3 DEF Shaped
    <2> QED BY <2>1, <2>2, <2>3
<1>6. ASSUME NEW n \in A, \A q \in A : n \notin Range(K2[q]) PROVE nx2[n] = NULL
    BY <1>3, <1>6
<1> QED BY <1>1, <1>3, <1>4, <1>5, <1>6 DEF Shaped

LEMMA RangeInserted ==
    ASSUME NEW A, NEW c \in Seq(A), NEW n \in A, NEW i \in 1..(Len(c) + 1)
    PROVE  Range(InsertAt(c, i, n)) = Range(c) \cup {n}
<1>1. PICK d, L : d = InsertAt(c, i, n) /\ L = Len(c)
    OBVIOUS
<1>2. d \in Seq(A) /\ Len(d) = L + 1 /\ \A j \in 1..(L + 1) : d[j] = IF j < i THEN c[j] ELSE IF j = i THEN n ELSE c[j - 1]
    <2>1. /\ InsertAt(c, i, n) \in Seq(A)
          /\ Len(InsertAt(c, i, n)) = Len(c) + 1
          /\ \A j \in 1..(Len(c) + 1) :
               InsertAt(c, i, n)[j] = IF j < i THEN c[j] ELSE IF j = i THEN n ELSE c[j - 1]
        BY Inserted
    <2> QED BY <1>1, <2>1
<1>3. L \in Nat /\ Range(c) = {c[j] : j \in 1..L} /\ Range(d) = {d[j] : j \in 1..(L + 1)} /\ i \in 1..(L + 1)
    BY <1>1, <1>2, SeqFacts
<1>4. ASSUME NEW j \in 1..(L + 1) PROVE d[j] \in Range(c) \cup {n}
    <2>1. j < i => j \in 1..L
        BY <1>3
    <2>2. ~(j < i) /\ j # i => j - 1 \in 1..L
        BY <1>3
    <2>3. d[j] = IF j < i THEN c[j] ELSE IF j = i THEN n ELSE c[j - 1]
        BY <1>2
    <2> QED BY <1>3, <2>1, <2>2, <2>3
<1>5. ASSUME NEW j \in 1..L PROVE c[j] \in Range(d)
    <2>1. CASE j < i
        <3>1. j \in 1..(L + 1)
            BY <1>3
        <3> QED BY <1>2, <1>3, <2>1, <3>1
    <2>2. CASE ~(j < i)
        <3>1. j + 1 \in 1..(L + 1) /\ ~(j + 1 < i) /\ j + 1 # i /\ (j + 1) - 1 = j
            BY <1>3, <2>2
        <3>2. d[j + 1] = c[j]
            BY <1>2, <3>1
        <3> QED BY <1>3, <3>1, <3>2
    <2> QED BY <2>1, <2>2
<1>6. n \in Range(d)
    <2>1. ~(i < i)
        BY <1>3
    <2> QED BY <1>2, <1>3, <2>1
<1> QED BY <1>1, <1>3, <1>4, <1>5, <1>6

LEMMA RangeRemoved ==
    ASSUME NEW A, NEW c \in Seq(A), NEW i \in 1..Len(c), \A j, k \in 1..Len(c) : c[j] = c[k] => j = k
    PROVE  Range(RemoveAt(c, i)) = Range(c) \ {c[i]} /\ c[i] \in Range(c)
<1>1. PICK d, L : d = RemoveAt(c, i) /\ L = Len(c)
    OBVIOUS
<1>2. d \in Seq(A) /\ Len(d) = L - 1 /\ \A j \in 1..(L - 1) : d[j] = IF j < i THEN c[j] ELSE c[j + 1]
    <2>1. /\ RemoveAt(c, i) \in Seq(A)
          /\ Len(RemoveAt(c, i)) = Len(c) - 1
          /\ \A j \in 1..(Len(c) - 1) : RemoveAt(c, i)[j] = IF j < i THEN c[j] ELSE c[j + 1]
        BY Removed
    <2> QED BY <1>1, <2>1
<1>3. L \in Nat /\ Range(c) = {c[j] : j \in 1..L} /\ Range(d) = {d[j] : j \in 1..(L - 1)} /\ i \in 1..L
    BY <1>1, <1>2, SeqFacts
<1>4. ASSUME NEW j \in 1..(L - 1) PROVE d[j] \in Range(c) \ {c[i]}
    <2>1. j \in 1..L /\ j + 1 \in 1..L /\ (j < i => j # i) /\ (~(j < i) => j + 1 # i)
        BY <1>3
    <2>2. d[j] = IF j < i THEN c[j] ELSE c[j + 1]
        BY <1>2
    <2> QED BY <1>1, <1>3, <2>1, <2>2
<1>5. ASSUME NEW j \in 1..L, j # i PROVE c[j] \in Range(d)
    <2>1. CASE j < i
        <3>1. j \in 1..(L - 1)
            BY <1>3, <2>1
        <3> QED BY <1>2, <1>3, <2>1, <3>1
    <2>2. CASE ~(j < i)
        <3>1. j - 1 \in 1..(L - 1) /\ ~(j - 1 < i) /\ (j - 1) + 1 = j
            BY <1>3, <1>5, <2>2
        <3>2. d[j - 1] = c[j]
            BY <1>2, <3>1
        <3> QED BY <1>3, <3>1, <3>2
    <2> QED BY <2>1, <2>2
<1> QED BY <1>1, <1>3, <1>4, <1>5

\* The links in both directions once n is the i-th of s.
Placed(s, i, n, A, nx, pv, nx2, pv2) ==
    LET before == IF i = 1 THEN NULL ELSE s[i - 1]
        after == IF i = Len(s) + 1 THEN NULL ELSE s[i]
    IN  \A m \in A : nx2[m] = (IF m = n THEN after ELSE IF m = before THEN n ELSE nx[m])
                   /\ pv2[m] = (IF m = n THEN before ELSE IF m = after THEN n ELSE pv[m])

LEMMA PlacedIn ==
    ASSUME NEW A, NULL \notin A, NEW s, NEW h1, NEW t1, NEW nx, NEW pv, LinkedBy(s, A, h1, t1, nx, pv),
           NEW i \in 1..(Len(s) + 1), NEW n \in A, \A j \in 1..Len(s) : s[j] # n,
           NEW nx2, NEW pv2, Placed(s, i, n, A, nx, pv, nx2, pv2)
    PROVE  LinkedBy(InsertAt(s, i, n), A, IF i = 1 THEN n ELSE h1, IF i = Len(s) + 1 THEN n ELSE t1, nx2, pv2)
<1>1. PICK before : before = IF i = 1 THEN NULL ELSE s[i - 1]
    OBVIOUS
<1>2. PICK after : after = IF i = Len(s) + 1 THEN NULL ELSE s[i]
    OBVIOUS
<1>3. PICK r : r = InsertAt(s, i, n)
    OBVIOUS
<1>4. PICK h2 : h2 = IF i = 1 THEN n ELSE h1
    OBVIOUS
<1>5. PICK t2 : t2 = IF i = Len(s) + 1 THEN n ELSE t1
    OBVIOUS
<1>6. \A m \in A : nx2[m] = (IF m = n THEN after ELSE IF m = before THEN n ELSE nx[m])
                 /\ pv2[m] = (IF m = n THEN before ELSE IF m = after THEN n ELSE pv[m])
    BY <1>1, <1>2 DEF Placed
<1>7. LinkedBy(r, A, h2, t2, nx2, pv2)
    BY <1>1, <1>2, <1>3, <1>4, <1>5, <1>6, PutIn
<1> QED BY <1>3, <1>4, <1>5, <1>7

\* The links once n is the i-th of the children c of p.
InsertsAt(n, i, c, p, A, ch, nx, pv, ch2, nx2, pv2) ==
    LET before == IF i = 1 THEN NULL ELSE c[i - 1]
        after == IF i = Len(c) + 1 THEN NULL ELSE c[i]
        first == IF i = 1 THEN n ELSE ch[p]
        last == IF i = Len(c) + 1 THEN n ELSE LastOf(c)
    IN  \A m \in A :
          /\ ch2[m] = (IF m = p THEN first ELSE ch[m])
          /\ nx2[m] = (IF m = n THEN after ELSE IF m = before THEN n ELSE nx[m])
          /\ pv2[m] = (IF m = first THEN last ELSE IF m = n THEN before ELSE IF m = after THEN n ELSE pv[m])

\* n, which is in no container, becomes the i-th child of p.
LEMMA PutAt ==
    ASSUME NEW A, NULL \notin A, NEW K, NEW ch, NEW nx, NEW pv, Shaped(K, A, ch, nx, pv), NEW p \in A, NEW n \in A,
           \A q \in A : n \notin Range(K[q]), NEW i \in 1..(Len(K[p]) + 1),
           NEW ch2, NEW nx2, NEW pv2, InsertsAt(n, i, K[p], p, A, ch, nx, pv, ch2, nx2, pv2)
    PROVE  Shaped([K EXCEPT ![p] = InsertAt(K[p], i, n)], A, ch2, nx2, pv2)
<1>1. PICK c, d : c = K[p] /\ d = InsertAt(c, i, n)
    OBVIOUS
<1>2. Ring(c, A, ch[p], nx, pv) /\ c \in Seq(A) /\ K \in [A -> Seq(A)]
    BY <1>1 DEF Shaped
<1>3. Len(c) \in Nat /\ c \in [1..Len(c) -> A] /\ (c = <<>>) = (Len(c) = 0) /\ Range(c) = {c[j] : j \in 1..Len(c)}
      /\ i \in 1..(Len(c) + 1)
    BY <1>1, <1>2, SeqFacts
<1>4. PICK before, after, first, last :
        /\ before = (IF i = 1 THEN NULL ELSE c[i - 1]) /\ after = (IF i = Len(c) + 1 THEN NULL ELSE c[i])
        /\ first = (IF i = 1 THEN n ELSE ch[p]) /\ last = (IF i = Len(c) + 1 THEN n ELSE LastOf(c))
    OBVIOUS
<1>5. \A m \in A : /\ ch2[m] = (IF m = p THEN first ELSE ch[m])
                  /\ nx2[m] = (IF m = n THEN after ELSE IF m = before THEN n ELSE nx[m])
                  /\ pv2[m] = (IF m = first THEN last ELSE IF m = n THEN before ELSE IF m = after THEN n ELSE pv[m])
    BY <1>1, <1>4 DEF InsertsAt
<1>6. PICK lin, lin2 : lin = [m \in A |-> IF m = ch[p] THEN NULL ELSE pv[m]] /\ lin2 = [m \in A |-> IF m = first THEN NULL ELSE pv2[m]]
    OBVIOUS
<1>7. LinkedBy(c, A, ch[p], LastOf(c), nx, lin) /\ (c # <<>> => pv[ch[p]] = LastOf(c) /\ ch[p] \in A /\ LastOf(c) \in A)
    <2>1. /\ LinkedBy(c, A, ch[p], LastOf(c), nx, [m \in A |-> IF m = ch[p] THEN NULL ELSE pv[m]])
          /\ c # <<>> => pv[ch[p]] = LastOf(c) /\ ch[p] \in A /\ LastOf(c) \in A
        BY <1>2, RingLine
    <2> QED BY <1>6, <2>1
<1>8. n \notin Range(c) /\ \A j \in 1..Len(c) : c[j] # n
    BY <1>1, <1>3
<1>9. c # <<>> => ch[p] = c[1] /\ 1 \in 1..Len(c) /\ Len(c) \in 1..Len(c) /\ LastOf(c) = c[Len(c)] /\ ch[p] # n
    <2>1. ch[p] = FirstOf(c)
        BY <1>2 DEF Ring
    <2> QED BY <1>3, <1>8, <2>1 DEF FirstOf, LastOf
<1>10. c = <<>> => ch[p] = NULL
    BY <1>2 DEF Ring, FirstOf
<1>11. \A m \in A : lin2[m] = IF m = n THEN before ELSE IF m = after THEN n ELSE lin[m]
    <2>1. CASE i = 1
        <3>1. first = n /\ before = NULL /\ after = ch[p]
            BY <1>3, <1>4, <1>9, <1>10, <2>1
        <3> QED BY <1>5, <1>6, <3>1
    <2>2. CASE i # 1
        <3>1. c # <<>> /\ i - 1 \in 1..Len(c) /\ first = ch[p]
            BY <1>3, <1>4, <2>2
        <3>2. ch[p] # after /\ ch[p] # NULL
            <4>1. CASE i = Len(c) + 1
                BY <1>4, <1>7, <3>1, <4>1
            <4>2. CASE i # Len(c) + 1
                <5>1. i \in 1..Len(c) /\ after = c[i]
                    BY <1>3, <1>4, <4>2
                <5>2. c[i] # c[1]
                    BY <1>2, <1>9, <2>2, <3>1, <5>1 DEF Ring
                <5> QED BY <1>7, <1>9, <3>1, <5>1, <5>2
            <4> QED BY <4>1, <4>2
        <3>3. ch[p] # n
            BY <1>9, <3>1
        <3> QED BY <1>5, <1>6, <3>1, <3>2, <3>3
    <2> QED BY <2>1, <2>2
<1>12. LinkedBy(d, A, first, last, nx2, lin2)
    <2>1. Placed(c, i, n, A, nx, lin, nx2, lin2)
        BY <1>4, <1>5, <1>11 DEF Placed
    <2>2. LinkedBy(InsertAt(c, i, n), A, IF i = 1 THEN n ELSE ch[p], IF i = Len(c) + 1 THEN n ELSE LastOf(c), nx2, lin2)
        BY <1>3, <1>7, <1>8, <2>1, PlacedIn
    <2> QED BY <1>1, <1>4, <2>2
<1>13. first \in A /\ pv2[first] = last /\ ch2[p] = first
    <2>1. first \in A
        BY <1>3, <1>4, <1>7
    <2> QED BY <1>5, <2>1
<1>14. Ring(d, A, ch2[p], nx2, pv2)
    BY <1>6, <1>12, <1>13, LineRing
<1>15. Range(d) = Range(c) \cup {n}
    BY <1>1, <1>2, <1>3, RangeInserted
<1>16. \A q \in A \ {p} : ch2[q] = ch[q] /\ Range(d) \cap Range(K[q]) = {}
    BY <1>1, <1>5, <1>15 DEF Shaped
<1>17. before \in Range(c) \cup {NULL} /\ after \in Range(c) \cup {NULL} /\ first \in Range(c) \cup {n}
    <2>1. (i # 1 => i - 1 \in 1..Len(c) /\ c # <<>>) /\ (i # Len(c) + 1 => i \in 1..Len(c))
        BY <1>3
    <2> QED BY <1>3, <1>4, <1>9, <2>1
<1>18. ASSUME NEW q \in A \ {p}, NEW m \in Range(K[q]) PROVE nx2[m] = nx[m] /\ pv2[m] = pv[m]
    <2>1. m \in A /\ m # n /\ m \notin Range(c) /\ m # NULL
        <3>1. K[q] \in Seq(A) /\ Range(K[q]) \subseteq A
            BY <1>2, SeqFacts
        <3> QED BY <1>1, <3>1 DEF Shaped
    <2> QED BY <1>5, <1>17, <2>1
<1>19. ASSUME NEW m \in A, m \notin Range(d), \A q \in A \ {p} : m \notin Range(K[q]) PROVE nx2[m] = NULL
    <2>1. m # n /\ m # before /\ m \notin Range(c)
        BY <1>15, <1>17, <1>19
    <2>2. \A q \in A : m \notin Range(K[q])
        BY <1>1, <1>19, <2>1
    <2> QED BY <1>5, <2>1, <2>2 DEF Shaped
<1>20. Others(K, A, p, d, ch, nx, pv, ch2, nx2, pv2)
    BY <1>16, <1>18, <1>19 DEF Others
<1>21. Shaped([K EXCEPT ![p] = d], A, ch2, nx2, pv2)
    BY <1>14, <1>20, OneChanged
<1> QED BY <1>1, <1>21

\* The links once the i-th of the children c of p is taken out.
RemovesAt(i, c, p, A, ch, nx, pv, ch2, nx2, pv2) ==
    LET n == c[i]
        before == IF i = 1 THEN NULL ELSE c[i - 1]
        after == IF i = Len(c) THEN NULL ELSE c[i + 1]
        first == IF i = 1 THEN after ELSE ch[p]
        last == IF i = Len(c) THEN before ELSE LastOf(c)
    IN  /\ \A m \in A : ch2[m] = (IF m = p THEN first ELSE ch[m])
                      /\ nx2[m] = (IF m = n THEN NULL ELSE IF m = before THEN after ELSE nx[m])
        /\ \A m \in A \ {n} : pv2[m] = (IF m = first THEN last ELSE IF m = after THEN before ELSE pv[m])

LEMMA TakeAt ==
    ASSUME NEW A, NULL \notin A, NEW K, NEW ch, NEW nx, NEW pv, Shaped(K, A, ch, nx, pv), NEW p \in A,
           NEW i \in 1..Len(K[p]),
           NEW ch2, NEW nx2, NEW pv2, RemovesAt(i, K[p], p, A, ch, nx, pv, ch2, nx2, pv2)
    PROVE  Shaped([K EXCEPT ![p] = RemoveAt(K[p], i)], A, ch2, nx2, pv2)
<1>1. PICK c, d, n : c = K[p] /\ d = RemoveAt(c, i) /\ n = c[i]
    OBVIOUS
<1>2. Ring(c, A, ch[p], nx, pv) /\ c \in Seq(A) /\ K \in [A -> Seq(A)]
    BY <1>1 DEF Shaped
<1>3. Len(c) \in Nat /\ c \in [1..Len(c) -> A] /\ (c = <<>>) = (Len(c) = 0) /\ Range(c) = {c[j] : j \in 1..Len(c)}
      /\ i \in 1..Len(c) /\ c # <<>> /\ n \in A
    <2>1. Len(c) \in Nat /\ c \in [1..Len(c) -> A] /\ (c = <<>>) = (Len(c) = 0) /\ Range(c) = {c[j] : j \in 1..Len(c)}
        BY <1>2, SeqFacts
    <2>2. i \in 1..Len(c) /\ Len(c) # 0
        BY <1>1, <2>1
    <2> QED BY <1>1, <2>1, <2>2
<1>4. PICK before, after, first, last :
        /\ before = (IF i = 1 THEN NULL ELSE c[i - 1]) /\ after = (IF i = Len(c) THEN NULL ELSE c[i + 1])
        /\ first = (IF i = 1 THEN after ELSE ch[p]) /\ last = (IF i = Len(c) THEN before ELSE LastOf(c))
    OBVIOUS
<1>5. /\ \A m \in A : ch2[m] = (IF m = p THEN first ELSE ch[m])
                    /\ nx2[m] = (IF m = n THEN NULL ELSE IF m = before THEN after ELSE nx[m])
      /\ \A m \in A \ {n} : pv2[m] = (IF m = first THEN last ELSE IF m = after THEN before ELSE pv[m])
    BY <1>1, <1>4 DEF RemovesAt
<1>6. PICK lin, lin2 : lin = [m \in A |-> IF m = ch[p] THEN NULL ELSE pv[m]] /\ lin2 = [m \in A |-> IF m = first THEN NULL ELSE pv2[m]]
    OBVIOUS
<1>7. LinkedBy(c, A, ch[p], LastOf(c), nx, lin) /\ pv[ch[p]] = LastOf(c) /\ ch[p] \in A /\ LastOf(c) \in A
    <2>1. /\ LinkedBy(c, A, ch[p], LastOf(c), nx, [m \in A |-> IF m = ch[p] THEN NULL ELSE pv[m]])
          /\ c # <<>> => pv[ch[p]] = LastOf(c) /\ ch[p] \in A /\ LastOf(c) \in A
        BY <1>2, RingLine
    <2> QED BY <1>3, <1>6, <2>1
<1>8. ch[p] = c[1] /\ 1 \in 1..Len(c) /\ Len(c) \in 1..Len(c) /\ LastOf(c) = c[Len(c)]
    <2>1. ch[p] = FirstOf(c)
        BY <1>2 DEF Ring
    <2> QED BY <1>3, <2>1 DEF FirstOf, LastOf
<1>9. \A j, k \in 1..Len(c) : c[j] = c[k] => j = k
    BY <1>2 DEF Ring
<1>10. nx[n] = after /\ lin[n] = before
    BY <1>1, <1>3, <1>4, <1>7 DEF LinkedBy
<1>11. /\ i # 1 => i - 1 \in 1..Len(c) /\ before = c[i - 1] /\ before \in A /\ before # NULL /\ before # n
       /\ i # Len(c) => i + 1 \in 1..Len(c) /\ after = c[i + 1] /\ after \in A /\ after # NULL /\ after # n
    <2>1. (i # 1 => i - 1 \in 1..Len(c) /\ i - 1 # i) /\ (i # Len(c) => i + 1 \in 1..Len(c) /\ i + 1 # i)
        BY <1>3
    <2> QED BY <1>1, <1>3, <1>4, <1>9, <2>1
<1>12. i # 1 => ch[p] # after /\ ch[p] # n
    <2> SUFFICES ASSUME i # 1 PROVE ch[p] # after /\ ch[p] # n
        OBVIOUS
    <2>1. c[1] # c[i]
        BY <1>3, <1>8, <1>9
    <2>2. CASE i = Len(c)
        BY <1>1, <1>4, <1>7, <1>8, <2>1, <2>2
    <2>3. CASE i # Len(c)
        <3>1. i + 1 # 1
            BY <1>3
        <3> QED BY <1>1, <1>8, <1>9, <1>11, <2>1, <2>3, <3>1
    <2> QED BY <2>2, <2>3
<1>13. ASSUME NEW m \in A, m # n PROVE lin2[m] = IF m = after THEN before ELSE lin[m]
    <2>1. CASE i = 1
        BY <1>1, <1>4, <1>5, <1>6, <1>8, <1>13, <2>1
    <2>2. CASE i # 1
        BY <1>4, <1>5, <1>6, <1>12, <1>13, <2>2
    <2> QED BY <2>1, <2>2
<1>14. LinkedBy(d, A, first, last, nx2, lin2)
    <2>1. \A m \in A \ {n} : nx2[m] = (IF m = lin[n] THEN nx[n] ELSE nx[m])
                          /\ lin2[m] = (IF m = nx[n] THEN lin[n] ELSE lin[m])
        BY <1>5, <1>10, <1>13
    <2>2. first = (IF lin[n] = NULL THEN nx[n] ELSE ch[p]) /\ last = (IF nx[n] = NULL THEN lin[n] ELSE LastOf(c))
        BY <1>4, <1>10, <1>11
    <2>3. Bridged(n, A, ch[p], LastOf(c), nx, lin, first, last, nx2, lin2)
        BY <2>1, <2>2 DEF Bridged
    <2>4. Bridged(c[i], A, ch[p], LastOf(c), nx, lin, first, last, nx2, lin2) /\ A \ {c[i]} \subseteq A
        BY <1>1, <2>3
    <2>5. LinkedBy(RemoveAt(c, i), A, first, last, nx2, lin2)
        BY <1>3, <1>7, <2>4, TakenOut
    <2> QED BY <1>1, <2>5
<1>15. first \in Range(c) \cup {NULL} /\ first # n /\ before \in Range(c) \cup {NULL} /\ after \in Range(c) \cup {NULL}
    BY <1>1, <1>3, <1>4, <1>8, <1>11, <1>12
<1>16. d # <<>> => pv2[first] = last
    <2> SUFFICES ASSUME d # <<>> PROVE pv2[first] = last
        OBVIOUS
    <2>1. first = FirstOf(d) /\ d \in Seq(A)
        BY <1>14 DEF LinkedBy
    <2>2. first \in A
        <3>1. Len(d) \in Nat /\ Len(d) # 0 /\ d \in [1..Len(d) -> A]
            BY <2>1, SeqFacts
        <3> QED BY <2>1, <3>1 DEF FirstOf
    <2> QED BY <1>5, <1>15, <2>2
<1>17. ch2[p] = first
    BY <1>5
<1>18. Ring(d, A, ch2[p], nx2, pv2)
    <2>1. LinkedBy(d, A, first, last, nx2, [m \in A |-> IF m = first THEN NULL ELSE pv2[m]])
        BY <1>6, <1>14
    <2> QED BY <1>16, <1>17, <2>1, LineRing
<1>19. Range(d) = Range(c) \ {n} /\ n \in Range(c)
    <2>1. Range(RemoveAt(c, i)) = Range(c) \ {c[i]} /\ c[i] \in Range(c)
        BY <1>2, <1>3, <1>9, RangeRemoved
    <2> QED BY <1>1, <2>1
<1>20. \A q \in A \ {p} : ch2[q] = ch[q] /\ Range(d) \cap Range(K[q]) = {}
    BY <1>1, <1>5, <1>19 DEF Shaped
<1>21. ASSUME NEW q \in A \ {p}, NEW m \in Range(K[q]) PROVE nx2[m] = nx[m] /\ pv2[m] = pv[m]
    <2>1. m \in A /\ m \notin Range(c) /\ m # NULL
        <3>1. K[q] \in Seq(A) /\ Range(K[q]) \subseteq A
            BY <1>2, SeqFacts
        <3> QED BY <1>1, <3>1 DEF Shaped
    <2> QED BY <1>5, <1>15, <1>19, <2>1
<1>22. ASSUME NEW m \in A, m \notin Range(d), \A q \in A \ {p} : m \notin Range(K[q]) PROVE nx2[m] = NULL
    <2>1. CASE m = n
        BY <1>5, <2>1
    <2>2. CASE m # n
        <3>1. m # before /\ m \notin Range(c)
            BY <1>15, <1>19, <1>22, <2>2
        <3>2. \A q \in A : m \notin Range(K[q])
            BY <1>1, <1>22, <3>1
        <3> QED BY <1>5, <2>2, <3>1, <3>2 DEF Shaped
    <2> QED BY <2>1, <2>2
<1>23. Others(K, A, p, d, ch, nx, pv, ch2, nx2, pv2)
    BY <1>20, <1>21, <1>22 DEF Others
<1>24. Shaped([K EXCEPT ![p] = d], A, ch2, nx2, pv2)
    BY <1>18, <1>23, OneChanged
<1> QED BY <1>1, <1>24

\* The links once n stands where the i-th of the children c of p stood.
SwapsAt(n, i, c, p, A, ch, nx, pv, ch2, nx2, pv2) ==
    LET item == c[i]
        before == IF i = 1 THEN NULL ELSE c[i - 1]
        after == IF i = Len(c) THEN NULL ELSE c[i + 1]
        first == IF i = 1 THEN n ELSE ch[p]
        last == IF i = Len(c) THEN n ELSE LastOf(c)
    IN  /\ \A m \in A : ch2[m] = (IF m = p THEN first ELSE ch[m])
                      /\ nx2[m] = (IF m = item THEN NULL ELSE IF m = n THEN after ELSE IF m = before THEN n ELSE nx[m])
        /\ \A m \in A \ {item} :
             pv2[m] = (IF m = first THEN last ELSE IF m = n THEN before ELSE IF m = after THEN n ELSE pv[m])

LEMMA SwapAt ==
    ASSUME NEW A, NULL \notin A, NEW K, NEW ch, NEW nx, NEW pv, Shaped(K, A, ch, nx, pv), NEW p \in A, NEW n \in A,
           \A q \in A : n \notin Range(K[q]), NEW i \in 1..Len(K[p]),
           NEW ch2, NEW nx2, NEW pv2, SwapsAt(n, i, K[p], p, A, ch, nx, pv, ch2, nx2, pv2)
    PROVE  /\ Shaped([K EXCEPT ![p] = ReplaceAt(K[p], i, n)], A, ch2, nx2, pv2)
           /\ Range(ReplaceAt(K[p], i, n)) = (Range(K[p]) \ {K[p][i]}) \cup {n} /\ K[p][i] \in Range(K[p])
<1>1. PICK c, d, item : c = K[p] /\ d = ReplaceAt(c, i, n) /\ item = c[i]
    OBVIOUS
<1>2. Ring(c, A, ch[p], nx, pv) /\ c \in Seq(A) /\ K \in [A -> Seq(A)]
    BY <1>1 DEF Shaped
<1>3. PICK L : L = Len(c)
    OBVIOUS
<1>4. L \in Nat /\ c \in [1..L -> A] /\ (c = <<>>) = (L = 0) /\ Range(c) = {c[j] : j \in 1..L}
      /\ i \in 1..L /\ c # <<>> /\ item \in A
    BY <1>1, <1>2, <1>3, SeqFacts
<1>5. PICK before, after, first, last :
        /\ before = (IF i = 1 THEN NULL ELSE c[i - 1]) /\ after = (IF i = L THEN NULL ELSE c[i + 1])
        /\ first = (IF i = 1 THEN n ELSE ch[p]) /\ last = (IF i = L THEN n ELSE LastOf(c))
    OBVIOUS
<1>6. /\ \A m \in A : ch2[m] = (IF m = p THEN first ELSE ch[m])
                    /\ nx2[m] = (IF m = item THEN NULL ELSE IF m = n THEN after ELSE IF m = before THEN n ELSE nx[m])
      /\ \A m \in A \ {item} :
           pv2[m] = (IF m = first THEN last ELSE IF m = n THEN before ELSE IF m = after THEN n ELSE pv[m])
    BY <1>1, <1>3, <1>5 DEF SwapsAt
<1>7. d \in Seq(A) /\ Len(d) = L /\ \A j \in 1..L : d[j] = IF j = i THEN n ELSE c[j]
    <2>1. d = [c EXCEPT ![i] = n]
        BY <1>1 DEF ReplaceAt
    <2>2. d \in [1..L -> A] /\ \A j \in 1..L : d[j] = IF j = i THEN n ELSE c[j]
        BY <1>4, <2>1
    <2> QED BY <1>4, <2>2
<1>8. /\ \A j, k \in 1..L : c[j] = c[k] => j = k
      /\ \A j \in 1..L : nx[c[j]] = IF j = L THEN NULL ELSE c[j + 1]
      /\ \A j \in 1..L : pv[c[j]] = IF j = 1 THEN c[L] ELSE c[j - 1]
    BY <1>2, <1>3 DEF Ring
<1>9. \A j \in 1..L : c[j] # n /\ c[j] \in A /\ c[j] # NULL
    BY <1>1, <1>4
<1>10. ch[p] = c[1] /\ 1 \in 1..L /\ L \in 1..L /\ LastOf(c) = c[L]
    <2>1. ch[p] = FirstOf(c)
        BY <1>2 DEF Ring
    <2> QED BY <1>3, <1>4, <2>1 DEF FirstOf, LastOf
<1>11. \A j \in 1..L : d[j] \in A /\ d[j] # item
    BY <1>1, <1>4, <1>7, <1>8, <1>9
<1>12. \A j, k \in 1..L : d[j] = d[k] => j = k
    BY <1>7, <1>8, <1>9
<1>13. first = d[1] /\ last = d[L]
    BY <1>4, <1>5, <1>7, <1>10
<1>14. ASSUME NEW j \in 1..L PROVE nx2[d[j]] = IF j = L THEN NULL ELSE d[j + 1]
    <2>1. nx2[d[j]] = IF d[j] = n THEN after ELSE IF d[j] = before THEN n ELSE nx[d[j]]
        BY <1>6, <1>11
    <2>2. CASE j = i
        <3>1. j # L => j + 1 \in 1..L /\ j + 1 # i
            BY <1>4, <2>2
        <3> QED BY <1>5, <1>7, <2>1, <2>2, <3>1
    <2>3. CASE j # i /\ j + 1 = i
        <3>1. j # L /\ i - 1 = j /\ i # 1 /\ d[j] = c[j] /\ d[j] # n /\ d[j + 1] = n
            BY <1>4, <1>7, <1>9, <2>3
        <3> QED BY <1>5, <2>1, <3>1
    <2>4. CASE j # i /\ j + 1 # i
        <3>1. (j # L => j + 1 \in 1..L) /\ (i # 1 => i - 1 \in 1..L /\ i - 1 # j)
            BY <1>4, <2>4
        <3>2. d[j] = c[j] /\ d[j] # n /\ d[j] # before
            <4>1. CASE i = 1
                BY <1>5, <1>7, <1>9, <2>4, <4>1
            <4>2. CASE i # 1
                BY <1>5, <1>7, <1>8, <1>9, <2>4, <3>1, <4>2
            <4> QED BY <4>1, <4>2
        <3>3. j # L => d[j + 1] = c[j + 1]
            BY <1>7, <2>4, <3>1
        <3> QED BY <1>8, <2>1, <3>2, <3>3
    <2> QED BY <2>2, <2>3, <2>4
<1>15. ASSUME NEW j \in 1..L PROVE pv2[d[j]] = IF j = 1 THEN d[L] ELSE d[j - 1]
    <2>1. pv2[d[j]] = IF d[j] = first THEN last ELSE IF d[j] = n THEN before ELSE IF d[j] = after THEN n ELSE pv[d[j]]
        BY <1>6, <1>11
    <2>2. CASE j = 1
        BY <1>13, <2>1, <2>2
    <2>3. CASE j # 1 /\ j = i
        <3>1. j - 1 \in 1..L /\ j - 1 # i
            BY <1>4, <2>3
        <3>2. d[j] # first
            BY <1>10, <1>12, <1>13, <2>3
        <3> QED BY <1>5, <1>7, <2>1, <2>3, <3>1, <3>2
    <2>4. CASE j # 1 /\ j = i + 1
        <3>1. j - 1 = i /\ j # i /\ i # L /\ i \in 1..L
            BY <1>4, <2>4
        <3>2. d[j] # first /\ d[j] = c[j] /\ d[j] # n /\ after = c[j] /\ d[j - 1] = n
            BY <1>5, <1>7, <1>9, <1>10, <1>12, <1>13, <2>4, <3>1
        <3> QED BY <2>1, <2>4, <3>2
    <2>5. CASE j # 1 /\ j # i /\ j # i + 1
        <3>1. j - 1 \in 1..L /\ j - 1 # i /\ (i # L => i + 1 \in 1..L)
            BY <1>4, <2>5
        <3>2. d[j] # first /\ d[j] = c[j] /\ d[j] # n /\ d[j - 1] = c[j - 1]
            BY <1>7, <1>9, <1>10, <1>12, <1>13, <2>5, <3>1
        <3>3. d[j] # after
            <4>1. CASE i = L
                BY <1>5, <1>9, <3>2, <4>1
            <4>2. CASE i # L
                BY <1>5, <1>8, <2>5, <3>1, <3>2, <4>2
            <4> QED BY <4>1, <4>2
        <3> QED BY <1>8, <2>1, <2>5, <3>2, <3>3
    <2> QED BY <2>2, <2>3, <2>4, <2>5
<1>16. ch2[p] = FirstOf(d)
    <2>1. d # <<>>
        BY <1>4, <1>7, SeqFacts
    <2> QED BY <1>6, <1>13, <2>1 DEF FirstOf
<1>17. Ring(d, A, ch2[p], nx2, pv2)
    BY <1>7, <1>12, <1>14, <1>15, <1>16 DEF Ring
<1>18. Range(d) = (Range(c) \ {item}) \cup {n} /\ item \in Range(c)
    <2>1. Range(d) = {d[j] : j \in 1..L}
        BY <1>7, SeqFacts
    <2> QED BY <1>1, <1>4, <1>7, <1>8, <2>1
<1>19. \A q \in A \ {p} : ch2[q] = ch[q] /\ Range(d) \cap Range(K[q]) = {}
    BY <1>1, <1>6, <1>18 DEF Shaped
<1>20. before \in Range(c) \cup {NULL} /\ after \in Range(c) \cup {NULL} /\ first \in Range(c) \cup {n}
    <2>1. (i # 1 => i - 1 \in 1..L) /\ (i # L => i + 1 \in 1..L)
        BY <1>4
    <2> QED BY <1>4, <1>5, <1>10, <2>1
<1>21. ASSUME NEW q \in A \ {p}, NEW m \in Range(K[q]) PROVE nx2[m] = nx[m] /\ pv2[m] = pv[m]
    <2>1. m \in A /\ m # n /\ m \notin Range(c) /\ m # NULL
        <3>1. K[q] \in Seq(A) /\ Range(K[q]) \subseteq A
            BY <1>2, SeqFacts
        <3> QED BY <1>1, <3>1 DEF Shaped
    <2> QED BY <1>6, <1>18, <1>20, <2>1
<1>22. ASSUME NEW m \in A, m \notin Range(d), \A q \in A \ {p} : m \notin Range(K[q]) PROVE nx2[m] = NULL
    <2>1. CASE m = item
        BY <1>6, <2>1
    <2>2. CASE m # item
        <3>1. m # n /\ m # before /\ m \notin Range(c)
            BY <1>18, <1>20, <1>22, <2>2
        <3>2. \A q \in A : m \notin Range(K[q])
            BY <1>1, <1>22, <3>1
        <3> QED BY <1>6, <2>2, <3>1, <3>2 DEF Shaped
    <2> QED BY <2>1, <2>2
<1>23. Others(K, A, p, d, ch, nx, pv, ch2, nx2, pv2)
    BY <1>19, <1>21, <1>22 DEF Others
<1>24. Shaped([K EXCEPT ![p] = d], A, ch2, nx2, pv2)
    BY <1>17, <1>23, OneChanged
<1> QED BY <1>1, <1>18, <1>24

\* The items of the tree under n.
Under(K, A, n) == {m \in A : \A S \in SUBSET A : n \in S /\ (\A x \in S : Range(K[x]) \subseteq S) => m \in S}

LEMMA UnderFacts ==
    ASSUME NEW A, NEW K \in [A -> Seq(A)], NEW n \in A
    PROVE  /\ Under(K, A, n) \subseteq A /\ n \in Under(K, A, n)
           /\ \A x \in Under(K, A, n) : Range(K[x]) \subseteq Under(K, A, n)
           /\ \A S \in SUBSET A : n \in S /\ (\A x \in S : Range(K[x]) \subseteq S) => Under(K, A, n) \subseteq S
<1>1. \A q \in A : Range(K[q]) \subseteq A
    BY SeqFacts
<1>2. Under(K, A, n) \subseteq A /\ n \in Under(K, A, n)
    BY DEF Under
<1>3. \A S \in SUBSET A : n \in S /\ (\A x \in S : Range(K[x]) \subseteq S) => Under(K, A, n) \subseteq S
    BY DEF Under
<1>4. ASSUME NEW x \in Under(K, A, n), NEW y \in Range(K[x]) PROVE y \in Under(K, A, n)
    <2>1. y \in A
        BY <1>1, <1>2
    <2>2. ASSUME NEW S \in SUBSET A, n \in S, \A z \in S : Range(K[z]) \subseteq S PROVE y \in S
        BY <1>3, <2>2
    <2> QED BY <2>1, <2>2 DEF Under
<1> QED BY <1>2, <1>3, <1>4

LEMMA HasParent ==
    ASSUME NEW A, NEW K \in [A -> Seq(A)], NEW n \in A, NEW o \in Under(K, A, n), o # n
    PROVE  \E q \in Under(K, A, n) : o \in Range(K[q])
<1>1. PICK T : T = Under(K, A, n)
    OBVIOUS
<1>2. /\ T \subseteq A /\ n \in T /\ \A x \in T : Range(K[x]) \subseteq T
      /\ \A S \in SUBSET A : n \in S /\ (\A x \in S : Range(K[x]) \subseteq S) => T \subseteq S
    BY <1>1, UnderFacts
<1> SUFFICES ASSUME \A q \in T : o \notin Range(K[q]) PROVE FALSE
    BY <1>1
<1>3. PICK S : S = T \ {o}
    OBVIOUS
<1>4. S \in SUBSET A /\ n \in S /\ \A x \in S : Range(K[x]) \subseteq S
    BY <1>2, <1>3
<1>5. T \subseteq S
    BY <1>2, <1>4
<1> QED BY <1>1, <1>3, <1>5

\* An item and what is below it.
LEMMA TreesAre ==
    ASSUME NEW links, NEW A, A \subseteq Items0, NEW K, Shows(links, K, A), NEW n \in A
    PROVE  Json!TreesIn(links, {n}) = Under(K, A, n)
<1>1. K \in [A -> Seq(A)]
    BY DEF Shows, Shaped
<1>2. PICK T : T = Under(K, A, n)
    OBVIOUS
<1>3. /\ T \subseteq A /\ n \in T /\ \A x \in T : Range(K[x]) \subseteq T
      /\ \A S \in SUBSET A : n \in S /\ (\A x \in S : Range(K[x]) \subseteq S) => T \subseteq S
    BY <1>1, <1>2, UnderFacts
<1>4. \A f : Json!Range(f) = Range(f)
    BY DEF Json!Range, Range
<1>5. \A x \in A : Json!ChildrenIn(links, x) = K[x]
    <2> SUFFICES ASSUME NEW x \in A PROVE Json!ChildrenIn(links, x) = K[x]
        OBVIOUS
    <2> QED BY ChildrenAre
<1>6. Json!TreesIn(links, {n}) = {m \in Items0 : \A S \in SUBSET Items0 :
          n \in S /\ (\A x \in S : Range(Json!ChildrenIn(links, x)) \subseteq S) => m \in S}
    BY <1>4 DEF Json!TreesIn
<1>7. ASSUME NEW m \in Json!TreesIn(links, {n}) PROVE m \in T
    <2>1. T \in SUBSET Items0 /\ n \in T
        BY <1>3
    <2>2. \A x \in T : Range(Json!ChildrenIn(links, x)) \subseteq T
        BY <1>3, <1>5
    <2> QED BY <1>6, <2>1, <2>2
<1>8. ASSUME NEW m \in T PROVE m \in Json!TreesIn(links, {n})
    <2>1. ASSUME NEW S \in SUBSET Items0, n \in S, \A x \in S : Range(Json!ChildrenIn(links, x)) \subseteq S
          PROVE  m \in S
        <3>1. PICK B : B = S \cap A
            OBVIOUS
        <3>2. \A x \in A : Range(K[x]) \subseteq A
            BY <1>1, SeqFacts
        <3>3. B \in SUBSET A /\ n \in B /\ \A x \in B : Range(K[x]) \subseteq B
            BY <1>5, <2>1, <3>1, <3>2
        <3>4. T \subseteq B
            BY <1>3, <3>3
        <3> QED BY <3>1, <3>4
    <2> QED BY <1>3, <1>6, <2>1
<1> QED BY <1>2, <1>7, <1>8

\* The links of some items, and an item whose next is NULL: cJSON_Delete frees its tree.
LEMMA DeletedAre ==
    ASSUME NEW links, NEW A, A \subseteq Items0, NEW K, Shows(links, K, A),
           NEW n \in A, links.next[n] = NULL
    PROVE  Json!DeletedIn(links, n) = Under(K, A, n)
<1>1. Json!ChainIn(links, n) = <<n>>
    <2>1. PICK s : s = <<n>>
        OBVIOUS
    <2>2. s \in Seq(Items0) /\ Len(s) = 1 /\ s # <<>> /\ s[1] = n
        BY <2>1
    <2>3. Chain(Items0, links.next, s)
        BY <2>2 DEF Chain
    <2>4. DOMAIN s = 1..1
        BY <2>2, SeqFacts
    <2>5. IsInjective(s)
        BY <2>4 DEF IsInjective
    <2>6. Len(s) <= Cardinality(Items0)
        BY <2>2, <2>5, Fits, ItemAssumption
    <2>7. Along(Items0, FirstOf(s), links.next) = s
        BY <2>3, <2>6, WalkSees, ItemAssumption
    <2>8. FirstOf(s) = n
        BY <2>2 DEF FirstOf
    <2> QED BY <2>1, <2>7, <2>8, ItemWalk
<1>2. Json!Range(<<n>>) = {n}
    BY DEF Json!Range
<1>3. Json!DeletedIn(links, n) = Json!TreesIn(links, {n})
    BY <1>1, <1>2 DEF Json!DeletedIn
<1> QED BY <1>3, TreesAre

\* A tree in no container is freed, the other links stay.
Alike(B, ch, nx, pv, ch2, nx2, pv2) == \A m \in B : ch2[m] = ch[m] /\ nx2[m] = nx[m] /\ pv2[m] = pv[m]

LEMMA Dropped ==
    ASSUME NEW A, NEW K, NEW ch, NEW nx, NEW pv, Shaped(K, A, ch, nx, pv), NEW n \in A,
           \A q \in A : n \notin Range(K[q]), NEW G, G = Under(K, A, n), NEW B, B = A \ G,
           NEW K2, K2 = [m \in B |-> K[m]], NEW ch2, NEW nx2, NEW pv2, Alike(B, ch, nx, pv, ch2, nx2, pv2)
    PROVE  Shaped(K2, B, ch2, nx2, pv2)
<1> USE DEF Alike
<1>1. K \in [A -> Seq(A)]
    BY DEF Shaped
<1>2. G \subseteq A /\ n \in G /\ \A x \in G : Range(K[x]) \subseteq G
    BY <1>1, UnderFacts
<1>3. \A q \in A : Range(K[q]) \subseteq A
    BY <1>1, SeqFacts
<1>4. ASSUME NEW q \in A \ G PROVE Range(K[q]) \subseteq A \ G
    <2> SUFFICES ASSUME NEW x \in Range(K[q]), x \in G PROVE FALSE
        BY <1>3
    <2>1. x # n
        OBVIOUS
    <2>2. PICK r \in G : x \in Range(K[r])
        BY <1>1, <2>1, HasParent
    <2>3. r # q /\ r \in A /\ q \in A
        BY <1>2
    <2>4. Range(K[r]) \cap Range(K[q]) = {}
        BY <2>3 DEF Shaped
    <2> QED BY <2>2, <2>4
<1>6. \A q \in B : K2[q] = K[q] /\ q \in A
    OBVIOUS
<1>7. ASSUME NEW q \in B PROVE Ring(K2[q], B, ch2[q], nx2, pv2)
    <2>1. Ring(K[q], A, ch[q], nx, pv)
        BY <1>6 DEF Shaped
    <2>2. \A m \in Range(K[q]) : m \in B /\ nx2[m] = nx[m] /\ pv2[m] = pv[m]
        BY <1>4
    <2>3. Ring(K[q], B, ch[q], nx2, pv2)
        BY <2>1, <2>2, SameRing
    <2> QED BY <1>6, <2>3
<1>8. K2 \in [B -> Seq(B)]
    <2>1. \A q \in B : K2[q] \in Seq(B)
        BY <1>7 DEF Ring
    <2> QED BY <2>1
<1>9. \A q, r \in B : q # r => Range(K2[q]) \cap Range(K2[r]) = {}
    BY <1>6 DEF Shaped
<1>10. ASSUME NEW m \in B, \A q \in B : m \notin Range(K2[q]) PROVE nx2[m] = NULL
    <2>1. \A q \in A : m \notin Range(K[q])
        BY <1>2, <1>6, <1>10
    <2>2. nx[m] = NULL
        BY <1>6, <2>1 DEF Shaped
    <2> QED BY <2>2
<1>11. Shaped(K2, B, ch2, nx2, pv2)
    BY <1>7, <1>8, <1>9, <1>10 DEF Shaped
<1> QED BY <1>11

\* No item is below itself: every item has a rank above those of its children.
Ranked(K, A, rank) == rank \in [A -> Nat] /\ \A p \in A : \A m \in Range(K[p]) : rank[m] < rank[p]

LEMMA NotUnder ==
    ASSUME NEW A, NEW K \in [A -> Seq(A)], NEW rank, Ranked(K, A, rank), NEW p \in A, NEW n \in Range(K[p])
    PROVE  p \notin Under(K, A, n)
<1>1. \A q \in A : Range(K[q]) \subseteq A
    BY SeqFacts
<1>2. n \in A /\ rank[n] \in Nat /\ rank[p] \in Nat /\ rank[n] < rank[p]
    BY <1>1 DEF Ranked
<1>3. PICK S : S = {m \in A : rank[m] <= rank[n]}
    OBVIOUS
<1>4. S \in SUBSET A /\ n \in S
    BY <1>2, <1>3
<1>5. ASSUME NEW x \in S, NEW y \in Range(K[x]) PROVE y \in S
    <2>1. x \in A /\ y \in A /\ rank[y] < rank[x] /\ rank[x] <= rank[n] /\ rank[x] \in Nat /\ rank[y] \in Nat
        BY <1>1, <1>3 DEF Ranked
    <2> QED BY <1>2, <1>3, <2>1
<1>6. \A x \in S : Range(K[x]) \subseteq S
    BY <1>5
<1>7. Under(K, A, n) \subseteq S
    BY <1>2, <1>4, <1>6, UnderFacts
<1>8. p \notin S
    BY <1>2, <1>3
<1> QED BY <1>7, <1>8

Adds(K2, K, A, p, n) == \A q \in A : \A m \in Range(K2[q]) : m \in Range(K[q]) \/ (q = p /\ m = n)

LEMMA StillRanked ==
    ASSUME NEW A, NEW K \in [A -> Seq(A)], NEW rank, Ranked(K, A, rank), NEW p \in A, NEW n \in A, p \notin Under(K, A, n),
           NEW K2, Adds(K2, K, A, p, n)
    PROVE  \E r : Ranked(K2, A, r)
<1>1. \A q \in A : Range(K[q]) \subseteq A
    BY SeqFacts
<1>2. PICK T : T = Under(K, A, n)
    OBVIOUS
<1>3. T \subseteq A /\ n \in T /\ p \notin T /\ \A x \in T : Range(K[x]) \subseteq T
    BY <1>2, UnderFacts
<1>4. rank \in [A -> Nat] /\ rank[n] \in Nat
    BY DEF Ranked
<1>5. PICK r : r = [m \in A |-> IF m \in T THEN rank[m] ELSE rank[m] + rank[n] + 1]
    OBVIOUS
<1>6. r \in [A -> Nat]
    BY <1>4, <1>5
<1>7. ASSUME NEW q \in A, NEW m \in Range(K2[q]) PROVE r[m] < r[q]
    <2>1. CASE m \in Range(K[q])
        <3>1. m \in A /\ rank[m] < rank[q] /\ rank[m] \in Nat /\ rank[q] \in Nat /\ (q \in T => m \in T)
            BY <1>1, <1>3, <1>4, <2>1 DEF Ranked
        <3> QED BY <1>4, <1>5, <3>1
    <2>2. CASE q = p /\ m = n
        <3>1. r[q] = rank[p] + rank[n] + 1 /\ r[m] = rank[n] /\ rank[p] \in Nat
            BY <1>3, <1>4, <1>5, <2>2
        <3> QED BY <1>4, <3>1
    <2> QED BY <1>7, <2>1, <2>2 DEF Adds
<1> QED BY <1>6, <1>7 DEF Ranked

-----------------------------------------------------------------------------
(* The links after each operation                                          *)

Links == [child : [Items0 -> Items0 \cup {NULL}], prev : [Items0 -> Items0 \cup {NULL}],
          next : [Items0 -> Items0 \cup {NULL}]]

ItemTypes == h \in Links /\ string \in [Items0 -> Keys0 \cup {NULL}] /\ items \subseteq Items0

ItemInv == ItemTypes /\ \E K, rank : Shows(h, K, items) /\ Ranked(K, items, rank)

LEMMA LinkFields ==
    ASSUME NEW g \in Links
    PROVE  /\ g.child \in [Items0 -> Items0 \cup {NULL}] /\ g.prev \in [Items0 -> Items0 \cup {NULL}]
           /\ g.next \in [Items0 -> Items0 \cup {NULL}]
    BY DEF Links

\* One assignment.
SetChild(g, a, b) == [g EXCEPT !.child[a] = b]
SetPrev(g, a, b) == [g EXCEPT !.prev[a] = b]
SetNext(g, a, b) == [g EXCEPT !.next[a] = b]

ChildDone(g, a, b, k) ==
    k \in Links /\ k.prev = g.prev /\ k.next = g.next /\ \A m \in Items0 : k.child[m] = IF m = a THEN b ELSE g.child[m]

LEMMA ChildSet ==
    ASSUME NEW g, g \in Links, NEW a, a \in Items0, NEW b, b \in Items0 \cup {NULL}, NEW k, k = SetChild(g, a, b)
    PROVE  ChildDone(g, a, b, k) /\ k \in Links
    BY DEF Links, SetChild, ChildDone

PrevDone(g, a, b, k) ==
    k \in Links /\ k.child = g.child /\ k.next = g.next /\ \A m \in Items0 : k.prev[m] = IF m = a THEN b ELSE g.prev[m]

LEMMA PrevSet ==
    ASSUME NEW g, g \in Links, NEW a, a \in Items0, NEW b, b \in Items0 \cup {NULL}, NEW k, k = SetPrev(g, a, b)
    PROVE  PrevDone(g, a, b, k) /\ k \in Links
    BY DEF Links, SetPrev, PrevDone

NextDone(g, a, b, k) ==
    k \in Links /\ k.child = g.child /\ k.prev = g.prev /\ \A m \in Items0 : k.next[m] = IF m = a THEN b ELSE g.next[m]

LEMMA NextSet ==
    ASSUME NEW g, g \in Links, NEW a, a \in Items0, NEW b, b \in Items0 \cup {NULL}, NEW k, k = SetNext(g, a, b)
    PROVE  NextDone(g, a, b, k) /\ k \in Links
    BY DEF Links, SetNext, NextDone

\* The children of each item.
ItemKids == [n \in items |-> Json!Children(n)]

LEMMA ItemsAre ==
    ASSUME ItemTypes, NEW K, Shows(h, K, items)
    PROVE  /\ K \in [items -> Seq(items)] /\ ItemKids = K /\ NULL \notin items
           /\ \A p \in items : Json!Children(p) = K[p] /\ Range(K[p]) \subseteq items
<1>1. items \subseteq Items0 /\ NULL \notin items
    BY ItemAssumption DEF ItemTypes
<1>2. K \in [items -> Seq(items)]
    BY DEF Shows, Shaped
<1>3. ASSUME NEW p \in items PROVE Json!Children(p) = K[p]
    BY <1>1, ChildrenAre DEF Json!Children
<1>4. \A p \in items : Range(K[p]) \subseteq items
    BY <1>2, SeqFacts
<1> QED BY <1>1, <1>2, <1>3, <1>4 DEF ItemKids

LEMMA ItemRange == \A f : Json!Range(f) = Range(f)
    BY DEF Json!Range, Range

\* What the caller holds: an item in no container, and its tree.
LEMMA Held ==
    ASSUME ItemTypes, NEW K, Shows(h, K, items), NEW n, Json!Root(n)
    PROVE  /\ n \in items /\ n # NULL /\ h.next[n] = NULL /\ \A q \in items : n \notin Range(K[q])
           /\ Json!Deleted(n) = Under(K, items, n)
<1>1. n \in items /\ \A q \in items : n \notin Range(K[q])
    BY ItemsAre, ItemRange DEF Json!Root
<1>2. h.next[n] = NULL
    BY <1>1 DEF Shows, Shaped
<1>3. items \subseteq Items0
    BY DEF ItemTypes
<1>4. Json!DeletedIn(h, n) = Under(K, items, n)
    BY <1>1, <1>2, <1>3, DeletedAre
<1> QED BY <1>1, <1>2, <1>4, ItemsAre DEF Json!Deleted

LEMMA Addable ==
    ASSUME ItemTypes, NEW K, Shows(h, K, items), NEW p, NEW n, Json!MayAdd(p, n)
    PROVE  /\ p \in items /\ n \in items /\ p # n /\ n # NULL /\ h.next[n] = NULL
           /\ (\A q \in items : n \notin Range(K[q])) /\ p \notin Under(K, items, n)
<1>1. p \in items /\ Json!Root(n) /\ p \notin Json!Deleted(n)
    BY DEF Json!MayAdd
<1>2. /\ n \in items /\ n # NULL /\ h.next[n] = NULL /\ \A q \in items : n \notin Range(K[q])
      /\ Json!Deleted(n) = Under(K, items, n)
    BY <1>1, Held
<1>3. K \in [items -> Seq(items)]
    BY ItemsAre
<1>4. n \in Under(K, items, n)
    BY <1>2, <1>3, UnderFacts
<1> QED BY <1>1, <1>2, <1>4

\* An append by add_item_to_array.
LEMMA Appends ==
    ASSUME ItemTypes, NEW K, Shows(h, K, items), NEW p, NEW n, Json!MayAdd(p, n),
           NEW g, g = Json!add_item_to_array(p, n)
    PROVE  /\ g \in Links /\ Len(K[p]) + 1 \in 1..(Len(K[p]) + 1)
           /\ Shows(g, [K EXCEPT ![p] = InsertAt(K[p], Len(K[p]) + 1, n)], items)
<1>1. /\ p \in items /\ n \in items /\ p # n /\ n # NULL /\ h.next[n] = NULL
      /\ (\A q \in items : n \notin Range(K[q])) /\ p \notin Under(K, items, n)
    BY Addable
<1>2. K \in [items -> Seq(items)] /\ NULL \notin items /\ items \subseteq Items0 /\ h \in Links
    BY ItemsAre DEF ItemTypes
<1>3. PICK c, L, ch, nx, pv : c = K[p] /\ L = Len(c) /\ ch = h.child /\ nx = h.next /\ pv = h.prev
    OBVIOUS
<1>4. Shaped(K, items, ch, nx, pv) /\ Ring(c, items, ch[p], nx, pv) /\ c \in Seq(items)
    <2>1. Shaped(K, items, ch, nx, pv)
        BY <1>3 DEF Shows
    <2>2. Ring(c, items, ch[p], nx, pv)
        BY <1>1, <1>3, <2>1 DEF Shaped
    <2>3. c \in Seq(items)
        BY <2>2 DEF Ring
    <2> QED BY <2>1, <2>2, <2>3
<1>5. L \in Nat /\ c \in [1..L -> items] /\ (c = <<>>) = (L = 0) /\ Range(c) = {c[j] : j \in 1..L}
    BY <1>3, <1>4, SeqFacts
<1>6. ch[p] = FirstOf(c)
    BY <1>4 DEF Ring
<1>7. /\ ch \in [Items0 -> Items0 \cup {NULL}] /\ nx \in [Items0 -> Items0 \cup {NULL}]
      /\ pv \in [Items0 -> Items0 \cup {NULL}] /\ p \in Items0 /\ n \in Items0
      /\ n \in Items0 \cup {NULL} /\ NULL \in Items0 \cup {NULL}
    BY <1>1, <1>2, <1>3, LinkFields
<1>8. g \in Links /\ InsertsAt(n, L + 1, c, p, items, ch, nx, pv, g.child, g.next, g.prev)
    <2>1. CASE c = <<>>
        <3>1. ch[p] = NULL /\ L = 0
            BY <1>5, <1>6, <2>1 DEF FirstOf
        <3>2. PICK g0, g1 : g0 = SetChild(h, p, n) /\ g1 = SetPrev(g0, n, n)
            OBVIOUS
        <3>3. g = SetNext(g1, n, NULL)
            BY <1>3, <3>1, <3>2 DEF Json!add_item_to_array, SetChild, SetPrev, SetNext
        <3>4. ChildDone(h, p, n, g0) /\ g0 \in Links
            BY <1>2, <1>7, <3>2, ChildSet
        <3>5. PrevDone(g0, n, n, g1) /\ g1 \in Links
            BY <1>7, <3>2, <3>4, PrevSet
        <3>6. NextDone(g1, n, NULL, g) /\ g \in Links
            BY <1>7, <3>3, <3>5, NextSet
        <3>7. \A m \in items : /\ g.child[m] = (IF m = p THEN n ELSE ch[m])
                               /\ g.next[m] = (IF m = n THEN NULL ELSE nx[m])
                               /\ g.prev[m] = (IF m = n THEN n ELSE pv[m]) /\ m # NULL
            BY <1>2, <1>3, <3>4, <3>5, <3>6 DEF ChildDone, PrevDone, NextDone
        <3> QED BY <1>3, <3>1, <3>6, <3>7 DEF InsertsAt
    <2>2. CASE c # <<>>
        <3>1. L # 0 /\ 1 \in 1..L /\ L \in 1..L /\ L + 1 # 1 /\ (L + 1) - 1 = L
            BY <1>5, <2>2
        <3>2. PICK first, last : first = c[1] /\ last = c[L]
            OBVIOUS
        <3>3. first \in items /\ last \in items /\ first # NULL /\ last # NULL /\ first # n /\ last # n
              /\ first \in Items0 /\ last \in Items0 /\ last \in Items0 \cup {NULL}
            BY <1>1, <1>2, <1>3, <1>5, <3>1, <3>2
        <3>4. ch[p] = first /\ pv[first] = last
            BY <1>3, <1>4, <1>6, <2>2, <3>1, <3>2 DEF FirstOf, Ring
        <3>5. PICK g0, g1 : g0 = SetNext(h, last, n) /\ g1 = SetPrev(g0, n, last)
            OBVIOUS
        <3>6. g = SetPrev(g1, first, n)
            BY <1>3, <3>3, <3>4, <3>5 DEF Json!add_item_to_array, Json!suffix_object, SetPrev, SetNext
        <3>7. NextDone(h, last, n, g0) /\ g0 \in Links
            BY <1>2, <1>7, <3>3, <3>5, NextSet
        <3>8. PrevDone(g0, n, last, g1) /\ g1 \in Links
            BY <1>7, <3>3, <3>5, <3>7, PrevSet
        <3>9. PrevDone(g1, first, n, g) /\ g \in Links
            BY <1>7, <3>3, <3>6, <3>8, PrevSet
        <3>10. \A m \in items : /\ g.child[m] = (IF m = p THEN first ELSE ch[m])
                               /\ g.next[m] = (IF m = n THEN NULL ELSE IF m = last THEN n ELSE nx[m])
                               /\ g.prev[m] = (IF m = first THEN n ELSE IF m = n THEN last ELSE pv[m]) /\ m # NULL
            BY <1>1, <1>2, <1>3, <1>7, <3>3, <3>4, <3>7, <3>8, <3>9 DEF PrevDone, NextDone
        <3>11. LastOf(c) = last
            BY <1>3, <2>2, <3>2 DEF LastOf
        <3> QED BY <1>3, <3>1, <3>2, <3>4, <3>9, <3>10, <3>11 DEF InsertsAt
    <2> QED BY <2>1, <2>2
<1>9. L + 1 \in 1..(L + 1)
    BY <1>5
<1>10. Shaped([K EXCEPT ![p] = InsertAt(K[p], L + 1, n)], items, g.child, g.next, g.prev)
    <2>1. PICK ch2, nx2, pv2 : ch2 = g.child /\ nx2 = g.next /\ pv2 = g.prev
        OBVIOUS
    <2>2. InsertsAt(n, L + 1, K[p], p, items, ch, nx, pv, ch2, nx2, pv2) /\ L + 1 \in 1..(Len(K[p]) + 1)
        BY <1>3, <1>8, <1>9, <2>1
    <2>3. Shaped([K EXCEPT ![p] = InsertAt(K[p], L + 1, n)], items, ch2, nx2, pv2)
        BY <1>1, <1>2, <1>4, <2>2, PutAt
    <2> QED BY <2>1, <2>3
<1> QED BY <1>3, <1>8, <1>9, <1>10 DEF Shows

\* What cJSON_InsertItemInArray does before the item at, and what of it is common.
RoomFor(n, at) == [h EXCEPT !.next[n] = at, !.prev[n] = h.prev[at], !.prev[at] = n]
PutBefore(p, n, at) ==
    IF at = h.child[p] THEN SetChild(RoomFor(n, at), p, n) ELSE SetNext(RoomFor(n, at), RoomFor(n, at).prev[n], n)

LEMMA Inserts ==
    ASSUME ItemTypes, NEW K, Shows(h, K, items), NEW p, NEW n, Json!MayAdd(p, n), NEW i \in 1..Len(K[p]),
           NEW at, at = K[p][i], NEW g, g = PutBefore(p, n, at)
    PROVE  g \in Links /\ Shows(g, [K EXCEPT ![p] = InsertAt(K[p], i, n)], items)
<1>1. /\ p \in items /\ n \in items /\ p # n /\ n # NULL /\ h.next[n] = NULL
      /\ (\A q \in items : n \notin Range(K[q])) /\ p \notin Under(K, items, n)
    BY Addable
<1>2. K \in [items -> Seq(items)] /\ NULL \notin items /\ items \subseteq Items0 /\ h \in Links
    BY ItemsAre DEF ItemTypes
<1>3. PICK c, L, ch, nx, pv : c = K[p] /\ L = Len(c) /\ ch = h.child /\ nx = h.next /\ pv = h.prev
    OBVIOUS
<1>4. Shaped(K, items, ch, nx, pv) /\ Ring(c, items, ch[p], nx, pv) /\ c \in Seq(items)
    <2>1. Shaped(K, items, ch, nx, pv)
        BY <1>3 DEF Shows
    <2>2. Ring(c, items, ch[p], nx, pv)
        BY <1>1, <1>3, <2>1 DEF Shaped
    <2>3. c \in Seq(items)
        BY <2>2 DEF Ring
    <2> QED BY <2>1, <2>2, <2>3
<1>5. L \in Nat /\ c \in [1..L -> items] /\ (c = <<>>) = (L = 0) /\ Range(c) = {c[j] : j \in 1..L} /\ i \in 1..L /\ at = c[i]
    BY <1>3, <1>4, SeqFacts
<1>6. ch[p] = c[1] /\ 1 \in 1..L /\ L \in 1..L /\ LastOf(c) = c[L]
    <2>1. ch[p] = FirstOf(c) /\ c # <<>>
        BY <1>4, <1>5 DEF Ring
    <2> QED BY <1>3, <1>5, <2>1 DEF FirstOf, LastOf
<1>7. /\ \A j, k \in 1..L : c[j] = c[k] => j = k
      /\ \A j \in 1..L : pv[c[j]] = IF j = 1 THEN c[L] ELSE c[j - 1]
    BY <1>3, <1>4 DEF Ring
<1>8. \A j \in 1..L : c[j] # n /\ c[j] \in items /\ c[j] # NULL /\ c[j] \in Items0
    BY <1>1, <1>2, <1>3, <1>5
<1>9. (at = ch[p]) = (i = 1) /\ (i # 1 => i - 1 \in 1..L /\ pv[at] = c[i - 1]) /\ (i = 1 => pv[at] = c[L]) /\ pv[c[1]] = c[L]
    <2>1. i # 1 => i - 1 \in 1..L
        BY <1>5
    <2> QED BY <1>5, <1>6, <1>7, <2>1
<1>10. pv[at] \in items /\ pv[at] # n /\ pv[at] # NULL /\ pv[at] \in Items0
    BY <1>6, <1>8, <1>9
<1>11. /\ n \in Items0 /\ p \in Items0 /\ at \in Items0 /\ at # n /\ at # NULL
       /\ n \in Items0 \cup {NULL} /\ at \in Items0 \cup {NULL} /\ pv[at] \in Items0 \cup {NULL}
    BY <1>1, <1>2, <1>5, <1>8, <1>10
<1>12. PICK g0, g1 : g0 = SetNext(h, n, at) /\ g1 = SetPrev(g0, n, pv[at])
    OBVIOUS
<1>13. PICK a : a = RoomFor(n, at) /\ a = SetPrev(g1, at, n)
    BY <1>3, <1>12 DEF RoomFor, SetNext, SetPrev
<1>14. NextDone(h, n, at, g0) /\ g0 \in Links
    BY <1>2, <1>11, <1>12, NextSet
<1>15. PrevDone(g0, n, pv[at], g1) /\ g1 \in Links
    BY <1>11, <1>12, <1>14, PrevSet
<1>16. PrevDone(g1, at, n, a) /\ a \in Links
    BY <1>11, <1>13, <1>15, PrevSet
<1>17. \A m \in Items0 : /\ a.child[m] = ch[m]
                         /\ a.next[m] = (IF m = n THEN at ELSE nx[m])
                         /\ a.prev[m] = (IF m = at THEN n ELSE IF m = n THEN pv[at] ELSE pv[m])
    BY <1>3, <1>14, <1>15, <1>16 DEF NextDone, PrevDone
<1>18. a.prev[n] = pv[at]
    BY <1>11, <1>17
<1>19. g \in Links /\ \A m \in items :
             /\ g.child[m] = (IF i = 1 /\ m = p THEN n ELSE ch[m])
             /\ g.next[m] = (IF m = n THEN at ELSE IF i # 1 /\ m = pv[at] THEN n ELSE nx[m])
             /\ g.prev[m] = (IF m = at THEN n ELSE IF m = n THEN pv[at] ELSE pv[m])
    <2>1. CASE i = 1
        <3>1. g = SetChild(a, p, n)
            BY <1>3, <1>9, <1>13, <2>1 DEF PutBefore
        <3>2. ChildDone(a, p, n, g) /\ g \in Links
            BY <1>11, <1>16, <3>1, ChildSet
        <3> QED BY <1>2, <1>17, <2>1, <3>2 DEF ChildDone
    <2>2. CASE i # 1
        <3>1. g = SetNext(a, pv[at], n)
            BY <1>3, <1>9, <1>13, <1>18, <2>2 DEF PutBefore
        <3>2. NextDone(a, pv[at], n, g) /\ g \in Links
            BY <1>10, <1>11, <1>16, <3>1, NextSet
        <3> QED BY <1>2, <1>10, <1>17, <2>2, <3>2 DEF NextDone
    <2> QED BY <2>1, <2>2
<1>20. PICK ch2, nx2, pv2 : ch2 = g.child /\ nx2 = g.next /\ pv2 = g.prev
    OBVIOUS
<1>21. PICK before, first : before = (IF i = 1 THEN NULL ELSE c[i - 1]) /\ first = (IF i = 1 THEN n ELSE ch[p])
    OBVIOUS
<1>22. \A m \in items : /\ ch2[m] = (IF m = p THEN first ELSE ch[m])
                       /\ nx2[m] = (IF m = n THEN at ELSE IF m = before THEN n ELSE nx[m])
                       /\ pv2[m] = (IF m = first THEN c[L] ELSE IF m = n THEN before ELSE IF m = at THEN n ELSE pv[m])
    <2>1. CASE i = 1
        BY <1>2, <1>9, <1>11, <1>19, <1>20, <1>21, <2>1
    <2>2. CASE i # 1
        <3>1. first = ch[p] /\ first # at /\ first # n /\ before = pv[at] /\ pv[first] = c[L]
            BY <1>6, <1>8, <1>9, <1>21, <2>2
        <3>2. \A m \in items : ch2[m] = (IF m = p THEN first ELSE ch[m])
            BY <1>19, <1>20, <2>2, <3>1
        <3>3. \A m \in items : nx2[m] = (IF m = n THEN at ELSE IF m = before THEN n ELSE nx[m])
            BY <1>19, <1>20, <2>2, <3>1
        <3>4. \A m \in items : pv2[m] = (IF m = first THEN c[L] ELSE IF m = n THEN before ELSE IF m = at THEN n ELSE pv[m])
            BY <1>11, <1>19, <1>20, <2>2, <3>1
        <3> QED BY <3>2, <3>3, <3>4
    <2> QED BY <2>1, <2>2
<1>23. InsertsAt(n, i, c, p, items, ch, nx, pv, ch2, nx2, pv2)
    <2>1. i # Len(c) + 1
        BY <1>3, <1>5
    <2> QED BY <1>5, <1>6, <1>21, <1>22, <2>1 DEF InsertsAt
<1>24. InsertsAt(n, i, K[p], p, items, ch, nx, pv, ch2, nx2, pv2) /\ i \in 1..(Len(K[p]) + 1)
    BY <1>3, <1>5, <1>23
<1>25. Shaped([K EXCEPT ![p] = InsertAt(K[p], i, n)], items, ch2, nx2, pv2)
    BY <1>1, <1>2, <1>4, <1>24, PutAt
<1> QED BY <1>19, <1>20, <1>25 DEF Shows

\* The i-th child of p taken out.
LEMMA Detaches ==
    ASSUME ItemTypes, NEW K, Shows(h, K, items), NEW p \in items, NEW i \in 1..Len(K[p]),
           NEW n, n = K[p][i], NEW g, g = Json!Detached(p, n)
    PROVE  g \in Links /\ g.next[n] = NULL /\ Shows(g, [K EXCEPT ![p] = RemoveAt(K[p], i)], items)
<1>2. K \in [items -> Seq(items)] /\ NULL \notin items /\ items \subseteq Items0 /\ h \in Links
    BY ItemsAre DEF ItemTypes
<1>3. PICK c, L, ch, nx, pv : c = K[p] /\ L = Len(c) /\ ch = h.child /\ nx = h.next /\ pv = h.prev
    OBVIOUS
<1>4. Shaped(K, items, ch, nx, pv) /\ Ring(c, items, ch[p], nx, pv) /\ c \in Seq(items)
    <2>1. Shaped(K, items, ch, nx, pv)
        BY <1>3 DEF Shows
    <2>2. Ring(c, items, ch[p], nx, pv)
        BY <1>3, <2>1 DEF Shaped
    <2>3. c \in Seq(items)
        BY <2>2 DEF Ring
    <2> QED BY <2>1, <2>2, <2>3
<1>5. L \in Nat /\ c \in [1..L -> items] /\ (c = <<>>) = (L = 0) /\ i \in 1..L /\ n = c[i]
    BY <1>3, <1>4, SeqFacts
<1>6. ch[p] = c[1] /\ 1 \in 1..L /\ L \in 1..L /\ LastOf(c) = c[L]
    <2>1. ch[p] = FirstOf(c) /\ c # <<>>
        BY <1>4, <1>5 DEF Ring
    <2> QED BY <1>3, <1>5, <2>1 DEF FirstOf, LastOf
<1>7. /\ \A j, k \in 1..L : c[j] = c[k] => j = k
      /\ \A j \in 1..L : nx[c[j]] = IF j = L THEN NULL ELSE c[j + 1]
      /\ \A j \in 1..L : pv[c[j]] = IF j = 1 THEN c[L] ELSE c[j - 1]
    BY <1>3, <1>4 DEF Ring
<1>8. \A j \in 1..L : c[j] \in items /\ c[j] # NULL /\ c[j] \in Items0
    BY <1>2, <1>5
<1>9. PICK before, after : before = (IF i = 1 THEN NULL ELSE c[i - 1]) /\ after = (IF i = L THEN NULL ELSE c[i + 1])
    OBVIOUS
<1>10. (i # 1 => i - 1 \in 1..L /\ i - 1 # i) /\ (i # L => i + 1 \in 1..L /\ i + 1 # i /\ i + 1 # 1)
    BY <1>5
<1>11. /\ (n = ch[p]) = (i = 1) /\ nx[n] = after /\ (after = NULL) = (i = L)
       /\ pv[n] = (IF i = 1 THEN c[L] ELSE before) /\ (i # 1 => before = c[i - 1]) /\ (i # L => after = c[i + 1])
       /\ pv[ch[p]] = c[L] /\ ch[p] # after /\ pv[n] \in Items0 /\ (i # 1 => pv[n] # n) /\ after # n
    BY <1>5, <1>6, <1>7, <1>8, <1>9, <1>10
<1>12. /\ n \in Items0 /\ p \in Items0 /\ ch[p] \in Items0 /\ n \in items
       /\ nx[n] \in Items0 \cup {NULL} /\ pv[n] \in Items0 \cup {NULL} /\ NULL \in Items0 \cup {NULL} /\ (nx[n] # NULL => nx[n] \in Items0)
    BY <1>2, <1>5, <1>6, <1>8, <1>10, <1>11
<1>13. PICK a : a = IF n # ch[p] THEN SetNext(h, pv[n], nx[n]) ELSE h
    OBVIOUS
<1>14. PICK b : b = IF nx[n] # NULL THEN SetPrev(a, nx[n], pv[n]) ELSE a
    OBVIOUS
<1>15. PICK d : d = IF n = ch[p] THEN SetChild(b, p, nx[n]) ELSE IF nx[n] = NULL THEN SetPrev(b, b.child[p], pv[n]) ELSE b
    OBVIOUS
<1>16. PICK e : e = SetPrev(d, n, NULL)
    OBVIOUS
<1>17. g = SetNext(e, n, NULL)
    <2>1. g = [d EXCEPT !.prev[n] = NULL, !.next[n] = NULL]
        <3>1. CASE n # ch[p] /\ nx[n] # NULL
            BY <1>3, <1>13, <1>14, <1>15, <3>1 DEF Json!Detached, SetNext, SetPrev, SetChild
        <3>2. CASE n # ch[p] /\ nx[n] = NULL
            BY <1>3, <1>13, <1>14, <1>15, <3>2 DEF Json!Detached, SetNext, SetPrev, SetChild
        <3>3. CASE n = ch[p] /\ nx[n] # NULL
            BY <1>3, <1>13, <1>14, <1>15, <3>3 DEF Json!Detached, SetNext, SetPrev, SetChild
        <3>4. CASE n = ch[p] /\ nx[n] = NULL
            BY <1>3, <1>13, <1>14, <1>15, <3>4 DEF Json!Detached, SetNext, SetPrev, SetChild
        <3> QED BY <3>1, <3>2, <3>3, <3>4
    <2> QED BY <1>16, <2>1 DEF SetNext, SetPrev
<1>18. a \in Links /\ \A m \in Items0 : /\ a.child[m] = ch[m] /\ a.prev[m] = pv[m]
                                        /\ a.next[m] = (IF i # 1 /\ m = pv[n] THEN nx[n] ELSE nx[m])
    <2>1. CASE n # ch[p]
        <3>1. NextDone(h, pv[n], nx[n], a) /\ a \in Links
            BY <1>2, <1>11, <1>12, <1>13, <2>1, NextSet
        <3> QED BY <1>3, <1>11, <2>1, <3>1 DEF NextDone
    <2>2. CASE n = ch[p]
        BY <1>2, <1>3, <1>11, <1>13, <2>2
    <2> QED BY <2>1, <2>2
<1>19. b \in Links /\ \A m \in Items0 : /\ b.child[m] = ch[m] /\ b.next[m] = a.next[m]
                                        /\ b.prev[m] = (IF nx[n] # NULL /\ m = nx[n] THEN pv[n] ELSE pv[m])
    <2>1. CASE nx[n] # NULL
        <3>1. PrevDone(a, nx[n], pv[n], b) /\ b \in Links
            BY <1>12, <1>14, <1>18, <2>1, PrevSet
        <3> QED BY <1>18, <2>1, <3>1 DEF PrevDone
    <2>2. CASE nx[n] = NULL
        BY <1>14, <1>18, <2>2
    <2> QED BY <2>1, <2>2
<1>20. d \in Links /\ \A m \in Items0 : /\ d.child[m] = (IF i = 1 /\ m = p THEN nx[n] ELSE ch[m]) /\ d.next[m] = a.next[m]
                                        /\ d.prev[m] = (IF i # 1 /\ nx[n] = NULL /\ m = ch[p] THEN pv[n] ELSE b.prev[m])
    <2>1. CASE n = ch[p]
        <3>1. ChildDone(b, p, nx[n], d) /\ d \in Links
            BY <1>12, <1>15, <1>19, <2>1, ChildSet
        <3> QED BY <1>11, <1>19, <2>1, <3>1 DEF ChildDone
    <2>2. CASE n # ch[p] /\ nx[n] = NULL
        <3>1. d = SetPrev(b, ch[p], pv[n])
            BY <1>12, <1>15, <1>19, <2>2
        <3>2. PrevDone(b, ch[p], pv[n], d) /\ d \in Links
            BY <1>12, <1>19, <3>1, PrevSet
        <3> QED BY <1>11, <1>19, <2>2, <3>2 DEF PrevDone
    <2>3. CASE n # ch[p] /\ nx[n] # NULL
        BY <1>11, <1>15, <1>19, <2>3
    <2> QED BY <2>1, <2>2, <2>3
<1>21. PrevDone(d, n, NULL, e) /\ e \in Links
    BY <1>12, <1>16, <1>20, PrevSet
<1>22. NextDone(e, n, NULL, g) /\ g \in Links
    BY <1>12, <1>17, <1>21, NextSet
<1>23. \A m \in Items0 : /\ g.child[m] = (IF i = 1 /\ m = p THEN nx[n] ELSE ch[m])
                         /\ g.next[m] = (IF m = n THEN NULL ELSE IF i # 1 /\ m = pv[n] THEN nx[n] ELSE nx[m])
                         /\ g.prev[m] = (IF m = n THEN NULL ELSE IF i # 1 /\ nx[n] = NULL /\ m = ch[p] THEN pv[n]
                                         ELSE IF nx[n] # NULL /\ m = nx[n] THEN pv[n] ELSE pv[m])
    BY <1>18, <1>19, <1>20, <1>21, <1>22 DEF PrevDone, NextDone
<1>24. PICK ch2, nx2, pv2 : ch2 = g.child /\ nx2 = g.next /\ pv2 = g.prev
    OBVIOUS
<1>25. PICK first, last : first = (IF i = 1 THEN after ELSE ch[p]) /\ last = (IF i = L THEN before ELSE c[L])
    OBVIOUS
<1>26. \A m \in items : ch2[m] = (IF m = p THEN first ELSE ch[m])
                      /\ nx2[m] = (IF m = n THEN NULL ELSE IF m = before THEN after ELSE nx[m])
    <2>1. CASE i = 1
        BY <1>2, <1>9, <1>11, <1>23, <1>24, <1>25, <2>1
    <2>2. CASE i # 1
        BY <1>2, <1>11, <1>23, <1>24, <1>25, <2>2
    <2> QED BY <2>1, <2>2
<1>27. \A m \in items \ {n} : pv2[m] = (IF m = first THEN last ELSE IF m = after THEN before ELSE pv[m])
    <2>1. CASE i = 1
        BY <1>2, <1>11, <1>23, <1>24, <1>25, <2>1
    <2>2. CASE i # 1 /\ i = L
        BY <1>2, <1>11, <1>23, <1>24, <1>25, <2>2
    <2>3. CASE i # 1 /\ i # L
        BY <1>2, <1>11, <1>23, <1>24, <1>25, <2>3
    <2> QED BY <2>1, <2>2, <2>3
<1>28. RemovesAt(i, c, p, items, ch, nx, pv, ch2, nx2, pv2)
    BY <1>3, <1>5, <1>6, <1>9, <1>25, <1>26, <1>27 DEF RemovesAt
<1>29. RemovesAt(i, K[p], p, items, ch, nx, pv, ch2, nx2, pv2)
    BY <1>3, <1>28
<1>30. Shaped([K EXCEPT ![p] = RemoveAt(K[p], i)], items, ch2, nx2, pv2)
    BY <1>2, <1>4, <1>29, TakeAt
<1>31. g.next[n] = NULL
    BY <1>12, <1>23
<1> QED BY <1>22, <1>24, <1>30, <1>31 DEF Shows

\* The stages of cJSON_ReplaceItemViaPointer.
Joined(item, n) == [h EXCEPT !.next[n] = h.next[item], !.prev[n] = h.prev[item]]
Followed(item, n) ==
    IF Joined(item, n).next[n] # NULL THEN [Joined(item, n) EXCEPT !.prev[Joined(item, n).next[n]] = n] ELSE Joined(item, n)
AsFirst(p, item, n) ==
    IF Followed(item, n).prev[item] = item THEN [Followed(item, n) EXCEPT !.prev[n] = n, !.child[p] = n]
    ELSE [Followed(item, n) EXCEPT !.child[p] = n]
AsInner(item, n) ==
    IF Followed(item, n).prev[n] # NULL THEN [Followed(item, n) EXCEPT !.next[Followed(item, n).prev[n]] = n] ELSE Followed(item, n)
AsLast(p, item, n) ==
    IF AsInner(item, n).next[n] = NULL THEN [AsInner(item, n) EXCEPT !.prev[AsInner(item, n).child[p]] = n] ELSE AsInner(item, n)
InPlace(p, item, n) == IF Followed(item, n).child[p] = item THEN AsFirst(p, item, n) ELSE AsLast(p, item, n)

LEMMA ReplacedBy ==
    ASSUME NEW p, NEW item, NEW n
    PROVE  Json!Replaced(p, item, n) = [InPlace(p, item, n) EXCEPT !.next[item] = NULL, !.prev[item] = NULL]
    BY ZenonT(30) DEF Json!Replaced, InPlace, AsLast, AsInner, AsFirst, Followed, Joined

\* n in the place of the i-th child of p.
LEMMA Exchanges ==
    ASSUME ItemTypes, NEW K, Shows(h, K, items), NEW p, NEW n, Json!MayAdd(p, n), NEW i \in 1..Len(K[p]),
           NEW item, item = K[p][i], NEW g, g = Json!Replaced(p, item, n)
    PROVE  /\ g \in Links /\ g.next[item] = NULL /\ Shows(g, [K EXCEPT ![p] = ReplaceAt(K[p], i, n)], items)
           /\ Range(ReplaceAt(K[p], i, n)) = (Range(K[p]) \ {item}) \cup {n} /\ item \in Range(K[p])
<1>1. /\ p \in items /\ n \in items /\ p # n /\ n # NULL /\ h.next[n] = NULL
      /\ (\A q \in items : n \notin Range(K[q])) /\ p \notin Under(K, items, n)
    BY Addable
<1>2. K \in [items -> Seq(items)] /\ NULL \notin items /\ items \subseteq Items0 /\ h \in Links
    BY ItemsAre DEF ItemTypes
<1>3. PICK c, L, ch, nx, pv : c = K[p] /\ L = Len(c) /\ ch = h.child /\ nx = h.next /\ pv = h.prev
    OBVIOUS
<1>4. Shaped(K, items, ch, nx, pv) /\ Ring(c, items, ch[p], nx, pv) /\ c \in Seq(items)
    <2>1. Shaped(K, items, ch, nx, pv)
        BY <1>3 DEF Shows
    <2>2. Ring(c, items, ch[p], nx, pv)
        BY <1>1, <1>3, <2>1 DEF Shaped
    <2>3. c \in Seq(items)
        BY <2>2 DEF Ring
    <2> QED BY <2>1, <2>2, <2>3
<1>5. L \in Nat /\ c \in [1..L -> items] /\ (c = <<>>) = (L = 0) /\ Range(c) = {c[j] : j \in 1..L} /\ i \in 1..L /\ item = c[i]
    BY <1>3, <1>4, SeqFacts
<1>6. ch[p] = c[1] /\ 1 \in 1..L /\ L \in 1..L /\ LastOf(c) = c[L]
    <2>1. ch[p] = FirstOf(c) /\ c # <<>>
        BY <1>4, <1>5 DEF Ring
    <2> QED BY <1>3, <1>5, <2>1 DEF FirstOf, LastOf
<1>7. /\ \A j, k \in 1..L : c[j] = c[k] => j = k
      /\ \A j \in 1..L : nx[c[j]] = IF j = L THEN NULL ELSE c[j + 1]
      /\ \A j \in 1..L : pv[c[j]] = IF j = 1 THEN c[L] ELSE c[j - 1]
    BY <1>3, <1>4 DEF Ring
<1>8. \A j \in 1..L : c[j] # n /\ c[j] \in items /\ c[j] # NULL /\ c[j] \in Items0
    BY <1>1, <1>2, <1>3, <1>5
<1>9. PICK before, after : before = (IF i = 1 THEN NULL ELSE c[i - 1]) /\ after = (IF i = L THEN NULL ELSE c[i + 1])
    OBVIOUS
<1>10. (i # 1 => i - 1 \in 1..L /\ i - 1 # i) /\ (i # L => i + 1 \in 1..L /\ i + 1 # i /\ i + 1 # 1)
    BY <1>5
<1>11. /\ (item = ch[p]) = (i = 1) /\ nx[item] = after /\ (after = NULL) = (i = L)
       /\ pv[item] = (IF i = 1 THEN c[L] ELSE before) /\ (i # 1 => before = c[i - 1] /\ before # n /\ before # item)
       /\ pv[ch[p]] = c[L] /\ ch[p] # after /\ pv[item] \in Items0 /\ pv[item] # NULL /\ pv[item] # n /\ after # item /\ after # n
       /\ (i = 1 => (pv[item] = item) = (i = L))
    BY <1>1, <1>5, <1>6, <1>7, <1>8, <1>9, <1>10
<1>12. /\ n \in Items0 /\ p \in Items0 /\ ch[p] \in Items0 /\ item \in Items0 /\ item # n /\ ch[p] # n /\ item \in items
       /\ n \in Items0 \cup {NULL} /\ nx[item] \in Items0 \cup {NULL} /\ pv[item] \in Items0 \cup {NULL}
       /\ NULL \in Items0 \cup {NULL} /\ (nx[item] # NULL => nx[item] \in Items0)
    BY <1>1, <1>2, <1>5, <1>6, <1>8, <1>10, <1>11, <1>9
<1>13. PICK a : a = Joined(item, n) /\ a \in Links /\ \A m \in Items0 :
         a.child[m] = ch[m] /\ a.next[m] = (IF m = n THEN nx[item] ELSE nx[m]) /\ a.prev[m] = (IF m = n THEN pv[item] ELSE pv[m])
    <2>1. PICK a0 : a0 = SetNext(h, n, nx[item])
        OBVIOUS
    <2>2. PICK a : a = SetPrev(a0, n, pv[item])
        OBVIOUS
    <2>3. a = Joined(item, n)
        BY <1>3, <2>1, <2>2 DEF Joined, SetNext, SetPrev
    <2>4. NextDone(h, n, nx[item], a0) /\ a0 \in Links
        BY <1>2, <1>12, <2>1, NextSet
    <2>5. PrevDone(a0, n, pv[item], a) /\ a \in Links
        BY <1>12, <2>2, <2>4, PrevSet
    <2> QED BY <1>3, <2>3, <2>4, <2>5 DEF NextDone, PrevDone
<1>14. PICK b : b = Followed(item, n) /\ b \in Links /\ \A m \in Items0 :
         /\ b.child[m] = ch[m] /\ b.next[m] = (IF m = n THEN nx[item] ELSE nx[m])
         /\ b.prev[m] = (IF nx[item] # NULL /\ m = nx[item] THEN n ELSE IF m = n THEN pv[item] ELSE pv[m])
    <2>1. a.next[n] = nx[item]
        BY <1>12, <1>13
    <2>2. CASE nx[item] # NULL
        <3>1. Followed(item, n) = SetPrev(a, nx[item], n)
            BY <1>13, <2>1, <2>2 DEF Followed, SetPrev
        <3>2. PrevDone(a, nx[item], n, Followed(item, n)) /\ Followed(item, n) \in Links
            BY <1>12, <1>13, <2>2, <3>1, PrevSet
        <3> QED BY <1>13, <2>2, <3>2 DEF PrevDone
    <2>3. CASE nx[item] = NULL
        <3>1. Followed(item, n) = a
            BY <1>13, <2>1, <2>3 DEF Followed
        <3> QED BY <1>13, <2>3, <3>1
    <2> QED BY <2>2, <2>3
<1>15. b.prev[item] = pv[item] /\ b.prev[n] = pv[item] /\ b.child[p] = ch[p]
    BY <1>11, <1>12, <1>14
<1>16. PICK d : d = InPlace(p, item, n) /\ d \in Links /\ \A m \in Items0 :
         /\ d.child[m] = (IF i = 1 /\ m = p THEN n ELSE ch[m])
         /\ d.next[m] = (IF m = n THEN nx[item] ELSE IF i # 1 /\ m = pv[item] THEN n ELSE nx[m])
         /\ d.prev[m] = (IF i = 1 /\ i = L /\ m = n THEN n ELSE IF i # 1 /\ i = L /\ m = ch[p] THEN n
                         ELSE IF nx[item] # NULL /\ m = nx[item] THEN n ELSE IF m = n THEN pv[item] ELSE pv[m])
    <2>1. CASE i = 1
        <3>1. PICK b1 : b1 = IF pv[item] = item THEN SetPrev(b, n, n) ELSE b
            OBVIOUS
        <3>2. b1 \in Links /\ \A m \in Items0 : b1.child[m] = b.child[m] /\ b1.next[m] = b.next[m]
                                             /\ b1.prev[m] = (IF i = L /\ m = n THEN n ELSE b.prev[m])
            <4>1. CASE pv[item] = item
                <5>1. PrevDone(b, n, n, b1) /\ b1 \in Links
                    BY <1>12, <1>14, <3>1, <4>1, PrevSet
                <5> QED BY <1>11, <2>1, <4>1, <5>1 DEF PrevDone
            <4>2. CASE pv[item] # item
                BY <1>11, <1>14, <2>1, <3>1, <4>2
            <4> QED BY <4>1, <4>2
        <3>3. PICK d : d = SetChild(b1, p, n)
            OBVIOUS
        <3>4. AsFirst(p, item, n) = d
            <4>1. CASE pv[item] = item
                BY <1>14, <1>15, <3>1, <3>3, <4>1 DEF AsFirst, SetPrev, SetChild
            <4>2. CASE pv[item] # item
                BY <1>14, <1>15, <3>1, <3>3, <4>2 DEF AsFirst, SetPrev, SetChild
            <4> QED BY <4>1, <4>2
        <3>5. d = InPlace(p, item, n)
            BY <1>11, <1>14, <1>15, <2>1, <3>4 DEF InPlace
        <3>6. ChildDone(b1, p, n, d) /\ d \in Links
            BY <1>12, <3>2, <3>3, ChildSet
        <3>7. \A m \in Items0 : /\ d.child[m] = (IF m = p THEN n ELSE ch[m]) /\ d.next[m] = (IF m = n THEN nx[item] ELSE nx[m])
                 /\ d.prev[m] = (IF i = L /\ m = n THEN n ELSE IF nx[item] # NULL /\ m = nx[item] THEN n ELSE IF m = n THEN pv[item] ELSE pv[m])
            BY <1>14, <3>2, <3>6 DEF ChildDone
        <3> QED BY <2>1, <3>5, <3>6, <3>7
    <2>2. CASE i # 1
        <3>1. PICK b1 : b1 = SetNext(b, pv[item], n)
            OBVIOUS
        <3>2. AsInner(item, n) = b1
            BY <1>11, <1>14, <1>15, <3>1 DEF AsInner, SetNext
        <3>3. NextDone(b, pv[item], n, b1) /\ b1 \in Links
            BY <1>11, <1>12, <1>14, <3>1, NextSet
        <3>4. b1.next[n] = nx[item] /\ b1.child[p] = ch[p]
            BY <1>11, <1>12, <1>14, <3>3 DEF NextDone
        <3>5. PICK d : d = IF i = L THEN SetPrev(b1, ch[p], n) ELSE b1
            OBVIOUS
        <3>6. d \in Links /\ \A m \in Items0 : d.child[m] = b1.child[m] /\ d.next[m] = b1.next[m]
                                            /\ d.prev[m] = (IF i = L /\ m = ch[p] THEN n ELSE b1.prev[m])
            <4>1. CASE i = L
                <5>1. PrevDone(b1, ch[p], n, d) /\ d \in Links
                    BY <1>12, <3>3, <3>5, <4>1, PrevSet
                <5> QED BY <4>1, <5>1 DEF PrevDone
            <4>2. CASE i # L
                BY <3>3, <3>5, <4>2
            <4> QED BY <4>1, <4>2
        <3>7. AsLast(p, item, n) = d
            <4>1. CASE i = L
                BY <1>11, <3>2, <3>4, <3>5, <4>1 DEF AsLast, SetPrev
            <4>2. CASE i # L
                BY <1>11, <3>2, <3>4, <3>5, <4>2 DEF AsLast, SetPrev
            <4> QED BY <4>1, <4>2
        <3>8. d = InPlace(p, item, n)
            BY <1>11, <1>14, <1>15, <2>2, <3>7 DEF InPlace
        <3>9. \A m \in Items0 : d.child[m] = ch[m] /\ d.next[m] = (IF m = n THEN nx[item] ELSE IF m = pv[item] THEN n ELSE nx[m])
                 /\ d.prev[m] = (IF i = L /\ m = ch[p] THEN n
                                 ELSE IF nx[item] # NULL /\ m = nx[item] THEN n ELSE IF m = n THEN pv[item] ELSE pv[m])
            BY <1>11, <1>14, <3>3, <3>6 DEF NextDone
        <3> QED BY <2>2, <3>6, <3>8, <3>9
    <2> QED BY <2>1, <2>2
<1>17. PICK e : e = SetNext(d, item, NULL)
    BY Zenon
<1>18. g = SetPrev(e, item, NULL)
    BY <1>16, <1>17, ReplacedBy DEF SetNext, SetPrev
<1>19. NextDone(d, item, NULL, e) /\ e \in Links
    BY <1>12, <1>16, <1>17, NextSet
<1>20. PrevDone(e, item, NULL, g) /\ g \in Links
    BY <1>12, <1>18, <1>19, PrevSet
<1>21. \A m \in Items0 : /\ g.child[m] = d.child[m] /\ g.next[m] = (IF m = item THEN NULL ELSE d.next[m])
                         /\ g.prev[m] = (IF m = item THEN NULL ELSE d.prev[m])
    BY <1>19, <1>20 DEF NextDone, PrevDone
<1>22. PICK ch2, nx2, pv2 : ch2 = g.child /\ nx2 = g.next /\ pv2 = g.prev
    OBVIOUS
<1>23. PICK first, last : first = (IF i = 1 THEN n ELSE ch[p]) /\ last = (IF i = L THEN n ELSE c[L])
    OBVIOUS
<1>24. \A m \in items : ch2[m] = (IF m = p THEN first ELSE ch[m])
    BY <1>2, <1>16, <1>21, <1>22, <1>23
<1>25. \A m \in items : nx2[m] = (IF m = item THEN NULL ELSE IF m = n THEN after ELSE IF m = before THEN n ELSE nx[m])
    <2>1. CASE i = 1
        BY <1>2, <1>9, <1>11, <1>16, <1>21, <1>22, <2>1
    <2>2. CASE i # 1
        BY <1>2, <1>11, <1>16, <1>21, <1>22, <2>2
    <2> QED BY <2>1, <2>2
<1>26. \A m \in items \ {item} : pv2[m] = (IF m = first THEN last ELSE IF m = n THEN before ELSE IF m = after THEN n ELSE pv[m])
    <2>0. \A m \in items \ {item} : m \in Items0 /\ m # NULL /\ pv2[m] = d.prev[m]
        BY <1>2, <1>21, <1>22
    <2>1. CASE i = 1 /\ i = L
        BY <1>11, <1>16, <1>23, <2>0, <2>1
    <2>2. CASE i = 1 /\ i # L
        BY <1>11, <1>16, <1>23, <2>0, <2>2
    <2>3. CASE i # 1 /\ i = L
        BY <1>11, <1>12, <1>16, <1>23, <2>0, <2>3
    <2>4. CASE i # 1 /\ i # L
        BY <1>11, <1>12, <1>16, <1>23, <2>0, <2>4
    <2> QED BY <2>1, <2>2, <2>3, <2>4
<1>27. SwapsAt(n, i, c, p, items, ch, nx, pv, ch2, nx2, pv2)
    BY <1>3, <1>5, <1>6, <1>9, <1>23, <1>24, <1>25, <1>26 DEF SwapsAt
<1>28. SwapsAt(n, i, K[p], p, items, ch, nx, pv, ch2, nx2, pv2)
    BY <1>3, <1>27
<1>29. /\ Shaped([K EXCEPT ![p] = ReplaceAt(K[p], i, n)], items, ch2, nx2, pv2)
       /\ Range(ReplaceAt(K[p], i, n)) = (Range(K[p]) \ {K[p][i]}) \cup {n} /\ K[p][i] \in Range(K[p])
    BY <1>1, <1>2, <1>4, <1>28, SwapAt
<1>30. g.next[item] = NULL
    BY <1>12, <1>21
<1> QED BY <1>20, <1>22, <1>29, <1>30 DEF Shows

LEMMA FreedLinks ==
    ASSUME NEW g \in Links, NEW S, NEW k, k = Json!Freed(g, S)
    PROVE  k \in Links /\ \A m \in Items0 \ S : k.child[m] = g.child[m] /\ k.next[m] = g.next[m] /\ k.prev[m] = g.prev[m]
<1>1. DOMAIN g = {"child", "prev", "next"}
    BY DEF Links
<1>2. k = [f \in {"child", "prev", "next"} |-> [n \in Items0 |-> IF n \in S THEN NULL ELSE g[f][n]]]
    BY <1>1 DEF Json!Freed
<1>3. /\ k.child = [n \in Items0 |-> IF n \in S THEN NULL ELSE g.child[n]]
      /\ k.prev = [n \in Items0 |-> IF n \in S THEN NULL ELSE g.prev[n]]
      /\ k.next = [n \in Items0 |-> IF n \in S THEN NULL ELSE g.next[n]]
    BY <1>2
<1>4. k.child \in [Items0 -> Items0 \cup {NULL}] /\ k.prev \in [Items0 -> Items0 \cup {NULL}] /\ k.next \in [Items0 -> Items0 \cup {NULL}]
    BY <1>3, LinkFields
<1>5. k = [child |-> k.child, prev |-> k.prev, next |-> k.next]
    BY <1>2
<1>6. k \in Links
    BY <1>4, <1>5 DEF Links
<1> QED BY <1>3, <1>6

\* The forest K2 of the items B is what the links k show.
Good(K2, B, k) == B \subseteq Items0 /\ k \in Links /\ Shows(k, K2, B) /\ \E r : Ranked(K2, B, r)

\* n is in no container.
OutOf(n, K, A) == \A q \in A : n \notin Range(K[q])

\* An item the caller may delete.
Freeable(A, g, K, n) ==
  /\ A \subseteq Items0 /\ g \in Links /\ Shows(g, K, A) /\ n \in A /\ g.next[n] = NULL /\ OutOf(n, K, A)
  /\ \E rank : Ranked(K, A, rank)

\* cJSON_Delete of such an item.
LEMMA TreeFreed ==
    ASSUME NEW A, NEW g, NEW K, NEW n, Freeable(A, g, K, n), NEW G, G = Json!DeletedIn(g, n)
    PROVE  G = Under(K, A, n) /\ Good([m \in A \ G |-> K[m]], A \ G, Json!Freed(g, G))
<1> A \subseteq Items0 /\ g \in Links /\ Shows(g, K, A) /\ n \in A /\ g.next[n] = NULL /\ OutOf(n, K, A)
    BY DEF Freeable
<1> PICK rank : Ranked(K, A, rank)
    BY DEF Freeable
<1> PICK k, B, K2 : k = Json!Freed(g, G) /\ B = A \ G /\ K2 = [m \in B |-> K[m]]
    OBVIOUS
<1>1. G = Under(K, A, n)
    BY DeletedAre
<1>2. k \in Links /\ \A m \in Items0 \ G : k.child[m] = g.child[m] /\ k.next[m] = g.next[m] /\ k.prev[m] = g.prev[m]
    BY FreedLinks
<1>3. PICK ch, nx, pv, ch2, nx2, pv2 : /\ ch = g.child /\ nx = g.next /\ pv = g.prev
                                       /\ ch2 = k.child /\ nx2 = k.next /\ pv2 = k.prev
    OBVIOUS
<1>4. Shaped(K, A, ch, nx, pv) /\ Alike(B, ch, nx, pv, ch2, nx2, pv2)
    BY <1>2, <1>3 DEF Shows, Alike
<1>5. Shaped(K2, B, ch2, nx2, pv2)
    <2>1. \A q \in A : n \notin Range(K[q])
        BY DEF OutOf
    <2> QED BY <1>1, <1>4, <2>1, Dropped
<1>6. \A q \in B : Range(K2[q]) \subseteq B
    <2>1. K2 \in [B -> Seq(B)]
        BY <1>5 DEF Shaped
    <2> QED BY <2>1, SeqFacts
<1>7. PICK r : r = [m \in B |-> rank[m]]
    OBVIOUS
<1>8. r \in [B -> Nat]
    BY <1>7 DEF Ranked
<1>9. ASSUME NEW q \in B, NEW m \in Range(K2[q]) PROVE r[m] < r[q]
    <2>1. q \in A /\ K2[q] = K[q] /\ m \in B
        BY <1>6
    <2> QED BY <1>7, <2>1 DEF Ranked
<1>10. Ranked(K2, B, r)
    BY <1>8, <1>9 DEF Ranked
<1> QED BY <1>1, <1>2, <1>3, <1>5, <1>10 DEF Shows, Good

\* A tree does not change with the children of an item outside it.
SameBut(K1, K, A, p) == \A q \in A \ {p} : K1[q] = K[q]

OnlyOutside(K2, K, A, p, n) ==
  /\ K \in [A -> Seq(A)] /\ K2 \in [A -> Seq(A)] /\ n \in A /\ p \in A /\ p \notin Under(K, A, n)
  /\ SameBut(K2, K, A, p)

LEMMA SameTree ==
    ASSUME NEW A, NEW K, NEW K2, NEW n, NEW p, OnlyOutside(K2, K, A, p, n)
    PROVE  Under(K2, A, n) = Under(K, A, n)
<1> /\ K \in [A -> Seq(A)] /\ K2 \in [A -> Seq(A)] /\ n \in A /\ p \in A /\ p \notin Under(K, A, n)
    /\ SameBut(K2, K, A, p)
    BY DEF OnlyOutside
<1>1. PICK T, T2 : T = Under(K, A, n) /\ T2 = Under(K2, A, n)
    OBVIOUS
<1>2. /\ T \subseteq A /\ n \in T /\ \A x \in T : Range(K[x]) \subseteq T
      /\ \A S \in SUBSET A : n \in S /\ (\A x \in S : Range(K[x]) \subseteq S) => T \subseteq S
    BY <1>1, UnderFacts
<1>3. /\ T2 \subseteq A /\ n \in T2 /\ \A x \in T2 : Range(K2[x]) \subseteq T2
      /\ \A S \in SUBSET A : n \in S /\ (\A x \in S : Range(K2[x]) \subseteq S) => T2 \subseteq S
    BY <1>1, UnderFacts
<1>4. \A x \in T : K2[x] = K[x]
    BY <1>1, <1>2 DEF SameBut
<1>5. T2 \subseteq T
    BY <1>2, <1>3, <1>4
<1>6. \A x \in T2 : Range(K[x]) \subseteq T2
    BY <1>3, <1>4, <1>5
<1>7. T \subseteq T2
    BY <1>2, <1>3, <1>6
<1> QED BY <1>1, <1>5, <1>7

LEMMA KidsAfter ==
    ASSUME NEW K2, NEW B, NEW k, B = items', k = h', B \subseteq Items0, Shows(k, K2, B)
    PROVE  ItemKids' = K2
<1>1. K2 \in [B -> Seq(B)]
    BY DEF Shows, Shaped
<1>2. \A p \in B : Json!ChildrenIn(k, p) = K2[p]
    <2> SUFFICES ASSUME NEW p \in B PROVE Json!ChildrenIn(k, p) = K2[p]
        OBVIOUS
    <2> QED BY ChildrenAre
<1>3. ItemKids' = [n \in B |-> Json!ChildrenIn(k, n)]
    BY DEF ItemKids, Json!Children
<1> QED BY <1>1, <1>2, <1>3

-----------------------------------------------------------------------------
(* The steps of the forest                                                 *)

LEMMA ForestNotions ==
    /\ \A f : Json!Forest!Range(f) = Range(f)
    /\ \A s, i, n : Json!Forest!InsertAt(s, i, n) = InsertAt(s, i, n)
    /\ \A s, i : Json!Forest!RemoveAt(s, i) = RemoveAt(s, i)
    /\ \A s, i, n : Json!Forest!ReplaceAt(s, i, n) = ReplaceAt(s, i, n)
    /\ \A f : Json!Forest!IsInjective(f) = IsInjective(f)
    BY DEF Json!Forest!Range, Range, Json!Forest!InsertAt, InsertAt, Json!Forest!RemoveAt, RemoveAt,
           Json!Forest!ReplaceAt, ReplaceAt, Json!Forest!IsInjective, IsInjective

LEMMA ForestTree == ASSUME NEW n PROVE Json!Forest!Tree(n) = Under(ItemKids, items, n)
    BY ForestNotions DEF Json!Forest!Tree, Under, ItemKids

LEMMA ForestRoot == ASSUME NEW n PROVE Json!Forest!Root(n) <=> n \in items /\ \A q \in items : n \notin Range(ItemKids[q])
    BY ForestNotions DEF Json!Forest!Root, ItemKids

StringTyped == string' \in [Items0 -> Keys0 \cup {NULL}]

LEMMA Outcome ==
    ASSUME NEW K2, NEW B, NEW k, B = items', k = h', Good(K2, B, k), StringTyped
    PROVE  ItemInv' /\ ItemKids' = K2 /\ K2 \in [B -> Seq(B)]
<1>1. B \subseteq Items0 /\ k \in Links /\ Shows(k, K2, B) /\ \E r : Ranked(K2, B, r)
    BY DEF Good
<1>2. ItemKids' = K2
    BY <1>1, KidsAfter
<1>3. ItemTypes'
    BY <1>1 DEF ItemTypes, StringTyped
<1>4. (\E K, rank : Shows(h, K, items) /\ Ranked(K, items, rank))'
    BY <1>1
<1>5. K2 \in [B -> Seq(B)]
    BY <1>1 DEF Shows, Shaped
<1> QED BY <1>2, <1>3, <1>4, <1>5 DEF ItemInv

\* One item more among the children of p.
LEMMA ItemInsertStep ==
    ASSUME ItemTypes, NEW K, Shows(h, K, items), NEW rank, Ranked(K, items, rank), NEW p, NEW n, Json!MayAdd(p, n),
           NEW i \in 1..(Len(K[p]) + 1), NEW g \in Links, Shows(g, [K EXCEPT ![p] = InsertAt(K[p], i, n)], items),
           h' = g, items' = items, StringTyped
    PROVE  ItemInv' /\ Json!Forest!Next
<1>1. /\ p \in items /\ n \in items /\ p # n /\ n # NULL /\ h.next[n] = NULL
      /\ (\A q \in items : n \notin Range(K[q])) /\ p \notin Under(K, items, n)
    BY Addable
<1>2. K \in [items -> Seq(items)] /\ ItemKids = K /\ items \subseteq Items0
    BY ItemsAre DEF ItemTypes
<1>3. PICK K2 : K2 = [K EXCEPT ![p] = InsertAt(K[p], i, n)]
    OBVIOUS
<1>4. Range(InsertAt(K[p], i, n)) = Range(K[p]) \cup {n}
    <2>1. K[p] \in Seq(items)
        BY <1>1, <1>2
    <2> QED BY <1>1, <2>1, RangeInserted
<1>5. Adds(K2, K, items, p, n)
    BY <1>1, <1>2, <1>3, <1>4 DEF Adds
<1>6. \E r : Ranked(K2, items, r)
    BY <1>1, <1>2, <1>5, StillRanked
<1>7. Good(K2, items, g)
    BY <1>2, <1>3, <1>6 DEF Good
<1>8. ItemInv' /\ ItemKids' = K2
    <2>1. PICK B : B = items
        OBVIOUS
    <2>2. B = items' /\ g = h' /\ Good(K2, B, g)
        BY <1>7, <2>1
    <2> QED BY <2>2, Outcome
<1>9. Json!Forest!Root(n) /\ p \notin Json!Forest!Tree(n)
    BY <1>1, <1>2, ForestRoot, ForestTree
<1>10. ItemKids' = [ItemKids EXCEPT ![p] = Json!Forest!InsertAt(@, i, n)]
    BY <1>2, <1>3, <1>8, ForestNotions
<1>11. Json!Forest!Insert(p, i, n)
    BY <1>9, <1>10 DEF Json!Forest!Insert, ItemKids
<1>12. i \in 1..(Len(ItemKids[p]) + 1)
    BY <1>2
<1>13. Json!Forest!Next
    BY <1>1, <1>11, <1>12 DEF Json!Forest!Next, ItemKids
<1> QED BY <1>8, <1>13

\* One item less, the caller has it now.
LEMMA ItemTakeStep ==
    ASSUME ItemTypes, NEW K, Shows(h, K, items), NEW rank, Ranked(K, items, rank), NEW p \in items,
           NEW i \in 1..Len(K[p]), NEW g \in Links, Shows(g, [K EXCEPT ![p] = RemoveAt(K[p], i)], items),
           h' = g, items' = items, StringTyped
    PROVE  ItemInv' /\ Json!Forest!Next
<1>1. K \in [items -> Seq(items)] /\ ItemKids = K /\ items \subseteq Items0 /\ DOMAIN K[p] = 1..Len(K[p])
    <2>1. K \in [items -> Seq(items)] /\ ItemKids = K /\ items \subseteq Items0
        BY ItemsAre DEF ItemTypes
    <2> QED BY <2>1, SeqFacts
<1>2. PICK K2 : K2 = [K EXCEPT ![p] = RemoveAt(K[p], i)]
    OBVIOUS
<1>3. Range(RemoveAt(K[p], i)) = Range(K[p]) \ {K[p][i]}
    <2>1. K[p] \in Seq(items) /\ \A j, k \in 1..Len(K[p]) : K[p][j] = K[p][k] => j = k
        BY <1>1 DEF Shows, Shaped, Ring
    <2> QED BY <2>1, RangeRemoved
<1>4. \A q \in items : Range(K2[q]) \subseteq Range(K[q])
    BY <1>1, <1>2, <1>3
<1>5. Ranked(K2, items, rank)
    BY <1>4 DEF Ranked
<1>6. Good(K2, items, g)
    BY <1>1, <1>2, <1>5 DEF Good
<1>7. ItemInv' /\ ItemKids' = K2
    <2>1. PICK B : B = items
        OBVIOUS
    <2>2. B = items' /\ g = h' /\ Good(K2, B, g)
        BY <1>6, <2>1
    <2> QED BY <2>2, Outcome
<1>8. ItemKids' = [ItemKids EXCEPT ![p] = Json!Forest!RemoveAt(@, i)]
    BY <1>1, <1>2, <1>7, ForestNotions
<1>9. Json!Forest!TakeOut(p, i)
    BY <1>8 DEF Json!Forest!TakeOut, ItemKids
<1>10. i \in DOMAIN ItemKids[p]
    BY <1>1
<1>11. Json!Forest!Next
    BY <1>9, <1>10 DEF Json!Forest!Next, ItemKids
<1> QED BY <1>7, <1>11

\* The items of G are freed.
FreedIn(g, G) == h' = Json!Freed(g, G) /\ items' = items \ G /\ StringTyped

\* The links g with the children of p changed, and item taken from them.
Cut(K, K1, p, item, g) ==
  /\ ItemTypes /\ Shows(h, K, items) /\ (\E rank : Ranked(K, items, rank)) /\ p \in items /\ item \in Range(K[p])
  /\ SameBut(K1, K, items, p) /\ item \notin Range(K1[p]) /\ (\E r1 : Ranked(K1, items, r1))
  /\ g \in Links /\ g.next[item] = NULL /\ Shows(g, K1, items)

WithoutTree(K1, p, item, G) ==
  /\ ItemInv' /\ items' = items \ Json!Forest!Tree(item) /\ p \in items'
  /\ ItemKids' = [m \in items \ G |-> K1[m]]

\* The tree of the item is freed.
LEMMA ChildFreed ==
    ASSUME NEW K, NEW K1, NEW p, NEW item, NEW g, Cut(K, K1, p, item, g),
           NEW G, G = Json!DeletedIn(g, item), FreedIn(g, G)
    PROVE  WithoutTree(K1, p, item, G)
<1> /\ ItemTypes /\ Shows(h, K, items) /\ p \in items /\ item \in Range(K[p])
    /\ SameBut(K1, K, items, p) /\ item \notin Range(K1[p])
    /\ g \in Links /\ g.next[item] = NULL /\ Shows(g, K1, items)
    BY DEF Cut
<1> PICK rank : Ranked(K, items, rank)
    BY DEF Cut
<1>1. K \in [items -> Seq(items)] /\ ItemKids = K /\ items \subseteq Items0 /\ Range(K[p]) \subseteq items
    BY ItemsAre DEF ItemTypes
<1>2. K1 \in [items -> Seq(items)]
    BY DEF Shows, Shaped
<1>3. item \in items /\ OutOf(item, K1, items)
    <2>1. \A q \in items \ {p} : Range(K[p]) \cap Range(K[q]) = {}
        BY DEF Shows, Shaped
    <2> QED BY <1>1, <2>1 DEF OutOf, SameBut
<1>4. PICK k, B, K2 : k = Json!Freed(g, G) /\ B = items \ G /\ K2 = [m \in B |-> K1[m]]
    OBVIOUS
<1>5. G = Under(K1, items, item) /\ Good(K2, B, k)
    <2>1. Freeable(items, g, K1, item)
        BY <1>1, <1>3 DEF Freeable, Cut
    <2> QED BY <1>4, <2>1, TreeFreed
<1>6. ItemInv' /\ ItemKids' = K2
    BY <1>4, <1>5, Outcome DEF FreedIn
<1>7. p \notin Under(K, items, item)
    BY <1>1, NotUnder
<1>8. Under(K1, items, item) = Under(K, items, item)
    <2>1. OnlyOutside(K1, K, items, p, item)
        BY <1>1, <1>2, <1>3, <1>7 DEF OnlyOutside
    <2> QED BY <2>1, SameTree
<1>9. Json!Forest!Tree(item) = G
    BY <1>1, <1>5, <1>8, ForestTree
<1> QED BY <1>4, <1>5, <1>6, <1>7, <1>8, <1>9 DEF FreedIn, WithoutTree

LEMMA ItemRemoveStep ==
    ASSUME ItemTypes, NEW K, Shows(h, K, items), NEW rank, Ranked(K, items, rank), NEW p \in items,
           NEW i \in 1..Len(K[p]), NEW n, n = K[p][i], NEW g, g = Json!Detached(p, n),
           NEW G, G = Json!DeletedIn(g, n), FreedIn(g, G)
    PROVE  ItemInv' /\ Json!Forest!Next
<1>1. K \in [items -> Seq(items)] /\ ItemKids = K /\ K[p] \in Seq(items) /\ DOMAIN K[p] = 1..Len(K[p])
    <2>1. K \in [items -> Seq(items)] /\ ItemKids = K
        BY ItemsAre
    <2> QED BY <2>1, SeqFacts
<1>2. PICK K1 : K1 = [K EXCEPT ![p] = RemoveAt(K[p], i)]
    OBVIOUS
<1>3. g \in Links /\ g.next[n] = NULL /\ Shows(g, K1, items)
    BY <1>2, Detaches, ZenonT(30)
<1>4. Range(RemoveAt(K[p], i)) = Range(K[p]) \ {n} /\ n \in Range(K[p])
    <2>1. \A j, k \in 1..Len(K[p]) : K[p][j] = K[p][k] => j = k
        BY <1>1 DEF Shows, Shaped, Ring
    <2> QED BY <1>1, <2>1, RangeRemoved
<1>5. K1[p] = RemoveAt(K[p], i) /\ SameBut(K1, K, items, p) /\ n \notin Range(K1[p])
    BY <1>1, <1>2, <1>4 DEF SameBut
<1>6. Ranked(K1, items, rank)
    BY <1>4, <1>5 DEF Ranked, SameBut
<1>7. /\ ItemInv' /\ items' = items \ Json!Forest!Tree(n) /\ p \in items'
      /\ ItemKids' = [m \in items \ G |-> K1[m]]
    <2>1. Cut(K, K1, p, n, g)
        BY <1>3, <1>4, <1>5, <1>6 DEF Cut
    <2>2. WithoutTree(K1, p, n, G)
        BY <2>1, ChildFreed
    <2> QED BY <2>2 DEF WithoutTree
<1>8. ItemKids' = [m \in items' |-> IF m = p THEN Json!Forest!RemoveAt(ItemKids[p], i) ELSE ItemKids[m]]
    BY <1>1, <1>5, <1>7, ForestNotions DEF SameBut, FreedIn
<1>9. items' = items \ Json!Forest!Tree(ItemKids[p][i]) /\ items' \subseteq items
    BY <1>1, <1>7
<1>10. Json!Forest!RemoveAndFree(p, i)
    BY <1>8, <1>9 DEF Json!Forest!RemoveAndFree, ItemKids
<1>11. i \in DOMAIN ItemKids[p]
    BY <1>1
<1>12. Json!Forest!Next
    BY <1>10, <1>11 DEF Json!Forest!Next, ItemKids
<1> QED BY <1>7, <1>12

LEMMA ItemReplaceStep ==
    ASSUME ItemTypes, NEW K, Shows(h, K, items), NEW rank, Ranked(K, items, rank), NEW p, NEW n, Json!MayAdd(p, n),
           NEW i \in 1..Len(K[p]), NEW item, item = K[p][i], NEW g, g = Json!Replaced(p, item, n),
           NEW G, G = Json!DeletedIn(g, item), FreedIn(g, G)
    PROVE  ItemInv' /\ Json!Forest!Next
<1>1. /\ p \in items /\ n \in items /\ p # n /\ n # NULL /\ h.next[n] = NULL
      /\ (\A q \in items : n \notin Range(K[q])) /\ p \notin Under(K, items, n)
    BY Addable
<1>2. K \in [items -> Seq(items)] /\ ItemKids = K /\ DOMAIN K[p] = 1..Len(K[p])
    <2>1. K \in [items -> Seq(items)] /\ ItemKids = K
        BY ItemsAre
    <2> QED BY <1>1, <2>1, SeqFacts
<1>3. PICK K1 : K1 = [K EXCEPT ![p] = ReplaceAt(K[p], i, n)]
    OBVIOUS
<1>4. /\ g \in Links /\ g.next[item] = NULL /\ Shows(g, K1, items)
      /\ Range(ReplaceAt(K[p], i, n)) = (Range(K[p]) \ {item}) \cup {n} /\ item \in Range(K[p])
    <2>1. /\ g \in Links /\ g.next[item] = NULL /\ Shows(g, [K EXCEPT ![p] = ReplaceAt(K[p], i, n)], items)
          /\ Range(ReplaceAt(K[p], i, n)) = (Range(K[p]) \ {item}) \cup {n} /\ item \in Range(K[p])
        BY Exchanges
    <2> QED BY <1>3, <2>1
<1>5. K1[p] = ReplaceAt(K[p], i, n) /\ SameBut(K1, K, items, p) /\ item \notin Range(K1[p])
    BY <1>1, <1>2, <1>3, <1>4 DEF SameBut
<1>6. Adds(K1, K, items, p, n)
    BY <1>4, <1>5 DEF Adds, SameBut
<1>7. PICK r1 : Ranked(K1, items, r1)
    BY <1>1, <1>2, <1>6, StillRanked
<1>8. /\ ItemInv' /\ items' = items \ Json!Forest!Tree(item) /\ p \in items'
      /\ ItemKids' = [m \in items \ G |-> K1[m]]
    <2>1. Cut(K, K1, p, item, g)
        BY <1>1, <1>4, <1>5, <1>7 DEF Cut
    <2>2. WithoutTree(K1, p, item, G)
        BY <2>1, ChildFreed
    <2> QED BY <2>2 DEF WithoutTree
<1>9. ItemKids' = [m \in items' |-> IF m = p THEN Json!Forest!ReplaceAt(ItemKids[p], i, n) ELSE ItemKids[m]]
    BY <1>2, <1>5, <1>8, ForestNotions DEF SameBut, FreedIn
<1>10. items' = items \ Json!Forest!Tree(ItemKids[p][i]) /\ items' \subseteq items
    BY <1>2, <1>8
<1>11. Json!Forest!Root(n) /\ p \notin Json!Forest!Tree(n)
    BY <1>1, <1>2, ForestRoot, ForestTree
<1>12. Json!Forest!Replace(p, i, n)
    BY <1>9, <1>10, <1>11 DEF Json!Forest!Replace, ItemKids
<1>13. i \in DOMAIN ItemKids[p]
    BY <1>2
<1>14. Json!Forest!Next
    BY <1>1, <1>12, <1>13 DEF Json!Forest!Next, ItemKids
<1> QED BY <1>8, <1>14

LEMMA ItemFreeStep ==
    ASSUME ItemInv, NEW n, Json!cJSON_Delete(n), StringTyped
    PROVE  ItemInv' /\ Json!Forest!Next
<1>1. PICK K, rank : Shows(h, K, items) /\ Ranked(K, items, rank)
    BY DEF ItemInv
<1>2. ItemTypes /\ h \in Links /\ items \subseteq Items0 /\ K \in [items -> Seq(items)] /\ ItemKids = K
    BY <1>1, ItemsAre DEF ItemInv, ItemTypes
<1>3. PICK G : G = Json!DeletedIn(h, n)
    OBVIOUS
<1>4. Json!Root(n) /\ items' = items \ G /\ h' = Json!Freed(h, G)
    BY <1>3 DEF Json!cJSON_Delete, Json!Deleted
<1>5. n \in items /\ h.next[n] = NULL /\ \A q \in items : n \notin Range(K[q])
    BY <1>1, <1>2, <1>4, Held
<1>6. PICK k, B, K2 : k = Json!Freed(h, G) /\ B = items \ G /\ K2 = [m \in B |-> K[m]]
    OBVIOUS
<1>7. G = Under(K, items, n) /\ Good(K2, B, k)
    <2>1. OutOf(n, K, items)
        BY <1>5 DEF OutOf
    <2>2. Freeable(items, h, K, n)
        BY <1>1, <1>2, <1>5, <2>1 DEF Freeable
    <2> QED BY <1>3, <1>6, <2>2, TreeFreed
<1>8. ItemInv' /\ ItemKids' = K2
    BY <1>4, <1>6, <1>7, Outcome
<1>9. Json!Forest!Root(n) /\ Json!Forest!Tree(n) = G
    BY <1>2, <1>5, <1>7, ForestRoot, ForestTree
<1>10. items' = items \ Json!Forest!Tree(n) /\ ItemKids' = [m \in items \ Json!Forest!Tree(n) |-> ItemKids[m]]
    BY <1>2, <1>4, <1>6, <1>8, <1>9
<1>11. Json!Forest!Free(n)
    BY <1>9, <1>10 DEF Json!Forest!Free, Json!Forest!Without, ItemKids
<1>12. Json!Forest!Next
    BY <1>5, <1>11 DEF Json!Forest!Next, ItemKids
<1> QED BY <1>8, <1>12

-----------------------------------------------------------------------------
(* New items beside the old ones                                           *)

Beside(K, A, KN, N) == [m \in A \cup N |-> IF m \in A THEN K[m] ELSE KN[m]]

LEMMA TwoShapes ==
    ASSUME NEW A, NEW N, A \cap N = {}, NEW K, NEW KN, NEW ch, NEW nx, NEW pv,
           Shaped(K, A, ch, nx, pv), Shaped(KN, N, ch, nx, pv), NEW B, B = A \cup N, NEW K2, K2 = Beside(K, A, KN, N)
    PROVE  Shaped(K2, B, ch, nx, pv)
<1>1. K \in [A -> Seq(A)] /\ KN \in [N -> Seq(N)]
    BY DEF Shaped
<1>2. (\A q \in A : Range(K[q]) \subseteq A) /\ (\A q \in N : Range(KN[q]) \subseteq N)
    BY <1>1, SeqFacts
<1>3. (\A q \in A : K2[q] = K[q]) /\ (\A q \in N : K2[q] = KN[q]) /\ DOMAIN K2 = B /\ K2 = [q \in B |-> K2[q]]
    BY DEF Beside
<1>4. ASSUME NEW q \in B PROVE Ring(K2[q], B, ch[q], nx, pv)
    <2>1. CASE q \in A
        <3>1. Ring(K[q], A, ch[q], nx, pv)
            BY <2>1 DEF Shaped
        <3>2. \A m \in Range(K[q]) : m \in B /\ nx[m] = nx[m] /\ pv[m] = pv[m]
            BY <1>2, <2>1
        <3>3. Ring(K[q], B, ch[q], nx, pv)
            BY <3>1, <3>2, SameRing
        <3> QED BY <1>3, <2>1, <3>3
    <2>2. CASE q \in N
        <3>1. Ring(KN[q], N, ch[q], nx, pv)
            BY <2>2 DEF Shaped
        <3>2. \A m \in Range(KN[q]) : m \in B /\ nx[m] = nx[m] /\ pv[m] = pv[m]
            BY <1>2, <2>2
        <3>3. Ring(KN[q], B, ch[q], nx, pv)
            BY <3>1, <3>2, SameRing
        <3> QED BY <1>3, <2>2, <3>3
    <2> QED BY <2>1, <2>2
<1>5. K2 \in [B -> Seq(B)]
    <2>1. \A q \in B : K2[q] \in Seq(B)
        BY <1>4 DEF Ring
    <2> QED BY <1>3, <2>1
<1>6. ASSUME NEW q \in B, NEW r \in B, q # r PROVE Range(K2[q]) \cap Range(K2[r]) = {}
    <2>1. CASE q \in A /\ r \in A
        BY <1>3, <1>6, <2>1 DEF Shaped
    <2>2. CASE q \in N /\ r \in N
        BY <1>3, <1>6, <2>2 DEF Shaped
    <2>3. CASE q \in A /\ r \in N
        BY <1>2, <1>3, <2>3
    <2>4. CASE q \in N /\ r \in A
        BY <1>2, <1>3, <2>4
    <2> QED BY <2>1, <2>2, <2>3, <2>4
<1>7. ASSUME NEW m \in B, \A q \in B : m \notin Range(K2[q]) PROVE nx[m] = NULL
    <2>1. CASE m \in A
        <3>1. \A q \in A : m \notin Range(K[q])
            BY <1>3, <1>7
        <3> QED BY <2>1, <3>1 DEF Shaped
    <2>2. CASE m \in N
        <3>1. \A q \in N : m \notin Range(KN[q])
            BY <1>3, <1>7
        <3> QED BY <2>2, <3>1 DEF Shaped
    <2> QED BY <2>1, <2>2
<1> QED BY <1>4, <1>5, <1>6, <1>7 DEF Shaped

LEMMA TwoRanks ==
    ASSUME NEW A, NEW N, A \cap N = {}, NEW K \in [A -> Seq(A)], NEW KN \in [N -> Seq(N)], NEW rank, NEW rn,
           Ranked(K, A, rank), Ranked(KN, N, rn), NEW K2, K2 = Beside(K, A, KN, N)
    PROVE  \E r : Ranked(K2, A \cup N, r)
<1>1. (\A q \in A : Range(K[q]) \subseteq A) /\ (\A q \in N : Range(KN[q]) \subseteq N)
    BY SeqFacts
<1>2. PICK B, r : B = A \cup N /\ r = [m \in B |-> IF m \in A THEN rank[m] ELSE rn[m]]
    OBVIOUS
<1>3. r \in [B -> Nat]
    BY <1>2 DEF Ranked
<1>4. (\A q \in A : K2[q] = K[q] /\ r[q] = rank[q]) /\ (\A q \in N : K2[q] = KN[q] /\ r[q] = rn[q])
    BY <1>2 DEF Beside
<1>5. ASSUME NEW q \in B, NEW m \in Range(K2[q]) PROVE r[m] < r[q]
    <2>1. CASE q \in A
        BY <1>1, <1>4, <2>1 DEF Ranked
    <2>2. CASE q \in N
        BY <1>1, <1>4, <2>2 DEF Ranked
    <2> QED BY <1>2, <2>1, <2>2
<1>6. Ranked(K2, B, r)
    BY <1>3, <1>5 DEF Ranked
<1> QED BY <1>2, <1>6

\* The links g show the old items as h did, and the new ones N as KN says.
Grown(K, KN, N, g) ==
  /\ ItemTypes /\ Shows(h, K, items) /\ (\E rank : Ranked(K, items, rank))
  /\ N \subseteq Items0 \ items /\ g \in Links
  /\ \A m \in items : g.child[m] = h.child[m] /\ g.next[m] = h.next[m] /\ g.prev[m] = h.prev[m]
  /\ Shows(g, KN, N) /\ \E rn : Ranked(KN, N, rn)

LEMMA GrownGood ==
    ASSUME NEW K, NEW KN, NEW N, NEW g, Grown(K, KN, N, g)
    PROVE  Good(Beside(K, items, KN, N), items \cup N, g)
<1>1. PICK A, ch, nx, pv, ch2, nx2, pv2 : /\ A = items /\ ch = h.child /\ nx = h.next /\ pv = h.prev
                                          /\ ch2 = g.child /\ nx2 = g.next /\ pv2 = g.prev
    OBVIOUS
<1>2. /\ Shaped(K, A, ch, nx, pv) /\ Shaped(KN, N, ch2, nx2, pv2) /\ A \cap N = {} /\ A \cup N \subseteq Items0 /\ g \in Links
      /\ \A m \in A : ch2[m] = ch[m] /\ nx2[m] = nx[m] /\ pv2[m] = pv[m]
    BY <1>1 DEF Grown, Shows, ItemTypes
<1>3. K \in [A -> Seq(A)] /\ KN \in [N -> Seq(N)]
    BY <1>2 DEF Shaped
<1>4. \A q \in A : Range(K[q]) \subseteq A
    BY <1>3, SeqFacts
<1>5. ASSUME NEW q \in A PROVE Ring(K[q], A, ch2[q], nx2, pv2)
    <2>1. Ring(K[q], A, ch2[q], nx, pv)
        BY <1>2 DEF Shaped
    <2>2. \A m \in Range(K[q]) : m \in A /\ nx2[m] = nx[m] /\ pv2[m] = pv[m]
        BY <1>2, <1>4
    <2> QED BY <2>1, <2>2, SameRing
<1>6. Shaped(K, A, ch2, nx2, pv2)
    BY <1>2, <1>3, <1>5 DEF Shaped
<1>7. PICK K2, B : K2 = Beside(K, A, KN, N) /\ B = A \cup N
    OBVIOUS
<1>8. Shaped(K2, B, ch2, nx2, pv2)
    BY <1>2, <1>6, <1>7, TwoShapes
<1>9. \E r : Ranked(K2, B, r)
    <2>1. PICK rank, rn : Ranked(K, A, rank) /\ Ranked(KN, N, rn)
        BY <1>1 DEF Grown
    <2> QED BY <1>2, <1>3, <1>7, <2>1, TwoRanks
<1>10. Good(K2, B, g)
    BY <1>1, <1>2, <1>7, <1>8, <1>9 DEF Good, Shows
<1> QED BY <1>1, <1>7, <1>10

LEMMA ItemAllocStep ==
    ASSUME ItemInv, NEW n \in Items0, Json!cJSON_New_Item(n)
    PROVE  ItemInv' /\ Json!Forest!Next
<1>1. PICK K, rank : Shows(h, K, items) /\ Ranked(K, items, rank)
    BY DEF ItemInv
<1>2. ItemTypes /\ h \in Links /\ items \subseteq Items0 /\ K \in [items -> Seq(items)] /\ ItemKids = K
    BY <1>1, ItemsAre DEF ItemInv, ItemTypes
<1>3. n \notin items /\ items' = items \cup {n} /\ string' = [string EXCEPT ![n] = NULL]
    BY DEF Json!cJSON_New_Item
<1>4. PICK a, b, g : a = SetChild(h, n, NULL) /\ b = SetPrev(a, n, NULL) /\ g = SetNext(b, n, NULL)
    OBVIOUS
<1>5. h' = g
    BY <1>4 DEF Json!cJSON_New_Item, SetChild, SetPrev, SetNext
<1>6. NULL \in Items0 \cup {NULL}
    OBVIOUS
<1>7. ChildDone(h, n, NULL, a) /\ a \in Links
    BY <1>2, <1>4, <1>6, ChildSet
<1>8. PrevDone(a, n, NULL, b) /\ b \in Links
    BY <1>4, <1>6, <1>7, PrevSet
<1>9. NextDone(b, n, NULL, g) /\ g \in Links
    BY <1>4, <1>6, <1>8, NextSet
<1>10. /\ \A m \in items : g.child[m] = h.child[m] /\ g.next[m] = h.next[m] /\ g.prev[m] = h.prev[m]
       /\ g.child[n] = NULL /\ g.next[n] = NULL
    BY <1>2, <1>3, <1>7, <1>8, <1>9 DEF ChildDone, PrevDone, NextDone
<1>11. PICK N, KN, rn : N = {n} /\ KN = [m \in N |-> <<>>] /\ rn = [m \in N |-> 0]
    OBVIOUS
<1>12. Range(<<>>) = {} /\ <<>> \in Seq(N) /\ Len(<<>>) = 0 /\ 1..0 = {}
    BY DEF Range
<1>13. KN \in [N -> Seq(N)] /\ KN[n] = <<>> /\ \A m \in N : m = n
    BY <1>11, <1>12
<1>14. PICK ch2, nx2, pv2 : ch2 = g.child /\ nx2 = g.next /\ pv2 = g.prev
    OBVIOUS
<1>15. Ring(<<>>, N, ch2[n], nx2, pv2)
    BY <1>10, <1>12, <1>14 DEF Ring, FirstOf
<1>16. Shaped(KN, N, ch2, nx2, pv2)
    BY <1>10, <1>12, <1>13, <1>14, <1>15 DEF Shaped
<1>17. Ranked(KN, N, rn)
    BY <1>11, <1>12, <1>13 DEF Ranked
<1>18. Grown(K, KN, N, g)
    BY <1>1, <1>2, <1>3, <1>9, <1>10, <1>11, <1>14, <1>16, <1>17 DEF Grown, Shows
<1>19. PICK K2, B : K2 = Beside(K, items, KN, N) /\ B = items \cup N
    OBVIOUS
<1>20. Good(K2, B, g)
    BY <1>18, <1>19, GrownGood
<1>21. StringTyped
    BY <1>2, <1>3 DEF ItemTypes, StringTyped
<1>22. ItemInv' /\ ItemKids' = K2
    <2>1. B = items' /\ g = h'
        BY <1>3, <1>5, <1>11, <1>19
    <2> QED BY <1>20, <1>21, <2>1, Outcome
<1>23. ItemKids' = [m \in items' |-> IF m = n THEN <<>> ELSE ItemKids[m]]
    BY <1>2, <1>3, <1>11, <1>13, <1>19, <1>22 DEF Beside
<1>24. Json!Forest!Alloc(n)
    BY <1>3, <1>23 DEF Json!Forest!Alloc, ItemKids
<1> QED BY <1>22, <1>24 DEF Json!Forest!Next

-----------------------------------------------------------------------------
(* The operations                                                          *)

LEMMA ForgottenTyped == ASSUME ItemTypes, NEW S PROVE Json!Forgotten(S) \in [Items0 -> Keys0 \cup {NULL}]
    BY DEF ItemTypes, Json!Forgotten

LEMMA ItemAppendStep ==
    ASSUME ItemInv, NEW p, NEW n, Json!MayAdd(p, n), h' = Json!add_item_to_array(p, n), items' = items, StringTyped
    PROVE  ItemInv' /\ Json!Forest!Next
<1>1. PICK K, rank : Shows(h, K, items) /\ Ranked(K, items, rank)
    BY DEF ItemInv
<1>2. ItemTypes
    BY DEF ItemInv
<1>3. PICK g : g = Json!add_item_to_array(p, n)
    OBVIOUS
<1>4. PICK i : i = Len(K[p]) + 1
    OBVIOUS
<1>5. g \in Links /\ i \in 1..(Len(K[p]) + 1) /\ Shows(g, [K EXCEPT ![p] = InsertAt(K[p], i, n)], items)
    BY <1>1, <1>2, <1>3, <1>4, Appends
<1>6. h' = g
    BY <1>3
<1> QED BY <1>1, <1>2, <1>5, <1>6, ItemInsertStep

LEMMA AddToArrayStep ==
    ASSUME ItemInv, NEW p, NEW n, Json!cJSON_AddItemToArray(p, n) PROVE ItemInv' /\ Json!Forest!Next
<1>1. Json!MayAdd(p, n) /\ h' = Json!add_item_to_array(p, n) /\ items' = items /\ string' = string
    BY DEF Json!cJSON_AddItemToArray
<1>2. StringTyped
    BY <1>1 DEF StringTyped, ItemInv, ItemTypes
<1> QED BY <1>1, <1>2, ItemAppendStep

LEMMA AddToObjectStep ==
    ASSUME ItemInv, NEW p, NEW n, NEW key \in Keys0, Json!add_item_to_object(p, key, n) PROVE ItemInv' /\ Json!Forest!Next
<1>1. /\ Json!MayAdd(p, n) /\ h' = Json!add_item_to_array(p, n) /\ items' = items
      /\ string' = [string EXCEPT ![n] = key]
    BY DEF Json!add_item_to_object
<1>2. StringTyped
    BY <1>1 DEF StringTyped, ItemInv, ItemTypes
<1> QED BY <1>1, <1>2, ItemAppendStep

LEMMA InsertInArrayStep ==
    ASSUME ItemInv, NEW p, NEW n, NEW which \in Nat, Json!cJSON_InsertItemInArray(p, which, n)
    PROVE  ItemInv' /\ Json!Forest!Next
<1>1. PICK K, rank : Shows(h, K, items) /\ Ranked(K, items, rank)
    BY DEF ItemInv
<1>2. ItemTypes
    BY DEF ItemInv
<1>3. PICK at : at = Json!get_array_item(p, which)
    OBVIOUS
<1>4. /\ Json!MayAdd(p, n) /\ items' = items /\ string' = string
      /\ h' = IF at = NULL THEN Json!add_item_to_array(p, n) ELSE PutBefore(p, n, at)
    BY <1>3 DEF Json!cJSON_InsertItemInArray, PutBefore, RoomFor, SetChild, SetNext
<1>5. StringTyped
    BY <1>2, <1>4 DEF StringTyped, ItemTypes
<1>6. p \in items
    BY <1>4 DEF Json!MayAdd
<1>7. K[p] \in Seq(items) /\ Json!Children(p) = K[p] /\ NULL \notin items
    BY <1>1, <1>2, <1>6, ItemsAre
<1>8. Len(K[p]) \in Nat /\ K[p] \in [1..Len(K[p]) -> items]
    BY <1>7, SeqFacts
<1>9. CASE at = NULL
    <2>1. h' = Json!add_item_to_array(p, n)
        BY <1>4, <1>9
    <2> QED BY <1>4, <1>5, <2>1, ItemAppendStep
<1>10. CASE at # NULL
    <2>1. PICK i : i = which + 1
        OBVIOUS
    <2>2. which < Len(K[p]) /\ at = K[p][i]
        BY <1>3, <1>7, <1>10, <2>1 DEF Json!get_array_item
    <2>3. i \in 1..Len(K[p]) /\ i \in 1..(Len(K[p]) + 1)
        BY <1>8, <2>1, <2>2
    <2>4. PICK g : g = PutBefore(p, n, at)
        OBVIOUS
    <2>5. g \in Links /\ Shows(g, [K EXCEPT ![p] = InsertAt(K[p], i, n)], items)
        BY <1>1, <1>2, <1>4, <2>2, <2>3, <2>4, Inserts
    <2>6. h' = g
        BY <1>4, <1>10, <2>4
    <2> QED BY <1>1, <1>2, <1>4, <1>5, <2>3, <2>5, <2>6, ItemInsertStep
<1> QED BY <1>9, <1>10

LEMMA DetachStep ==
    ASSUME ItemInv, NEW p, NEW n, Json!cJSON_DetachItemViaPointer(p, n) PROVE ItemInv' /\ Json!Forest!Next
<1>1. PICK K, rank : Shows(h, K, items) /\ Ranked(K, items, rank)
    BY DEF ItemInv
<1>2. ItemTypes
    BY DEF ItemInv
<1>3. p \in items /\ n \in Json!Range(Json!Children(p)) /\ h' = Json!Detached(p, n) /\ items' = items /\ string' = string
    BY DEF Json!cJSON_DetachItemViaPointer
<1>4. K[p] \in Seq(items) /\ n \in Range(K[p])
    BY <1>1, <1>2, <1>3, ItemsAre, ItemRange
<1>5. PICK i \in 1..Len(K[p]) : n = K[p][i]
    BY <1>4, SeqFacts
<1>6. PICK g : g = Json!Detached(p, n)
    OBVIOUS
<1>7. g \in Links /\ Shows(g, [K EXCEPT ![p] = RemoveAt(K[p], i)], items)
    BY <1>1, <1>2, <1>3, <1>5, <1>6, Detaches
<1>8. StringTyped
    BY <1>2, <1>3 DEF StringTyped, ItemTypes
<1>9. h' = g
    BY <1>3, <1>6
<1> QED BY <1>1, <1>2, <1>3, <1>5, <1>7, <1>8, <1>9, ItemTakeStep

LEMMA DeleteItemStep ==
    ASSUME ItemInv, NEW p, NEW n, Json!DeleteItem(p, n) PROVE ItemInv' /\ Json!Forest!Next
<1>1. PICK K, rank : Shows(h, K, items) /\ Ranked(K, items, rank)
    BY DEF ItemInv
<1>2. ItemTypes
    BY DEF ItemInv
<1>3. PICK g : g = Json!Detached(p, n)
    OBVIOUS
<1>4. PICK G : G = Json!DeletedIn(g, n)
    OBVIOUS
<1>5. /\ p \in items /\ n \in Json!Range(Json!Children(p)) /\ h' = Json!Freed(g, G) /\ items' = items \ G
      /\ string' = Json!Forgotten(G)
    BY <1>3, <1>4 DEF Json!DeleteItem
<1>6. K[p] \in Seq(items) /\ n \in Range(K[p])
    BY <1>1, <1>2, <1>5, ItemsAre, ItemRange
<1>7. PICK i \in 1..Len(K[p]) : n = K[p][i]
    BY <1>6, SeqFacts
<1>8. StringTyped
    BY <1>2, <1>5, ForgottenTyped DEF StringTyped
<1>9. FreedIn(g, G)
    BY <1>5, <1>8 DEF FreedIn
<1> QED BY <1>1, <1>2, <1>3, <1>4, <1>5, <1>7, <1>9, ItemRemoveStep

LEMMA ReplaceStep ==
    ASSUME ItemInv, NEW p, NEW item, NEW n, Json!MayAdd(p, n), item \in Json!Range(Json!Children(p)),
           NEW G, G = Json!DeletedIn(Json!Replaced(p, item, n), item), FreedIn(Json!Replaced(p, item, n), G)
    PROVE  ItemInv' /\ Json!Forest!Next
<1>1. PICK K, rank : Shows(h, K, items) /\ Ranked(K, items, rank)
    BY DEF ItemInv
<1>2. ItemTypes
    BY DEF ItemInv
<1>3. PICK g : g = Json!Replaced(p, item, n)
    OBVIOUS
<1>4. G = Json!DeletedIn(g, item) /\ FreedIn(g, G)
    BY <1>3
<1>5. p \in items
    BY DEF Json!MayAdd
<1>6. K[p] \in Seq(items) /\ item \in Range(K[p])
    BY <1>1, <1>2, <1>5, ItemsAre, ItemRange
<1>7. PICK i \in 1..Len(K[p]) : item = K[p][i]
    BY <1>6, SeqFacts
<1> QED BY <1>1, <1>2, <1>3, <1>4, <1>7, ItemReplaceStep

LEMMA ReplaceViaPointerStep ==
    ASSUME ItemInv, NEW p, NEW item, NEW n, Json!cJSON_ReplaceItemViaPointer(p, item, n) PROVE ItemInv' /\ Json!Forest!Next
<1>1. PICK G : G = Json!DeletedIn(Json!Replaced(p, item, n), item)
    OBVIOUS
<1>2. /\ Json!MayAdd(p, n) /\ item \in Json!Range(Json!Children(p)) /\ h' = Json!Freed(Json!Replaced(p, item, n), G)
      /\ items' = items \ G /\ string' = Json!Forgotten(G)
    BY <1>1 DEF Json!cJSON_ReplaceItemViaPointer
<1>3. StringTyped
    BY <1>2, ForgottenTyped DEF StringTyped, ItemInv
<1>4. FreedIn(Json!Replaced(p, item, n), G)
    BY <1>2, <1>3 DEF FreedIn
<1> QED BY <1>1, <1>2, <1>4, ReplaceStep

\* A key is looked up among the children.
LEMMA ByKey ==
    ASSUME ItemInv, NEW p \in items, NEW key, NEW item, item = Json!get_object_item(p, key), item # NULL
    PROVE  item \in Json!Range(Json!Children(p))
<1>1. PICK K : Shows(h, K, items)
    BY DEF ItemInv
<1>2. ItemTypes
    BY DEF ItemInv
<1>3. PICK c : c = Json!Children(p)
    OBVIOUS
<1>4. c \in Seq(items)
    BY <1>1, <1>2, <1>3, ItemsAre
<1>5. Len(c) \in Nat /\ DOMAIN c = 1..Len(c)
    BY <1>4, SeqFacts
<1>6. PICK hits : hits = {i \in DOMAIN c : string[c[i]] = key}
    OBVIOUS
<1>7. PICK first : first = CHOOSE i \in hits : \A j \in hits : i <= j
    OBVIOUS
<1>8. hits # {} /\ item = c[first]
    BY <1>3, <1>6, <1>7 DEF Json!get_object_item
<1>9. hits \subseteq Nat
    BY <1>5, <1>6
<1>10. \E i \in hits : \A j \in hits : i <= j
    BY <1>8, <1>9, Least
<1>11. first \in hits
    BY <1>7, <1>10
<1>12. first \in DOMAIN c
    BY <1>6, <1>11
<1> QED BY <1>3, <1>8, <1>12 DEF Json!Range

LEMMA DeleteFromArrayStep ==
    ASSUME ItemInv, NEW p, NEW which, Json!cJSON_DeleteItemFromArray(p, which) PROVE ItemInv' /\ Json!Forest!Next
    BY DeleteItemStep DEF Json!cJSON_DeleteItemFromArray

LEMMA DeleteFromObjectStep ==
    ASSUME ItemInv, NEW p, NEW key, Json!cJSON_DeleteItemFromObject(p, key) PROVE ItemInv' /\ Json!Forest!Next
    BY DeleteItemStep DEF Json!cJSON_DeleteItemFromObject

LEMMA ReplaceInObjectStep ==
    ASSUME ItemInv, NEW p, NEW n, NEW key \in Keys0, Json!replace_item_in_object(p, key, n)
    PROVE  ItemInv' /\ (Json!Forest!Next \/ (items' = items /\ h' = h))
<1>1. PICK item : item = Json!get_object_item(p, key)
    OBVIOUS
<1>2. PICK G : G = IF item = NULL THEN {} ELSE Json!DeletedIn(Json!Replaced(p, item, n), item)
    OBVIOUS
<1>3. /\ Json!MayAdd(p, n) /\ string' = [Json!Forgotten(G) EXCEPT ![n] = key]
      /\ h' = IF item = NULL THEN h ELSE Json!Freed(Json!Replaced(p, item, n), G)
      /\ items' = items \ G
    BY <1>1, <1>2 DEF Json!replace_item_in_object
<1>4. StringTyped
    BY <1>3, ForgottenTyped DEF StringTyped, ItemInv
<1>5. CASE item = NULL
    <2>1. items' = items /\ h' = h
        BY <1>2, <1>3, <1>5
    <2>2. ItemInv'
        BY <1>4, <2>1 DEF ItemInv, ItemTypes, StringTyped
    <2> QED BY <2>1, <2>2
<1>6. CASE item # NULL
    <2>1. p \in items
        BY <1>3 DEF Json!MayAdd
    <2>2. item \in Json!Range(Json!Children(p))
        BY <1>1, <1>6, <2>1, ByKey
    <2>3. G = Json!DeletedIn(Json!Replaced(p, item, n), item) /\ FreedIn(Json!Replaced(p, item, n), G)
        BY <1>2, <1>3, <1>4, <1>6 DEF FreedIn
    <2> QED BY <1>3, <2>2, <2>3, ReplaceStep
<1> QED BY <1>5, <1>6

LEMMA DeleteStep ==
    ASSUME ItemInv, NEW n, Json!cJSON_Delete(n) PROVE ItemInv' /\ Json!Forest!Next
<1>1. StringTyped
    BY ForgottenTyped DEF StringTyped, ItemInv, Json!cJSON_Delete
<1> QED BY <1>1, ItemFreeStep

-----------------------------------------------------------------------------
(* cJSON_Duplicate                                                         *)

\* The children of the copies that f makes of the items of T.
Copied(K, T, f) == [m \in Range(f) |-> LET o == CHOOSE x \in T : f[x] = m IN [i \in DOMAIN K[o] |-> f[K[o][i]]]]

\* The links of the copy f of the tree T under n.
CopyLinked(K, T, n, f, ch, nx, pv) ==
    /\ \A q \in T : ch[f[q]] = IF K[q] = <<>> THEN NULL ELSE f[K[q][1]]
    /\ \A q \in T : \A i \in 1..Len(K[q]) : nx[f[K[q][i]]] = IF i = Len(K[q]) THEN NULL ELSE f[K[q][i + 1]]
    /\ \A q \in T : \A i \in 1..Len(K[q]) : pv[f[K[q][i]]] = IF i = 1 THEN f[K[q][Len(K[q])]] ELSE f[K[q][i - 1]]
    /\ nx[f[n]] = NULL

OneToOne(f, T) == DOMAIN f = T /\ \A a, b \in T : f[a] = f[b] => a = b

LEMMA CopyFacts ==
    ASSUME NEW T, NEW f, OneToOne(f, T), NEW K, NEW KN, KN = Copied(K, T, f)
    PROVE  /\ \A o \in T : KN[f[o]] = [i \in DOMAIN K[o] |-> f[K[o][i]]] /\ f[o] \in Range(f)
           /\ \A m \in Range(f) : \E o \in T : m = f[o]
           /\ DOMAIN KN = Range(f) /\ KN = [m \in Range(f) |-> KN[m]]
<1> USE DEF OneToOne
<1>1. ASSUME NEW o \in T PROVE KN[f[o]] = [i \in DOMAIN K[o] |-> f[K[o][i]]] /\ f[o] \in Range(f)
    <2>1. f[o] \in Range(f)
        BY DEF Range
    <2>2. (CHOOSE x \in T : f[x] = f[o]) = o
        OBVIOUS
    <2> QED BY <2>1, <2>2 DEF Copied
<1>2. \A m \in Range(f) : \E o \in T : m = f[o]
    BY DEF Range
<1>3. KN = [m \in Range(f) |-> LET o == CHOOSE x \in T : f[x] = m IN [i \in DOMAIN K[o] |-> f[K[o][i]]]]
    BY DEF Copied
<1>4. DOMAIN KN = Range(f) /\ KN = [m \in Range(f) |-> KN[m]]
    BY <1>3
<1> QED BY <1>1, <1>2, <1>4

CopiedLine(c, T, f, N, d, first, nx, pv) ==
    /\ Range(c) \subseteq T /\ (\A a, b \in T : f[a] = f[b] => a = b) /\ (\A a \in T : f[a] \in N)
    /\ \A i, j \in 1..Len(c) : c[i] = c[j] => i = j
    /\ d = [i \in DOMAIN c |-> f[c[i]]] /\ first = IF c = <<>> THEN NULL ELSE f[c[1]]
    /\ \A i \in 1..Len(c) : nx[f[c[i]]] = IF i = Len(c) THEN NULL ELSE f[c[i + 1]]
    /\ \A i \in 1..Len(c) : pv[f[c[i]]] = IF i = 1 THEN f[c[Len(c)]] ELSE f[c[i - 1]]

LEMMA CopiedRing ==
    ASSUME NEW A, NEW c, c \in Seq(A), NEW T, NEW f, NEW N, NEW d, NEW first, NEW nx, NEW pv,
           CopiedLine(c, T, f, N, d, first, nx, pv)
    PROVE  Ring(d, N, first, nx, pv) /\ Range(d) = {f[x] : x \in Range(c)}
<1>1. PICK L : L = Len(c)
    OBVIOUS
<1>2. L \in Nat /\ DOMAIN c = 1..L /\ (c = <<>>) = (L = 0) /\ Range(c) = {c[i] : i \in 1..L}
    BY <1>1, SeqFacts
<1>3. \A i \in 1..L : c[i] \in T
    BY <1>2 DEF CopiedLine
<1>4. d = [i \in 1..L |-> f[c[i]]] /\ d \in [1..L -> N]
    BY <1>2, <1>3 DEF CopiedLine
<1>5. d \in Seq(N) /\ Len(d) = L
    BY <1>2, <1>4
<1>6. Range(d) = {d[i] : i \in 1..L} /\ (d = <<>>) = (L = 0)
    <2>1. Range(d) = {d[i] : i \in 1..Len(d)} /\ (d = <<>>) = (Len(d) = 0)
        BY <1>5, SeqFacts
    <2> QED BY <1>5, <2>1
<1>7. \A i \in 1..L : d[i] = f[c[i]]
    BY <1>4
<1>8. Range(d) = {f[x] : x \in Range(c)}
    BY <1>2, <1>6, <1>7
<1>9. first = FirstOf(d)
    <2>1. CASE L = 0
        BY <1>2, <1>6, <2>1 DEF FirstOf, CopiedLine
    <2>2. CASE L # 0
        <3>1. 1 \in 1..L
            BY <1>2, <2>2
        <3> QED BY <1>2, <1>6, <1>7, <2>2, <3>1 DEF FirstOf, CopiedLine
    <2> QED BY <2>1, <2>2
<1>10. \A i, j \in 1..L : d[i] = d[j] => i = j
    BY <1>1, <1>3, <1>7 DEF CopiedLine
<1>11. ASSUME NEW i \in 1..L
       PROVE  /\ nx[d[i]] = IF i = L THEN NULL ELSE d[i + 1]
              /\ pv[d[i]] = IF i = 1 THEN d[L] ELSE d[i - 1]
    <2>1. (i # L => i + 1 \in 1..L) /\ (i # 1 => i - 1 \in 1..L) /\ L \in 1..L
        BY <1>2
    <2>2. nx[f[c[i]]] = (IF i = L THEN NULL ELSE f[c[i + 1]]) /\ pv[f[c[i]]] = IF i = 1 THEN f[c[L]] ELSE f[c[i - 1]]
        BY <1>1 DEF CopiedLine
    <2> QED BY <1>7, <2>1, <2>2
<1> QED BY <1>5, <1>8, <1>9, <1>10, <1>11 DEF Ring

\* An item, its tree and a one-to-one copy of it.
CopyOf(K, A, n, T, f) ==
    /\ n \in A /\ T = Under(K, A, n) /\ OneToOne(f, T)

LEMMA CopyShaped ==
    ASSUME NEW A, NEW K, NEW ch, NEW nx, NEW pv, Shaped(K, A, ch, nx, pv), NEW n, NEW T, NEW f, CopyOf(K, A, n, T, f),
           NEW ch2, NEW nx2, NEW pv2, CopyLinked(K, T, n, f, ch2, nx2, pv2),
           NEW N, N = Range(f), NEW KN, KN = Copied(K, T, f)
    PROVE  Shaped(KN, N, ch2, nx2, pv2) /\ \A o \in T : Range(KN[f[o]]) = {f[x] : x \in Range(K[o])}
<1>1. K \in [A -> Seq(A)]
    BY DEF Shaped
<1>2. n \in A /\ T = Under(K, A, n) /\ DOMAIN f = T /\ \A a, b \in T : f[a] = f[b] => a = b
    BY DEF CopyOf, OneToOne
<1>3. T \subseteq A /\ n \in T /\ \A x \in T : Range(K[x]) \subseteq T
    BY <1>1, <1>2, UnderFacts
<1>4. /\ \A o \in T : KN[f[o]] = [i \in DOMAIN K[o] |-> f[K[o][i]]] /\ f[o] \in N
      /\ \A m \in N : \E o \in T : m = f[o]
      /\ DOMAIN KN = N /\ KN = [m \in N |-> KN[m]]
    <2>1. OneToOne(f, T)
        BY DEF CopyOf
    <2> QED BY <2>1, CopyFacts
<1>5. ASSUME NEW o \in T
      PROVE  Ring(KN[f[o]], N, ch2[f[o]], nx2, pv2) /\ Range(KN[f[o]]) = {f[x] : x \in Range(K[o])}
    <2>1. PICK c, d, first : c = K[o] /\ d = KN[f[o]] /\ first = ch2[f[o]]
        OBVIOUS
    <2>2. c \in Seq(A) /\ Range(c) \subseteq T
        BY <1>1, <1>3, <2>1
    <2>3. \A i, j \in 1..Len(c) : c[i] = c[j] => i = j
        BY <1>3, <2>1 DEF Shaped, Ring
    <2>4. d = [i \in DOMAIN c |-> f[c[i]]] /\ first = IF c = <<>> THEN NULL ELSE f[c[1]]
        BY <1>4, <2>1 DEF CopyLinked
    <2>5. /\ \A i \in 1..Len(c) : nx2[f[c[i]]] = IF i = Len(c) THEN NULL ELSE f[c[i + 1]]
          /\ \A i \in 1..Len(c) : pv2[f[c[i]]] = IF i = 1 THEN f[c[Len(c)]] ELSE f[c[i - 1]]
        BY <2>1 DEF CopyLinked
    <2>6. Ring(d, N, first, nx2, pv2) /\ Range(d) = {f[x] : x \in Range(c)}
        <3>1. CopiedLine(c, T, f, N, d, first, nx2, pv2)
            BY <1>2, <1>4, <2>2, <2>3, <2>4, <2>5 DEF CopiedLine
        <3> QED BY <2>2, <3>1, CopiedRing
    <2> QED BY <2>1, <2>6
<1>6. \A m \in N : Ring(KN[m], N, ch2[m], nx2, pv2)
    BY <1>4, <1>5
<1>7. KN \in [N -> Seq(N)]
    <2>1. \A m \in N : KN[m] \in Seq(N)
        BY <1>6 DEF Ring
    <2> QED BY <1>4, <2>1
<1>8. ASSUME NEW k \in N, NEW m \in N, k # m PROVE Range(KN[k]) \cap Range(KN[m]) = {}
    <2>1. PICK o, q \in T : k = f[o] /\ m = f[q]
        BY <1>4
    <2>2. o # q /\ o \in A /\ q \in A
        BY <1>3, <1>8, <2>1
    <2>3. Range(K[o]) \cap Range(K[q]) = {} /\ Range(K[o]) \subseteq T /\ Range(K[q]) \subseteq T
        BY <1>3, <2>2 DEF Shaped
    <2>4. Range(KN[k]) = {f[x] : x \in Range(K[o])} /\ Range(KN[m]) = {f[x] : x \in Range(K[q])}
        BY <1>5, <2>1
    <2> QED BY <1>2, <2>3, <2>4
<1>9. ASSUME NEW m \in N, \A k \in N : m \notin Range(KN[k]) PROVE nx2[m] = NULL
    <2>1. PICK o \in T : m = f[o]
        BY <1>4
    <2>2. ASSUME o # n PROVE FALSE
        <3>1. PICK q \in T : o \in Range(K[q])
            BY <1>1, <1>2, <2>2, HasParent
        <3>2. m \in Range(KN[f[q]]) /\ f[q] \in N
            <4>1. f[q] \in N
                BY <1>4
            <4>2. Range(KN[f[q]]) = {f[x] : x \in Range(K[q])}
                BY <1>5
            <4> QED BY <2>1, <3>1, <4>1, <4>2
        <3> QED BY <1>9, <3>2
    <2> QED BY <2>1, <2>2 DEF CopyLinked
<1> QED BY <1>5, <1>6, <1>7, <1>8, <1>9 DEF Shaped

ImageOf(K, T, f, N, KN) ==
    N = Range(f) /\ KN \in [N -> Seq(N)] /\ \A o \in T : Range(KN[f[o]]) = {f[x] : x \in Range(K[o])}

LEMMA CopyRanked ==
    ASSUME NEW A, NEW K, K \in [A -> Seq(A)], NEW rank, Ranked(K, A, rank), NEW n, NEW T, NEW f, CopyOf(K, A, n, T, f),
           NEW N, NEW KN, ImageOf(K, T, f, N, KN)
    PROVE  \E r : Ranked(KN, N, r)
<1> USE DEF ImageOf
<1>1. n \in A /\ T = Under(K, A, n) /\ DOMAIN f = T /\ \A a, b \in T : f[a] = f[b] => a = b
    BY DEF CopyOf, OneToOne
<1>2. T \subseteq A /\ \A x \in T : Range(K[x]) \subseteq T
    BY <1>1, UnderFacts
<1>3. (\A o \in T : f[o] \in N) /\ (\A m \in N : \E o \in T : m = f[o])
    BY <1>1 DEF Range
<1>4. PICK r : r = [m \in N |-> rank[CHOOSE x \in T : f[x] = m]]
    OBVIOUS
<1>5. ASSUME NEW o \in T PROVE r[f[o]] = rank[o] /\ rank[o] \in Nat
    <2>1. (CHOOSE x \in T : f[x] = f[o]) = o
        BY <1>1
    <2>2. rank[o] \in Nat
        BY <1>2 DEF Ranked
    <2> QED BY <1>3, <1>4, <2>1, <2>2
<1>6. r \in [N -> Nat]
    <2>1. \A m \in N : r[m] \in Nat
        BY <1>3, <1>5
    <2> QED BY <1>4, <2>1
<1>7. ASSUME NEW q \in N, NEW m \in Range(KN[q]) PROVE r[m] < r[q]
    <2>1. PICK o \in T : q = f[o]
        BY <1>3
    <2>2. PICK x \in Range(K[o]) : m = f[x]
        BY <2>1
    <2>3. x \in T /\ rank[x] < rank[o]
        BY <1>2, <2>1, <2>2 DEF Ranked
    <2> QED BY <1>5, <2>1, <2>2, <2>3
<1> QED BY <1>6, <1>7 DEF Ranked

\* The fields that cJSON_Duplicate writes.
From(f, m) == CHOOSE o \in DOMAIN f : f[o] = m
KidsWith(f, o) == Json!Children(CHOOSE p \in DOMAIN f : o \in Json!Range(Json!Children(p)))
PlaceOf(f, o) == CHOOSE i \in DOMAIN KidsWith(f, o) : KidsWith(f, o)[i] = o

CopyChild(f) ==
    [m \in Items0 |-> IF m \notin Json!Range(f) THEN h.child[m]
       ELSE IF Json!Children(From(f, m)) = <<>> THEN NULL ELSE f[Json!Children(From(f, m))[1]]]

PrevOfCopy(f, o) ==
    IF PlaceOf(f, o) = 1 THEN f[KidsWith(f, o)[Len(KidsWith(f, o))]] ELSE f[KidsWith(f, o)[PlaceOf(f, o) - 1]]
CopyPrev(n, f) ==
    [m \in Items0 |-> IF m \notin Json!Range(f) THEN h.prev[m] ELSE IF From(f, m) = n THEN NULL ELSE PrevOfCopy(f, From(f, m))]

NextOfCopy(f, o) ==
    IF PlaceOf(f, o) = Len(KidsWith(f, o)) THEN NULL ELSE f[KidsWith(f, o)[PlaceOf(f, o) + 1]]
CopyNext(n, f) ==
    [m \in Items0 |-> IF m \notin Json!Range(f) THEN h.next[m] ELSE IF From(f, m) = n THEN NULL ELSE NextOfCopy(f, From(f, m))]

LEMMA DuplicateIs ==
    ASSUME NEW n, NEW f, Json!cJSON_Duplicate(n, f)
    PROVE  /\ items' = items \cup Range(f)
           /\ h' = [child |-> CopyChild(f), prev |-> CopyPrev(n, f), next |-> CopyNext(n, f)]
           /\ string' = [m \in Items0 |-> IF m \in Range(f) THEN string[From(f, m)] ELSE string[m]]
<1>1. /\ items' = items \cup Json!Range(f)
      /\ string' = [m \in Items0 |-> IF m \in Json!Range(f) THEN string[From(f, m)] ELSE string[m]]
    BY SMTT(30) DEF Json!cJSON_Duplicate, From
<1>2. h' = [child |-> CopyChild(f), prev |-> CopyPrev(n, f), next |-> CopyNext(n, f)]
    BY SMTT(30) DEF Json!cJSON_Duplicate, From, KidsWith, PlaceOf, CopyChild, CopyPrev, CopyNext, PrevOfCopy, NextOfCopy
<1> QED BY <1>1, <1>2, ItemRange

\* Where the copied items come from.
Origins(K, T, n, f) ==
    /\ \A o \in T : From(f, f[o]) = o
    /\ \A q \in T : Json!Children(q) = K[q]
    /\ \A q \in T : \A i \in 1..Len(K[q]) : KidsWith(f, K[q][i]) = K[q] /\ PlaceOf(f, K[q][i]) = i /\ K[q][i] # n /\ K[q][i] \in T

LEMMA CopyOrigins ==
    ASSUME ItemTypes, NEW K, Shows(h, K, items), NEW n, NEW T, NEW f, CopyOf(K, items, n, T, f),
           \A q \in T : n \notin Range(K[q])
    PROVE  Origins(K, T, n, f)
<1>1. n \in items /\ T = Under(K, items, n) /\ DOMAIN f = T /\ \A a, b \in T : f[a] = f[b] => a = b
    BY DEF CopyOf, OneToOne
<1>2. K \in [items -> Seq(items)] /\ \A q \in items : Json!Children(q) = K[q]
    BY ItemsAre
<1>3. T \subseteq items /\ n \in T /\ \A x \in T : Range(K[x]) \subseteq T
    BY <1>1, <1>2, UnderFacts
<1>4. \A o \in T : From(f, f[o]) = o
    BY <1>1 DEF From
<1>5. ASSUME NEW q \in T, NEW i \in 1..Len(K[q])
      PROVE  KidsWith(f, K[q][i]) = K[q] /\ PlaceOf(f, K[q][i]) = i /\ K[q][i] # n /\ K[q][i] \in T
    <2>1. PICK c, o : c = K[q] /\ o = c[i]
        OBVIOUS
    <2>2. q \in items /\ c \in Seq(items)
        BY <1>2, <1>3, <2>1
    <2>3. DOMAIN c = 1..Len(c) /\ Range(c) = {c[j] : j \in 1..Len(c)}
        BY <2>2, SeqFacts
    <2>4. o \in Range(K[q]) /\ i \in DOMAIN c
        BY <2>1, <2>3
    <2>5. o # n /\ o \in T
        BY <1>3, <2>4
    <2>6. \A p \in T : (o \in Range(K[p])) = (p = q)
        <3>1. \A p \in items : p # q => Range(K[p]) \cap Range(K[q]) = {}
            BY <2>2 DEF Shows, Shaped
        <3> QED BY <1>3, <2>4, <3>1
    <2>7. \A p \in T : (o \in Json!Range(Json!Children(p))) = (p = q)
        BY <1>2, <1>3, <2>6, ItemRange
    <2>8. (CHOOSE p \in DOMAIN f : o \in Json!Range(Json!Children(p))) = q
        BY <1>1, <2>7
    <2>9. KidsWith(f, o) = c
        BY <1>2, <2>1, <2>2, <2>8 DEF KidsWith
    <2>10. \A j, k \in 1..Len(c) : c[j] = c[k] => j = k
        BY <2>1, <2>2 DEF Shows, Shaped, Ring
    <2>11. PlaceOf(f, o) = i
        BY <2>1, <2>3, <2>4, <2>9, <2>10 DEF PlaceOf
    <2> QED BY <2>1, <2>5, <2>9, <2>11
<1>6. \A q \in T : Json!Children(q) = K[q]
    BY <1>2, <1>3
<1> QED BY <1>4, <1>5, <1>6 DEF Origins

\* The written fields link the copy, and leave the other items alone.
LEMMA CopyWritten ==
    ASSUME NEW K, NEW T, T \subseteq Items0, NEW n, n \in T, NEW f, f \in [T -> Items0 \ items], K \in [items -> Seq(items)],
           T \subseteq items, Origins(K, T, n, f), NEW ch, ch = CopyChild(f), NEW pv, pv = CopyPrev(n, f), NEW nx, nx = CopyNext(n, f)
    PROVE  CopyLinked(K, T, n, f, ch, nx, pv)
<1>1. \A o \in T : f[o] \in Json!Range(f) /\ f[o] \in Items0
    BY DEF Json!Range
<1>2. ASSUME NEW q \in T PROVE ch[f[q]] = IF K[q] = <<>> THEN NULL ELSE f[K[q][1]]
    <2>1. From(f, f[q]) = q /\ Json!Children(q) = K[q]
        BY DEF Origins
    <2> QED BY <1>1, <2>1 DEF CopyChild
<1>3. ASSUME NEW q \in T, NEW i \in 1..Len(K[q])
      PROVE  /\ nx[f[K[q][i]]] = IF i = Len(K[q]) THEN NULL ELSE f[K[q][i + 1]]
             /\ pv[f[K[q][i]]] = IF i = 1 THEN f[K[q][Len(K[q])]] ELSE f[K[q][i - 1]]
    <2>1. PICK o : o = K[q][i]
        OBVIOUS
    <2>2. o \in T /\ o # n /\ KidsWith(f, o) = K[q] /\ PlaceOf(f, o) = i
        BY <2>1 DEF Origins
    <2>3. From(f, f[o]) = o /\ f[o] \in Json!Range(f) /\ f[o] \in Items0
        BY <1>1, <2>2 DEF Origins
    <2>4. nx[f[o]] = NextOfCopy(f, o) /\ pv[f[o]] = PrevOfCopy(f, o)
        BY <2>2, <2>3 DEF CopyNext, CopyPrev
    <2>5. NextOfCopy(f, o) = IF i = Len(K[q]) THEN NULL ELSE f[K[q][i + 1]]
        BY <2>2 DEF NextOfCopy
    <2>6. PrevOfCopy(f, o) = IF i = 1 THEN f[K[q][Len(K[q])]] ELSE f[K[q][i - 1]]
        BY <2>2 DEF PrevOfCopy
    <2> QED BY <2>1, <2>4, <2>5, <2>6
<1>4. nx[f[n]] = NULL
    <2>1. From(f, f[n]) = n
        BY DEF Origins
    <2> QED BY <1>1, <2>1 DEF CopyNext
<1> QED BY <1>2, <1>3, <1>4 DEF CopyLinked

LEMMA CopyTyped ==
    ASSUME NEW K, NEW n, NEW T, NEW f, CopyOf(K, items, n, T, f), f \in [T -> Items0 \ items], K \in [items -> Seq(items)],
           items \subseteq Items0, h \in Links, NEW ch, ch = CopyChild(f), NEW pv, pv = CopyPrev(n, f), NEW nx, nx = CopyNext(n, f),
           CopyLinked(K, T, n, f, ch, nx, pv)
    PROVE  /\ ch \in [Items0 -> Items0 \cup {NULL}] /\ pv \in [Items0 -> Items0 \cup {NULL}] /\ nx \in [Items0 -> Items0 \cup {NULL}]
           /\ \A m \in items : ch[m] = h.child[m] /\ nx[m] = h.next[m] /\ pv[m] = h.prev[m]
<1>1. n \in items /\ T = Under(K, items, n) /\ DOMAIN f = T /\ \A a, b \in T : f[a] = f[b] => a = b
    BY DEF CopyOf, OneToOne
<1>2. T \subseteq items /\ n \in T /\ \A x \in T : Range(K[x]) \subseteq T
    BY <1>1, UnderFacts
<1>3. ASSUME NEW m \in Range(f) PROVE ch[m] \in Items0 \cup {NULL}
    <2>1. PICK q \in T : m = f[q]
        BY <1>1, <1>3 DEF Range
    <2>2. PICK c : c = K[q]
        OBVIOUS
    <2>3. c \in Seq(items)
        BY <1>2, <2>2
    <2>4. Len(c) \in Nat /\ (c = <<>>) = (Len(c) = 0) /\ Range(c) = {c[i] : i \in 1..Len(c)}
        BY <2>3, SeqFacts
    <2>5. c # <<>> => 1 \in 1..Len(c)
        BY <2>4
    <2>6. c # <<>> => c[1] \in T
        BY <1>2, <2>2, <2>4, <2>5
    <2>7. ch[m] = IF c = <<>> THEN NULL ELSE f[c[1]]
        BY <2>1, <2>2 DEF CopyLinked
    <2> QED BY <2>6, <2>7
<1>4. ASSUME NEW m \in Range(f) PROVE nx[m] \in Items0 \cup {NULL} /\ pv[m] \in Items0 \cup {NULL}
    <2>1. PICK o \in T : m = f[o]
        BY <1>1, <1>4 DEF Range
    <2>2. CASE o = n
        <3>1. From(f, m) = n
            BY <1>1, <2>1, <2>2 DEF From
        <3>2. m \in Items0 /\ m \in Json!Range(f)
            BY <1>4, <2>1, ItemRange
        <3>3. nx[m] = NULL /\ pv[m] = NULL
            BY <3>1, <3>2 DEF CopyNext, CopyPrev
        <3> QED BY <3>3
    <2>3. CASE o # n
        <3>1. PICK q \in T : o \in Range(K[q])
            BY <1>1, <2>3, HasParent
        <3>2. PICK c, L : c = K[q] /\ L = Len(c)
            OBVIOUS
        <3>3. c \in Seq(items)
            BY <1>2, <3>2
        <3>4. L \in Nat /\ Range(c) = {c[i] : i \in 1..L}
            BY <3>2, <3>3, SeqFacts
        <3>5. PICK i \in 1..L : o = c[i]
            BY <3>1, <3>2, <3>4
        <3>6. \A j \in 1..L : f[c[j]] \in Items0
            BY <1>2, <3>2, <3>4
        <3>7. L \in 1..L /\ (i # L => i + 1 \in 1..L) /\ (i # 1 => i - 1 \in 1..L)
            BY <3>4
        <3>8. nx[m] = (IF i = L THEN NULL ELSE f[c[i + 1]]) /\ pv[m] = IF i = 1 THEN f[c[L]] ELSE f[c[i - 1]]
            BY <2>1, <3>2, <3>5 DEF CopyLinked
        <3> QED BY <3>6, <3>7, <3>8
    <2> QED BY <2>2, <2>3
<1>5. ASSUME NEW m \in Items0, m \notin Range(f) PROVE ch[m] = h.child[m] /\ nx[m] = h.next[m] /\ pv[m] = h.prev[m]
    BY <1>5, ItemRange DEF CopyChild, CopyNext, CopyPrev
<1>6. \A m \in Items0 : h.child[m] \in Items0 \cup {NULL} /\ h.next[m] \in Items0 \cup {NULL} /\ h.prev[m] \in Items0 \cup {NULL}
    BY LinkFields
<1>7. \A m \in Items0 : ch[m] \in Items0 \cup {NULL} /\ nx[m] \in Items0 \cup {NULL} /\ pv[m] \in Items0 \cup {NULL}
    BY <1>3, <1>4, <1>5, <1>6
<1>8. ch \in [Items0 -> Items0 \cup {NULL}] /\ pv \in [Items0 -> Items0 \cup {NULL}] /\ nx \in [Items0 -> Items0 \cup {NULL}]
    BY <1>7 DEF CopyChild, CopyPrev, CopyNext
<1>9. \A m \in items : m \notin Range(f)
    BY DEF Range
<1> QED BY <1>5, <1>8, <1>9

LEMMA DuplicateStep ==
    ASSUME ItemInv, NEW n, Json!Duplicate(n) PROVE ItemInv' /\ Json!Forest!Next
<1>1. PICK K, rank : Shows(h, K, items) /\ Ranked(K, items, rank)
    BY DEF ItemInv
<1>2. ItemTypes /\ h \in Links /\ items \subseteq Items0 /\ K \in [items -> Seq(items)] /\ ItemKids = K
    BY <1>1, ItemsAre DEF ItemInv, ItemTypes
<1>3. n \in items
    BY DEF Json!Duplicate
<1>4. Json!TreeOf(n) = Under(K, items, n)
    BY <1>1, <1>2, <1>3, TreesAre DEF Json!TreeOf
<1>5. PICK T : T = Under(K, items, n)
    OBVIOUS
<1>6. PICK f \in [T -> Items0 \ items] : Json!IsInjective(f) /\ Json!cJSON_Duplicate(n, f)
    BY <1>4, <1>5 DEF Json!Duplicate
<1>7. DOMAIN f = T /\ (\A a, b \in T : f[a] = f[b] => a = b)
    BY <1>6 DEF Json!IsInjective
<1>8. CopyOf(K, items, n, T, f)
    BY <1>3, <1>5, <1>7 DEF CopyOf, OneToOne
<1>9. T \subseteq items /\ n \in T /\ T \subseteq Items0
    BY <1>2, <1>3, <1>5, UnderFacts
<1>10. Origins(K, T, n, f)
    <2>1. \A q \in T : n \notin Range(K[q])
        BY <1>1, <1>2, <1>5, <1>9, NotUnder
    <2> QED BY <1>1, <1>2, <1>8, <2>1, CopyOrigins
<1>11. PICK ch, pv, nx : ch = CopyChild(f) /\ pv = CopyPrev(n, f) /\ nx = CopyNext(n, f)
    OBVIOUS
<1>12. CopyLinked(K, T, n, f, ch, nx, pv)
    BY <1>2, <1>6, <1>9, <1>10, <1>11, CopyWritten
<1>13. /\ ch \in [Items0 -> Items0 \cup {NULL}] /\ pv \in [Items0 -> Items0 \cup {NULL}] /\ nx \in [Items0 -> Items0 \cup {NULL}]
       /\ \A m \in items : ch[m] = h.child[m] /\ nx[m] = h.next[m] /\ pv[m] = h.prev[m]
    BY <1>2, <1>6, <1>8, <1>11, <1>12, CopyTyped
<1>14. PICK g : g = [child |-> ch, prev |-> pv, next |-> nx]
    OBVIOUS
<1>15. g \in Links /\ g.child = ch /\ g.prev = pv /\ g.next = nx
    BY <1>13, <1>14 DEF Links
<1>16. PICK N, KN : N = Range(f) /\ KN = Copied(K, T, f)
    OBVIOUS
<1>17. Shaped(KN, N, ch, nx, pv) /\ \A o \in T : Range(KN[f[o]]) = {f[x] : x \in Range(K[o])}
    <2>1. PICK a, b, c : a = h.child /\ b = h.next /\ c = h.prev
        OBVIOUS
    <2>2. Shaped(K, items, a, b, c)
        BY <1>1, <2>1 DEF Shows
    <2> QED BY <1>8, <1>12, <1>16, <2>2, CopyShaped
<1>18. KN \in [N -> Seq(N)]
    BY <1>17 DEF Shaped
<1>19. \E r : Ranked(KN, N, r)
    <2>1. ImageOf(K, T, f, N, KN)
        BY <1>16, <1>17, <1>18 DEF ImageOf
    <2> QED BY <1>1, <1>2, <1>8, <2>1, CopyRanked
<1>20. N \subseteq Items0 \ items
    BY <1>6, <1>16 DEF Range
<1>21. Grown(K, KN, N, g)
    BY <1>1, <1>2, <1>13, <1>15, <1>17, <1>19, <1>20 DEF Grown, Shows
<1>22. PICK K2, B : K2 = Beside(K, items, KN, N) /\ B = items \cup N
    OBVIOUS
<1>23. Good(K2, B, g)
    BY <1>21, <1>22, GrownGood
<1>24. /\ items' = items \cup Range(f)
       /\ h' = [child |-> CopyChild(f), prev |-> CopyPrev(n, f), next |-> CopyNext(n, f)]
       /\ string' = [m \in Items0 |-> IF m \in Range(f) THEN string[From(f, m)] ELSE string[m]]
    BY <1>6, DuplicateIs
<1>25. StringTyped
    <2>1. \A m \in Range(f) : From(f, m) \in T
        BY <1>7 DEF Range, From
    <2>2. string \in [Items0 -> Keys0 \cup {NULL}]
        BY <1>2 DEF ItemTypes
    <2> QED BY <1>9, <1>24, <2>1, <2>2 DEF StringTyped
<1>26. B = items' /\ g = h'
    BY <1>11, <1>14, <1>16, <1>22, <1>24
<1>27. ItemInv' /\ ItemKids' = K2
    BY <1>23, <1>25, <1>26, Outcome
<1>28. Json!Forest!Tree(n) = T
    BY <1>2, <1>5, ForestTree
<1>29. ItemKids' = [m \in items' |-> IF m \in items THEN ItemKids[m]
           ELSE LET o == CHOOSE x \in T : f[x] = m IN [i \in DOMAIN ItemKids[o] |-> f[ItemKids[o][i]]]]
    <2>1. K2 = [m \in B |-> IF m \in items THEN K[m] ELSE KN[m]]
        BY <1>22 DEF Beside
    <2>2. \A m \in B : m \notin items => KN[m] = LET o == CHOOSE x \in T : f[x] = m IN [i \in DOMAIN K[o] |-> f[K[o][i]]]
        BY <1>16, <1>22 DEF Copied
    <2>3. K2 = [m \in B |-> IF m \in items THEN K[m]
                 ELSE LET o == CHOOSE x \in T : f[x] = m IN [i \in DOMAIN K[o] |-> f[K[o][i]]]]
        BY <2>1, <2>2
    <2> QED BY <1>2, <1>26, <1>27, <2>3
<1>30. Json!Forest!IsInjective(f)
    BY <1>6 DEF Json!Forest!IsInjective, Json!IsInjective
<1>31. Json!Forest!Copy(n)
    BY <1>6, <1>24, <1>28, <1>29, <1>30, ForestNotions, SMTT(60) DEF Json!Forest!Copy, ItemKids
<1> QED BY <1>3, <1>27, <1>31 DEF Json!Forest!Next, ItemKids

-----------------------------------------------------------------------------
(* The items are a forest                                                  *)

LEMMA SmallNat == ASSUME NEW which \in 0..Json!Cardinality(Items0) PROVE which \in Nat
    BY ItemCount, ItemAssumption, FS_CardinalityType

LEMMA ItemStepMaps ==
    ASSUME ItemInv, Json!Next PROVE ItemInv' /\ (Json!Forest!Next \/ (items' = items /\ h' = h))
<1>1. ASSUME NEW n \in Items0, Json!cJSON_New_Item(n) \/ Json!cJSON_Delete(n) \/ Json!Duplicate(n)
      PROVE  ItemInv' /\ Json!Forest!Next
    BY <1>1, ItemAllocStep, DeleteStep, DuplicateStep
<1>2. ASSUME NEW p \in Items0, NEW n \in Items0, Json!cJSON_AddItemToArray(p, n) \/ Json!cJSON_DetachItemViaPointer(p, n)
      PROVE  ItemInv' /\ Json!Forest!Next
    BY <1>2, AddToArrayStep, DetachStep
<1>3. ASSUME NEW p \in Items0, NEW n \in Items0, NEW key \in Keys0,
             Json!add_item_to_object(p, key, n) \/ Json!replace_item_in_object(p, key, n)
      PROVE  ItemInv' /\ (Json!Forest!Next \/ (items' = items /\ h' = h))
    BY <1>3, AddToObjectStep, ReplaceInObjectStep
<1>4. ASSUME NEW p \in Items0, NEW n \in Items0, NEW which \in 0..Json!Cardinality(Items0),
             Json!cJSON_InsertItemInArray(p, which, n)
      PROVE  ItemInv' /\ Json!Forest!Next
    BY <1>4, SmallNat, InsertInArrayStep
<1>5. ASSUME NEW p \in Items0, NEW n \in Items0, NEW item \in Items0, Json!cJSON_ReplaceItemViaPointer(p, item, n)
      PROVE  ItemInv' /\ Json!Forest!Next
    BY <1>5, ReplaceViaPointerStep
<1>6. ASSUME NEW p \in Items0, NEW which \in 0..Json!Cardinality(Items0), Json!cJSON_DeleteItemFromArray(p, which)
      PROVE  ItemInv' /\ Json!Forest!Next
    BY <1>6, DeleteFromArrayStep
<1>7. ASSUME NEW p \in Items0, NEW key \in Keys0, Json!cJSON_DeleteItemFromObject(p, key)
      PROVE  ItemInv' /\ Json!Forest!Next
    BY <1>7, DeleteFromObjectStep
<1> QED BY <1>1, <1>2, <1>3, <1>4, <1>5, <1>6, <1>7 DEF Json!Next

LEMMA ItemNext ==
    ItemInv /\ [Json!Next]_(Json!cvars) => ItemInv' /\ [Json!Forest!Next]_(Json!Forest!vars)
<1> SUFFICES ASSUME ItemInv, [Json!Next]_(Json!cvars)
             PROVE  ItemInv' /\ [Json!Forest!Next]_(Json!Forest!vars)
    OBVIOUS
<1>1. ASSUME items' = items, h' = h PROVE UNCHANGED Json!Forest!vars
    BY <1>1 DEF Json!Forest!vars, Json!Children
<1>2. CASE Json!Next
    BY <1>1, <1>2, ItemStepMaps
<1>3. CASE UNCHANGED Json!cvars
    <2>1. items' = items /\ h' = h /\ string' = string
        BY <1>3 DEF Json!cvars
    <2>2. ItemInv'
        BY <2>1 DEF ItemInv, ItemTypes
    <2> QED BY <1>1, <2>1, <2>2
<1> QED BY <1>2, <1>3

LEMMA ItemInit == Json!Init => ItemInv /\ Json!Forest!Init
<1> SUFFICES ASSUME Json!Init PROVE ItemInv /\ Json!Forest!Init
    OBVIOUS
<1>1. items = {} /\ ItemTypes
    BY DEF Json!Init, ItemTypes, Links
<1>2. PICK K, rank : K = [m \in items |-> <<>>] /\ rank = [m \in items |-> 0]
    OBVIOUS
<1>3. Shows(h, K, items) /\ Ranked(K, items, rank)
    BY <1>1, <1>2 DEF Shows, Shaped, Ranked
<1>4. ItemKids = <<>>
    BY <1>1 DEF ItemKids
<1> QED BY <1>1, <1>3, <1>4 DEF ItemInv, Json!Forest!Init, ItemKids

LEMMA ItemTyped == ItemInv => Json!TypeOK
    BY DEF ItemInv, ItemTypes, Links, Json!TypeOK, Json!Refs

LEMMA ItemLinked == ItemInv => Json!WellLinked
<1> SUFFICES ASSUME ItemInv PROVE Json!WellLinked
    OBVIOUS
<1>1. PICK K, rank : Shows(h, K, items) /\ Ranked(K, items, rank)
    BY DEF ItemInv
<1>2. ItemTypes /\ items \subseteq Items0
    BY DEF ItemInv, ItemTypes
<1>3. K \in [items -> Seq(items)] /\ \A p \in items : Json!Children(p) = K[p] /\ Range(K[p]) \subseteq items
    BY <1>1, <1>2, ItemsAre
<1>4. ASSUME NEW p \in items, NEW c, c = Json!Children(p)
      PROVE  /\ Len(c) <= Json!Cardinality(items) /\ Json!IsInjective(c) /\ Json!Range(c) \subseteq items
             /\ c /= <<>> => h.prev[c[1]] = c[Len(c)] /\ h.next[c[Len(c)]] = NULL
             /\ \A i \in 2..Len(c) : h.prev[c[i]] = c[i - 1]
             /\ \A q \in items \ {p} : Json!Range(c) \cap Json!Range(Json!Children(q)) = {}
    <2>1. c = K[p] /\ c \in Seq(items)
        BY <1>3, <1>4
    <2>2. PICK nx, pv, first : nx = h.next /\ pv = h.prev /\ first = h.child[p]
        OBVIOUS
    <2>3. Ring(c, items, first, nx, pv)
        BY <1>1, <2>1, <2>2 DEF Shows, Shaped
    <2>4. IsInjective(c) /\ Len(c) <= Cardinality(items)
        BY <1>2, <2>3, RingWalk
    <2>5. Len(c) \in Nat /\ (c = <<>>) = (Len(c) = 0)
        BY <2>1, SeqFacts
    <2>6. c # <<>> => 1 \in 1..Len(c) /\ Len(c) \in 1..Len(c)
        BY <2>5
    <2>7. c /= <<>> => pv[c[1]] = c[Len(c)] /\ nx[c[Len(c)]] = NULL
        BY <2>3, <2>6 DEF Ring
    <2>8. ASSUME NEW i \in 2..Len(c) PROVE pv[c[i]] = c[i - 1]
        <3>1. i \in 1..Len(c) /\ i # 1
            BY <2>5
        <3> QED BY <2>3, <3>1 DEF Ring
    <2>9. \A q \in items \ {p} : Range(c) \cap Range(K[q]) = {}
        BY <1>1, <2>1 DEF Shows, Shaped
    <2>10. Json!IsInjective(c)
        BY <2>4 DEF Json!IsInjective, IsInjective
    <2>11. \A q \in items \ {p} : Json!Range(c) \cap Json!Range(Json!Children(q)) = {}
        BY <1>3, <2>9, ItemRange
    <2>12. Len(c) <= Json!Cardinality(items) /\ Json!Range(c) \subseteq items
        BY <1>3, <2>1, <2>4, ItemCount, ItemRange
    <2> QED BY <2>2, <2>7, <2>8, <2>10, <2>11, <2>12
<1>5. ASSUME NEW n \in items, Json!Root(n) PROVE h.next[n] = NULL
    BY <1>1, <1>2, <1>5, Held
<1> QED BY <1>4, <1>5 DEF Json!WellLinked

-----------------------------------------------------------------------------
(* The results                                                             *)

\* After any sequence of calls of list.c the list reads the same from either end, holds only allocated
\* nodes, counts them in len, and list_at finds the node at every index, positive and negative.
THEOREM ListsSound == Spec => [](TypeOK /\ WellLinked /\ IndexingAgrees)
    BY ListInit, ListNext, ListTyped, ListLinked, ListIndexed, PTL DEF Spec

\* Adding, inserting, detaching, replacing, deleting and duplicating in cJSON.c change one sequence of
\* children, or add or free one tree, and nothing else: the rings of child, next and prev pointers
\* implement an ordered forest.
THEOREM ItemsImplement == Json!Spec => Json!ItemsAreForest
    BY ItemInit, ItemNext, PTL DEF Json!Spec, Json!ItemsAreForest, Json!Forest!Spec

\* The instance for TLC runs the two structures one at a time.
LEMMA EachAlone == MCSpec => Spec /\ Json!Spec
<1>1. MCInit => Init /\ Json!Init
    BY DEF MCInit
<1>2. [MCNext]_vars => [Next]_lvars /\ [Json!Next]_(Json!cvars)
    BY DEF MCNext, vars, ListStep, ItemStep, lvars, Json!cvars
<1> QED BY <1>1, <1>2, PTL DEF MCSpec, Spec, Json!Spec

\* The links that list.c and cJSON.c keep are consistent after any sequence of their operations: no
\* pointer leads to a freed node, the way back is the way there, an append finds the last child.
THEOREM StructuresLinked == MCSpec => []Linked
<1>1. ListInv /\ ItemInv => Linked
    BY ListTyped, ListLinked, ListIndexed, ItemTyped, ItemLinked DEF Linked
<1> QED BY <1>1, EachAlone, ListInit, ListNext, ItemInit, ItemNext, PTL DEF Spec, Json!Spec

\* list.c implements a sequence and cJSON.c an ordered forest.
THEOREM StructuresImplement == MCSpec => StructuresAbstract
    BY EachAlone, ListImplements, ItemsImplement, PTL DEF StructuresAbstract
=============================================================================
