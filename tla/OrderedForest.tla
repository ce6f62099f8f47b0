--------------------------- MODULE OrderedForest ----------------------------
(***************************************************************************)
(* What the pointer structures of list.c and cJSON.c promise: a set of     *)
(* nodes, each with the sequence of its children.  A step puts one node    *)
(* into one sequence, takes one out, exchanges one, copies a whole tree,   *)
(* allocates a node, or frees a node with everything below it; nothing     *)
(* else moves.                                                             *)
(***************************************************************************)
EXTENDS Naturals, Sequences, SequencesExt

CONSTANT Nodes

VARIABLES alive,   \* the allocated nodes
          kids     \* [alive -> Seq(alive)]

vars == <<alive, kids>>

\* The nodes of the tree under n, n included.
Tree(n) ==
  LET below == [m \in alive |-> Range(kids[m])]
      closed == {S \in SUBSET alive : n \in S /\ \A m \in S : below[m] \subseteq S}
  IN  {m \in alive : \A S \in closed : m \in S}

Root(n) == n \in alive /\ \A p \in alive : n \notin Range(kids[p])

Init == alive = {} /\ kids = <<>>

Without(S) == [n \in alive \ S |-> kids[n]]

Alloc(n) == n \notin alive /\ alive' = alive \cup {n}
            /\ kids' = [m \in alive' |-> IF m = n THEN <<>> ELSE kids[m]]

\* n, a root of another tree, becomes the i-th child of p.
Insert(p, i, n) ==
  /\ UNCHANGED alive /\ kids' = [kids EXCEPT ![p] = InsertAt(@, i, n)]
  /\ Root(n) /\ p \notin Tree(n)

TakeOut(p, i) == UNCHANGED alive /\ kids' = [kids EXCEPT ![p] = RemoveAt(@, i)]

\* n takes the place of the i-th child of p, which is freed with its tree.
Replace(p, i, n) ==
  /\ alive' \subseteq alive
  /\ kids' = [m \in alive' |-> IF m = p THEN ReplaceAt(kids[p], i, n) ELSE kids[m]]
  /\ alive' = alive \ Tree(kids[p][i])
  /\ Root(n) /\ p \notin Tree(n)

RemoveAndFree(p, i) ==
  /\ alive' \subseteq alive
  /\ kids' = [m \in alive' |-> IF m = p THEN RemoveAt(kids[p], i) ELSE kids[m]]
  /\ alive' = alive \ Tree(kids[p][i])

Free(n) == Root(n) /\ alive' = alive \ Tree(n) /\ kids' = Without(Tree(n))

\* All children of p are freed.
Clear(p) ==
  /\ alive' \subseteq alive
  /\ kids' = [m \in alive' |-> IF m = p THEN <<>> ELSE kids[m]]
  /\ alive' = alive \ UNION {Tree(m) : m \in Range(kids[p])}

\* The new nodes are a tree of the same shape.
Copy(n) ==
  /\ alive \subseteq alive'
  /\ \E f \in [Tree(n) -> Nodes \ alive] :
       /\ IsInjective(f) /\ alive' = alive \cup Range(f)
       /\ kids' = [m \in alive' |->
            IF m \in alive THEN kids[m]
            ELSE LET o == CHOOSE x \in Tree(n) : f[x] = m
                 IN  [i \in DOMAIN kids[o] |-> f[kids[o][i]]]]

Next == \/ \E n \in Nodes : Alloc(n)
        \/ \E n \in alive : Free(n) \/ Copy(n) \/ Clear(n)
        \/ \E p \in alive : \E i \in 1..(Len(kids[p]) + 1), n \in alive : Insert(p, i, n)
        \/ \E p \in alive : \E i \in DOMAIN kids[p] : TakeOut(p, i) \/ RemoveAndFree(p, i)
        \/ \E p \in alive : \E i \in DOMAIN kids[p], n \in alive : Replace(p, i, n)

Spec == Init /\ [][Next]_vars
=============================================================================
