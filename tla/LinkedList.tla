----------------------------- MODULE LinkedList -----------------------------
(***************************************************************************)
(* lib/list: a doubly linked list with head, tail and length.  Every list  *)
(* of the agent is one: the databases of accounts, of open connections and *)
(* of running web servers, the ipc keys, redirect uris, scopes.  db.c puts *)
(* such a list behind a name.  Walks are not interleaved with changes, so  *)
(* an iterator is part of the operation that uses it.                      *)
(***************************************************************************)
EXTENDS Integers, FiniteSets, Sequences, SequencesExt

CONSTANTS Nodes, Vals, NULL, List   \* List names the list itself in the abstract forest

ASSUME NodeAssumption == NULL \notin Nodes /\ List \notin Nodes /\ IsFiniteSet(Nodes)

VARIABLES exists,      \* list_new was called, list_destroy was not
          head, tail, len,
          prev, next, val,   \* the fields of the nodes
          alive              \* the allocated nodes

lvars == <<exists, head, tail, len, prev, next, val, alive>>

Refs == Nodes \cup {NULL}

TypeOK ==
  /\ exists \in BOOLEAN /\ head \in Refs /\ tail \in Refs /\ len \in 0..Cardinality(Nodes)
  /\ prev \in [Nodes -> Refs] /\ next \in [Nodes -> Refs] /\ val \in [Nodes -> Vals \cup {NULL}]
  /\ alive \subseteq Nodes

\* What list_iterator_next returns, call after call, in one direction.
Walk(from, step) ==
  LET go[left \in Nat] ==
        [n \in Refs |-> IF n = NULL \/ left = 0 THEN <<>> ELSE <<n>> \o go[left - 1][step[n]]]
  IN  go[Cardinality(Nodes)][from]

Items == IF exists THEN Walk(head, next) ELSE <<>>

\* Freed nodes: nothing is known of their fields, they are NULL here.
Freed(f, S) == [n \in Nodes |-> IF n \in S THEN NULL ELSE f[n]]

Init ==
  /\ exists = FALSE /\ head = NULL /\ tail = NULL /\ len = 0
  /\ prev = [n \in Nodes |-> NULL] /\ next = prev /\ val = prev /\ alive = {}

list_new ==
  /\ ~exists /\ exists' = TRUE /\ head' = NULL /\ tail' = NULL /\ len' = 0
  /\ UNCHANGED <<prev, next, val, alive>>

list_node_new(n, v) ==
  /\ n \notin alive /\ alive' = alive \cup {n}
  /\ prev' = [prev EXCEPT ![n] = NULL] /\ next' = [next EXCEPT ![n] = NULL]
  /\ val' = [val EXCEPT ![n] = v]
  /\ UNCHANGED <<exists, head, tail, len>>

\* A node the caller has and the list has not.
Loose(n) == n \in alive /\ n \notin Range(Items)

list_rpush(n) ==
  /\ exists /\ Loose(n)
  /\ tail' = n /\ len' = len + 1
  /\ IF len > 0
     THEN /\ prev' = [prev EXCEPT ![n] = tail] /\ next' = [next EXCEPT ![n] = NULL, ![tail] = n]
          /\ UNCHANGED head
     ELSE /\ head' = n /\ prev' = [prev EXCEPT ![n] = NULL] /\ next' = [next EXCEPT ![n] = NULL]
  /\ UNCHANGED <<exists, val, alive>>

list_lpush(n) ==
  /\ exists /\ Loose(n)
  /\ head' = n /\ len' = len + 1
  /\ IF len > 0
     THEN /\ next' = [next EXCEPT ![n] = head] /\ prev' = [prev EXCEPT ![n] = NULL, ![head] = n]
          /\ UNCHANGED tail
     ELSE /\ tail' = n /\ prev' = [prev EXCEPT ![n] = NULL] /\ next' = [next EXCEPT ![n] = NULL]
  /\ UNCHANGED <<exists, val, alive>>

list_rpop ==
  /\ exists /\ len > 0 /\ len' = len - 1
  /\ prev' = [prev EXCEPT ![tail] = NULL]
  /\ IF len > 1
     THEN /\ tail' = prev[tail] /\ next' = [next EXCEPT ![prev[tail]] = NULL, ![tail] = NULL]
          /\ UNCHANGED head
     ELSE /\ tail' = NULL /\ head' = NULL /\ next' = [next EXCEPT ![tail] = NULL]
  /\ UNCHANGED <<exists, val, alive>>

list_lpop ==
  /\ exists /\ len > 0 /\ len' = len - 1
  /\ next' = [next EXCEPT ![head] = NULL]
  /\ IF len > 1
     THEN /\ head' = next[head] /\ prev' = [prev EXCEPT ![next[head]] = NULL, ![head] = NULL]
          /\ UNCHANGED tail
     ELSE /\ tail' = NULL /\ head' = NULL /\ prev' = [prev EXCEPT ![head] = NULL]
  /\ UNCHANGED <<exists, val, alive>>

\* Mutant: a list whose last node goes keeps pointing at it.
list_remove_tail(n) ==
  /\ exists /\ n \in Range(Items) /\ len' = len - 1 /\ alive' = alive \ {n}
  /\ IF prev[n] /= NULL THEN next' = [next EXCEPT ![prev[n]] = next[n]] /\ UNCHANGED head
                        ELSE head' = next[n] /\ UNCHANGED next
  /\ IF next[n] /= NULL THEN prev' = [prev EXCEPT ![next[n]] = prev[n]] /\ UNCHANGED tail
                        ELSE UNCHANGED <<prev, tail>>
  /\ UNCHANGED <<exists, val>>

list_remove(n) ==
  /\ exists /\ n \in Range(Items)
  /\ IF prev[n] /= NULL
     THEN next' = Freed([next EXCEPT ![prev[n]] = next[n]], {n}) /\ UNCHANGED head
     ELSE next' = Freed(next, {n}) /\ head' = next[n]
  /\ IF next[n] /= NULL
     THEN prev' = Freed([prev EXCEPT ![next[n]] = prev[n]], {n}) /\ UNCHANGED tail
     ELSE prev' = Freed(prev, {n}) /\ tail' = prev[n]
  /\ val' = Freed(val, {n}) /\ alive' = alive \ {n} /\ len' = len - 1
  /\ UNCHANGED exists

\* The nodes from the head on, len of them.
Counted == {Items[i] : i \in {j \in DOMAIN Items : j <= len}}

\* The nodes of S and the list's own fields are freed.
Destroyed(S) ==
  /\ alive' = alive \ S /\ head' = NULL /\ tail' = NULL /\ len' = 0
  /\ prev' = Freed(prev, S) /\ next' = Freed(next, S) /\ val' = Freed(val, S)

\* len nodes are freed, counted from the head.
list_destroy ==
  /\ exists /\ exists' = FALSE
  /\ Destroyed(Counted)

\* LIST_FREE by the caller that popped the node.
FreeLoose(n) ==
  /\ Loose(n) /\ alive' = alive \ {n} /\ val' = Freed(val, {n})
  /\ prev' = Freed(prev, {n}) /\ next' = Freed(next, {n})
  /\ UNCHANGED <<exists, head, tail, len>>

\* The first node whose value matches, NULL without one.
list_find(v) ==
  LET hits == {i \in DOMAIN Items : val[Items[i]] = v}
  IN  IF hits = {} THEN NULL ELSE Items[CHOOSE i \in hits : \A j \in hits : i <= j]

\* ~index is -index - 1.
list_at(index) ==
  LET walk == IF index < 0 THEN Walk(tail, prev) ELSE Items
      i == IF index < 0 THEN - index - 1 ELSE index
  IN  IF i < len THEN walk[i + 1] ELSE NULL

\* listUtils.c and db.c
list_removeIfFound(v) == list_find(v) /= NULL /\ list_remove(list_find(v))

\* A new list with the old one's functions takes the old one's place.
db_reset ==
  exists /\ Destroyed(Counted) /\ UNCHANGED exists

Next ==
  \/ list_new \/ list_destroy \/ list_rpop \/ list_lpop \/ db_reset
  \/ \E n \in Nodes : \/ list_rpush(n) \/ list_lpush(n) \/ list_remove(n) \/ FreeLoose(n)
                      \/ \E v \in Vals : list_node_new(n, v)
  \/ \E v \in Vals : list_removeIfFound(v)

Spec == Init /\ [][Next]_lvars

-----------------------------------------------------------------------------
\* The list is the same read from either end, its length is the number of its
\* nodes, and every one of them is allocated: no operation leaves a link to a
\* node that list_remove, a pop or list_destroy took away.
WellLinked ==
  exists => /\ len = Len(Items) /\ IsInjective(Items) /\ Range(Items) \subseteq alive
            /\ Walk(tail, prev) = Reverse(Items)
            /\ (head = NULL) = (len = 0) /\ (tail = NULL) = (len = 0)

\* list_at finds the node that many places from the head, or with a negative
\* index from the tail; code.c, oidc.c and startHttpserver.c dereference the
\* result for every index below the length without asking.
IndexingAgrees ==
  exists => \A i \in (- len - 1)..len :
    LET r == list_at(i)
    IN  IF i \in 0..(len - 1) THEN r = Items[i + 1]
        ELSE IF i \in (- len)..(-1) THEN r = Items[len + i + 1]
        ELSE r = NULL

\* The list implements a sequence of nodes.
Forest == INSTANCE OrderedForest WITH
  Nodes <- Nodes \cup {List},
  alive <- alive \cup (IF exists THEN {List} ELSE {}),
  kids <- [n \in alive \cup (IF exists THEN {List} ELSE {}) |-> IF n = List THEN Items ELSE <<>>]

ListIsSequence == Forest!Spec
=============================================================================
