----------------------------- MODULE CJsonTree ------------------------------
(***************************************************************************)
(* The items of lib/cJSON and the links between them: a container points   *)
(* at its first child, next leads to the last one, and prev of the first   *)
(* child is the last.  Values and printing are the subject of JsonText.    *)
(* References (one short-lived use in issuerConfig.c) are left out.        *)
(***************************************************************************)
EXTENDS Integers, FiniteSets, Sequences, SequencesExt, Functions

CONSTANTS Nodes, Keys, NULL

VARIABLES h,         \* the links of the items: child, prev and next
          string,    \* the key of an item, NULL without one
          alive      \* the allocated items

cvars == <<h, string, alive>>

Refs == Nodes \cup {NULL}

TypeOK ==
  /\ h \in [child : [Nodes -> Refs], prev : [Nodes -> Refs], next : [Nodes -> Refs]]
  /\ string \in [Nodes -> Keys \cup {NULL}] /\ alive \subseteq Nodes

\* The items from n on, along next.
ChainIn(links, n) ==
  LET go[left \in Nat] ==
        [m \in Refs |-> IF m = NULL \/ left = 0 THEN <<>> ELSE <<m>> \o go[left - 1][links.next[m]]]
  IN  go[Cardinality(Nodes)][n]

ChildrenIn(links, p) == ChainIn(links, links.child[p])

Children(p) == ChildrenIn(h, p)

\* The items of `first' and all below them.
TreesIn(links, first) ==
  LET below == [m \in Nodes |-> Range(ChildrenIn(links, m))]
      closed == {S \in SUBSET Nodes : first \subseteq S /\ \A m \in S : below[m] \subseteq S}
  IN  {m \in Nodes : \A S \in closed : m \in S}

\* Everything cJSON_Delete(n) frees: n, what follows it, and all below these.
DeletedIn(links, n) == TreesIn(links, Range(ChainIn(links, n)))

Deleted(n) == DeletedIn(h, n)

\* An item the caller holds: it is in no container.
Root(n) == n \in alive /\ \A p \in alive : n \notin Range(Children(p))

\* The caller adds only items it holds, and no item to itself.
MayAdd(p, n) == p \in alive /\ Root(n) /\ p \notin Deleted(n)

get_array_item(p, which) ==
  IF which < Len(Children(p)) THEN Children(p)[which + 1] ELSE NULL

get_object_item(p, key) ==
  LET hits == {i \in DOMAIN Children(p) : string[Children(p)[i]] = key}
      plain == {i \in DOMAIN Children(p) : string[Children(p)[i]] = NULL}
      first == CHOOSE i \in hits : \A j \in hits : i <= j
  IN  IF hits = {} THEN NULL
      ELSE IF \E j \in plain : j < first THEN NULL  \* the search ends at an item without key
      ELSE Children(p)[first]

\* Freed items: nothing is known of their fields, they are NULL here.
Freed(links, S) ==
  [f \in DOMAIN links |-> [n \in Nodes |-> IF n \in S THEN NULL ELSE links[f][n]]]
Forgotten(S) == [n \in Nodes |-> IF n \in S THEN NULL ELSE string[n]]

Init ==
  /\ h = [child |-> [n \in Nodes |-> NULL], prev |-> [n \in Nodes |-> NULL],
          next |-> [n \in Nodes |-> NULL]]
  /\ string = [n \in Nodes |-> NULL] /\ alive = {}

cJSON_New_Item(n) ==
  /\ n \notin alive /\ alive' = alive \cup {n}
  /\ h' = [h EXCEPT !.child[n] = NULL, !.prev[n] = NULL, !.next[n] = NULL]
  /\ string' = [string EXCEPT ![n] = NULL]

suffix_object(links, p, n) == [links EXCEPT !.next[p] = n, !.prev[n] = p]

add_item_to_array(p, n) ==
  LET c == h.child[p]
  IN  IF c = NULL THEN [h EXCEPT !.child[p] = n, !.prev[n] = n, !.next[n] = NULL]
      ELSE IF h.prev[c] = NULL THEN h
      ELSE [suffix_object(h, h.prev[c], n) EXCEPT !.prev[c] = n]

cJSON_AddItemToArray(p, n) ==
  MayAdd(p, n) /\ h' = add_item_to_array(p, n) /\ UNCHANGED <<string, alive>>

add_item_to_object(p, key, n) ==
  /\ MayAdd(p, n) /\ h' = add_item_to_array(p, n)
  /\ string' = [string EXCEPT ![n] = key] /\ UNCHANGED alive

\* Mutant: the detached item still leads to what followed it.
Detached_linked(p, n) ==
  IF n = h.child[p] THEN [h EXCEPT !.child[p] = h.next[n]]
  ELSE [h EXCEPT !.next[h.prev[n]] = h.next[n]]

\* The links once n is taken out of p, in the order of the assignments.
Detached(p, n) ==
  LET a == IF n /= h.child[p] THEN [h EXCEPT !.next[h.prev[n]] = h.next[n]] ELSE h
      b == IF h.next[n] /= NULL THEN [a EXCEPT !.prev[h.next[n]] = h.prev[n]] ELSE a
      c == IF n = h.child[p] THEN [b EXCEPT !.child[p] = h.next[n]]
           ELSE IF h.next[n] = NULL THEN [b EXCEPT !.prev[b.child[p]] = h.prev[n]] ELSE b
  IN  [c EXCEPT !.prev[n] = NULL, !.next[n] = NULL]

cJSON_DetachItemViaPointer(p, n) ==
  /\ p \in alive /\ n \in Range(Children(p))
  /\ h' = Detached(p, n) /\ UNCHANGED <<string, alive>>

\* cJSON_DeleteItemFromArray and cJSON_DeleteItemFromObject: detach, then delete.
DeleteItem(p, n) ==
  /\ p \in alive /\ n \in Range(Children(p))
  /\ LET gone == DeletedIn(Detached(p, n), n)
     IN  h' = Freed(Detached(p, n), gone) /\ alive' = alive \ gone /\ string' = Forgotten(gone)

cJSON_DeleteItemFromArray(p, which) ==
  p \in alive /\ get_array_item(p, which) /= NULL /\ DeleteItem(p, get_array_item(p, which))

cJSON_DeleteItemFromObject(p, key) ==
  p \in alive /\ get_object_item(p, key) /= NULL /\ DeleteItem(p, get_object_item(p, key))

cJSON_InsertItemInArray(p, which, n) ==
  /\ MayAdd(p, n)
  /\ LET at == get_array_item(p, which)
         a == [h EXCEPT !.next[n] = at, !.prev[n] = h.prev[at], !.prev[at] = n]
     IN  h' = IF at = NULL THEN add_item_to_array(p, n)
              ELSE IF at = h.child[p] THEN [a EXCEPT !.child[p] = n]
              ELSE [a EXCEPT !.next[a.prev[n]] = n]
  /\ UNCHANGED <<string, alive>>

\* The links once n stands where item stood.
Replaced(p, item, n) ==
  LET a == [h EXCEPT !.next[n] = h.next[item], !.prev[n] = h.prev[item]]
      b == IF a.next[n] /= NULL THEN [a EXCEPT !.prev[a.next[n]] = n] ELSE a
      first == IF b.prev[item] = item THEN [b EXCEPT !.prev[n] = n, !.child[p] = n]
               ELSE [b EXCEPT !.child[p] = n]
      inner == IF b.prev[n] /= NULL THEN [b EXCEPT !.next[b.prev[n]] = n] ELSE b
      last == IF inner.next[n] = NULL THEN [inner EXCEPT !.prev[inner.child[p]] = n] ELSE inner
      c == IF b.child[p] = item THEN first ELSE last
  IN  [c EXCEPT !.next[item] = NULL, !.prev[item] = NULL]

cJSON_ReplaceItemViaPointer(p, item, n) ==
  /\ MayAdd(p, n) /\ item \in Range(Children(p))
  /\ LET gone == DeletedIn(Replaced(p, item, n), item)
     IN  h' = Freed(Replaced(p, item, n), gone) /\ alive' = alive \ gone /\ string' = Forgotten(gone)

\* The new item has the key also when there is nothing to replace.
replace_item_in_object(p, key, n) ==
  /\ MayAdd(p, n)
  /\ LET item == get_object_item(p, key)
         gone == IF item = NULL THEN {} ELSE DeletedIn(Replaced(p, item, n), item)
     IN  /\ string' = [Forgotten(gone) EXCEPT ![n] = key]
         /\ h' = IF item = NULL THEN h ELSE Freed(Replaced(p, item, n), gone)
         /\ alive' = alive \ gone

cJSON_Delete(n) ==
  /\ Root(n) /\ alive' = alive \ Deleted(n)
  /\ h' = Freed(h, Deleted(n)) /\ string' = Forgotten(Deleted(n))

\* The copy f of the tree under n: every list of children is linked anew, and
\* the first copied child gets the last one as prev at the end.
cJSON_Duplicate(n, f) ==
  LET from(m) == CHOOSE o \in DOMAIN f : f[o] = m
      new == Range(f)
      kids(o) == Children(CHOOSE p \in DOMAIN f : o \in Range(Children(p)))
      at(o) == CHOOSE i \in DOMAIN kids(o) : kids(o)[i] = o
  IN  /\ alive' = alive \cup new
      /\ string' = [m \in Nodes |-> IF m \in new THEN string[from(m)] ELSE string[m]]
      /\ h' = [child |-> [m \in Nodes |-> IF m \notin new THEN h.child[m]
                            ELSE LET c == Children(from(m))
                                 IN  IF c = <<>> THEN NULL ELSE f[c[1]]],
               prev |-> [m \in Nodes |-> IF m \notin new THEN h.prev[m]
                           ELSE IF from(m) = n THEN NULL
                           ELSE LET o == from(m)
                                IN  IF at(o) = 1 THEN f[kids(o)[Len(kids(o))]]
                                    ELSE f[kids(o)[at(o) - 1]]],
               next |-> [m \in Nodes |-> IF m \notin new THEN h.next[m]
                           ELSE IF from(m) = n THEN NULL
                           ELSE LET o == from(m)
                                IN  IF at(o) = Len(kids(o)) THEN NULL
                                    ELSE f[kids(o)[at(o) + 1]]]]

TreeOf(n) == TreesIn(h, {n})

\* An item may be copied where it is, inside a container, too.
Duplicate(n) ==
  /\ n \in alive
  /\ \E f \in [TreeOf(n) -> Nodes \ alive] : IsInjective(f) /\ cJSON_Duplicate(n, f)

Next ==
  \/ \E n \in Nodes : cJSON_New_Item(n) \/ cJSON_Delete(n) \/ Duplicate(n)
  \/ \E p, n \in Nodes :
       \/ cJSON_AddItemToArray(p, n) \/ cJSON_DetachItemViaPointer(p, n)
       \/ \E key \in Keys : add_item_to_object(p, key, n) \/ replace_item_in_object(p, key, n)
       \/ \E which \in 0..Cardinality(Nodes) : cJSON_InsertItemInArray(p, which, n)
       \/ \E item \in Nodes : cJSON_ReplaceItemViaPointer(p, item, n)
  \/ \E p \in Nodes :
       \/ \E which \in 0..Cardinality(Nodes) : cJSON_DeleteItemFromArray(p, which)
       \/ \E key \in Keys : cJSON_DeleteItemFromObject(p, key)

Spec == Init /\ [][Next]_cvars

-----------------------------------------------------------------------------
\* After any sequence of operations the children of every container form one
\* chain of allocated items that ends, runs backwards along prev, and whose
\* first item knows the last, so that the next append goes to its end; an item
\* is in one container at most, and an item outside every container leads to
\* none, so deleting it deletes nothing else.
WellLinked ==
  /\ \A p \in alive :
       LET c == Children(p)
       IN  /\ Len(c) <= Cardinality(alive) /\ IsInjective(c) /\ Range(c) \subseteq alive
           /\ c /= <<>> => h.prev[c[1]] = c[Len(c)] /\ h.next[c[Len(c)]] = NULL
           /\ \A i \in 2..Len(c) : h.prev[c[i]] = c[i - 1]
           /\ \A q \in alive \ {p} : Range(c) \cap Range(Children(q)) = {}
  /\ \A n \in alive : Root(n) => h.next[n] = NULL

\* The items implement an ordered forest.
Forest == INSTANCE OrderedForest WITH kids <- [n \in alive |-> Children(n)]

ItemsAreForest == Forest!Spec
=============================================================================
