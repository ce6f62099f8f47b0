---------------------------- MODULE MCStructures ----------------------------
\* The linked list and the cJSON items, each from its initial state while the
\* other one is untouched.
EXTENDS LinkedList, TLC

CONSTANTS Items0, Keys0

ASSUME ItemAssumption == NULL \notin Items0 /\ IsFiniteSet(Items0)

VARIABLES h, string, items

Json == INSTANCE CJsonTree WITH Nodes <- Items0, Keys <- Keys0, alive <- items

vars == <<lvars, h, string, items>>

Symmetry == Permutations(Items0)

MCInit == Init /\ Json!Init
ListStep == items = {} /\ Next /\ UNCHANGED <<h, string, items>>
ItemStep == ~exists /\ alive = {} /\ Json!Next /\ UNCHANGED lvars
MCNext == ListStep \/ ItemStep
MCSpec == MCInit /\ [][MCNext]_vars

\* The links of both structures are consistent after any sequence of
\* operations, and list_at agrees with them.
Linked == TypeOK /\ Json!TypeOK /\ WellLinked /\ IndexingAgrees /\ Json!WellLinked
\* list.c implements a sequence, cJSON.c an ordered forest.
StructuresAbstract == ListIsSequence /\ Json!ItemsAreForest
=============================================================================
