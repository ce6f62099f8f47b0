--------------------------- MODULE MCAccountStore ---------------------------
(* Instances of AccountStore for TLC.                                      *)
EXTENDS AccountStore, TLC

CONSTANTS i1    \* the only issuer

MCIssuerOf == [n \in Names |-> i1]

\* Addresses are interchangeable; so are names, which all have one issuer.
Symmetry == Permutations(Accounts) \cup Permutations(Names)
=============================================================================
