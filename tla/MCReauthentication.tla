------------------------- MODULE MCReauthentication -------------------------
(* Instances of Reauthentication for TLC.                                  *)
EXTENDS Reauthentication, TLC

CONSTANTS i1    \* the only issuer

MCIssuerOf == [n \in Names |-> i1]

Symmetry == Permutations(Accounts)
=============================================================================
