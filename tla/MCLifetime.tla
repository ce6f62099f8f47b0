----------------------------- MODULE MCLifetime -----------------------------
(* Two accounts: one with the shortest lifetimes and none at all.          *)
EXTENDS Lifetime

CONSTANTS a1, a2
=============================================================================
