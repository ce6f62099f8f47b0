---------------------------- MODULE MCAgentLock ----------------------------
(* The shapes of accounts: with a refresh token, and an access token once    *)
(* one was obtained, or from --only-at without a refresh token; of a client  *)
(* with a secret or of a public one.                                         *)
EXTENDS AgentLock

CONSTANTS pw1, pw2

AllShapes == {tokens \cup credentials :
                tokens \in {{RT}, {AT, RT}, {AT}}, credentials \in {{CID}, {CID, CS}}}
=============================================================================
