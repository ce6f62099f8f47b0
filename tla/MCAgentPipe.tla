----------------------------- MODULE MCAgentPipe -----------------------------
(* Two clients, and the settings under which the agent is checked.          *)
EXTENDS AgentPipe

CONSTANTS c1, c2

Quiet ==
    [autoReauth |-> FALSE, autogen |-> FALSE, noAutoload |-> FALSE, confirm |-> FALSE,
     expiry |-> FALSE, rotation |-> FALSE, genRedirect |-> FALSE, crash |-> FALSE,
     plain |-> {}]

\* Re-authentication and autogen or --no-autoload for encrypting clients; or none
\* of them, with confirmation, lifetimes, rotating tokens and a plain client.
InteractiveOrManual ==
    {[Quiet EXCEPT !.autoReauth = TRUE, !.autogen = TRUE],
     [Quiet EXCEPT !.autoReauth = TRUE, !.noAutoload = TRUE],
     [Quiet EXCEPT !.confirm = TRUE, !.expiry = TRUE, !.rotation = TRUE, !.plain = {c2}]}

\* The same, and re-authentication with an oidcd that may die.
Crashing == InteractiveOrManual \cup {[Quiet EXCEPT !.autoReauth = TRUE, !.crash = TRUE]}

\* Re-authentication together with one more setting.
Confirming == {[Quiet EXCEPT !.autoReauth = TRUE, !.confirm = TRUE]}
Expiring   == {[Quiet EXCEPT !.autoReauth = TRUE, !.expiry = TRUE]}
=============================================================================
