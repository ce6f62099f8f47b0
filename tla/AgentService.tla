---------------------------- MODULE AgentService ----------------------------
(***************************************************************************)
(* What the agent promises to its clients: a client that sends a request   *)
(* gets one response, it is the response to its own request, and it is one *)
(* the client API knows.                                                   *)
(***************************************************************************)
CONSTANTS Clients, Requests, Responses, NULL

VARIABLES
    client,   \* the request a client waits for, or "idle"
    got       \* the last response: who got it, whose request it answers, what it says

Init ==
    /\ client = [c \in Clients |-> "idle"]
    /\ got = [to |-> NULL, of |-> NULL, op |-> "none"]

\* A client connects and sends a request.
Request(c, r) ==
    /\ client[c] = "idle"
    /\ client' = [client EXCEPT ![c] = r]
    /\ UNCHANGED got

\* The agent answers it.
Answer(c, r) ==
    /\ client[c] # "idle"
    /\ client' = [client EXCEPT ![c] = "idle"]
    /\ got' = [to |-> c, of |-> c, op |-> r]

Next ==
    \E c \in Clients :
        \/ \E r \in Requests : Request(c, r)
        \/ \E r \in Responses : Answer(c, r)

Spec == Init /\ [][Next]_<<client, got>>
=============================================================================
