------------------------------ MODULE Lifetime ------------------------------
(***************************************************************************)
(* The lifetime of loaded accounts.  The main loop of oidcd looks for the  *)
(* next death, waits for a request until then, and removes the accounts    *)
(* whose time is over only when the wait times out.  Handlers take time:   *)
(* they talk to the provider and, over the pipe, to the user.              *)
(***************************************************************************)
EXTENDS Integers, FiniteSets, FiniteSetsExt

CONSTANTS
    NULL,
    Accounts,
    Lifetimes,   \* the lifetimes clients ask for; 0 is none
    ShortLife,   \* the lifetime of an account that cannot be refreshed
    MaxTime      \* bound on the clock

ASSUME LifetimeAssumption ==
    /\ Lifetimes \subseteq Nat /\ ShortLife \in Nat \ {0} /\ MaxTime \in Nat \ {0}
    /\ NULL \notin Int

VARIABLES
    now,      \* time(NULL)
    death,    \* of the loaded accounts: 0 is never; NULL is not loaded
    at,       \* the main loop: "scan", "wait" or "handle"
    timer,    \* minDeath; 0 is no timeout
    scanned,  \* when the deaths were looked at
    adding    \* the account a handler is adding and the death it gets

vars == <<now, death, at, timer, scanned, adding>>

NoOne == [acc |-> NULL, death |-> 0]

TypeOK ==
    /\ now \in 1..MaxTime
    /\ death \in [Accounts -> Nat \cup {NULL}]
    /\ at \in {"scan", "wait", "handle"}
    /\ timer \in Nat /\ scanned \in 0..MaxTime
    /\ adding \in [acc : Accounts \cup {NULL}, death : Nat]

Init ==
    /\ now = 1
    /\ death = [a \in Accounts |-> NULL]
    /\ at = "scan" /\ timer = 0 /\ scanned = 0
    /\ adding = NoOne
-----------------------------------------------------------------------------
Loaded == {a \in Accounts : death[a] # NULL}

Tick ==
    /\ now < MaxTime
    /\ now' = now + 1
    /\ UNCHANGED <<death, at, timer, scanned, adding>>

\* Mutant: the death of the next second is not counted.
Upcoming_late == {death[a] : a \in {b \in Loaded : death[b] > now + 1}}

\* Only a death that is still ahead counts.
Upcoming == {death[a] : a \in {b \in Loaded : death[b] > now}}

getMinDeathFrom ==
    /\ at = "scan"
    /\ timer' = IF Upcoming = {} THEN 0 ELSE Min(Upcoming)
    /\ scanned' = now
    /\ at' = "wait"
    /\ UNCHANGED <<now, death, adding>>

\* Mutants: accounts without a lifetime die; death in this second is missed.
isDead_zero(a) == death[a] <= now
isDead_strict(a) == death[a] > 0 /\ death[a] < now

isDead(a) == death[a] > 0 /\ death[a] <= now

Expired == timer # 0 /\ timer <= now

\* ipc_readWithTimeout times out, and all dead accounts are removed.
removeDeathAccounts ==
    /\ at = "wait" /\ Expired
    /\ death' = [a \in Accounts |-> IF a \in Loaded /\ isDead(a) THEN NULL ELSE death[a]]
    /\ at' = "scan"
    /\ UNCHANGED <<now, timer, scanned, adding>>

\* A request to add a computes the death first.
Death(l) == IF l = 0 THEN 0 ELSE now + l

oidcd_handleAdd(a, l) ==
    /\ at = "wait" /\ at' = "handle"
    /\ IF a \in Loaded
       THEN death' = [death EXCEPT ![a] = Death(l)] /\ UNCHANGED adding
       ELSE adding' = [acc |-> a, death |-> Death(l)] /\ UNCHANGED death
    /\ UNCHANGED <<now, timer, scanned>>

\* addAccount: the issuer cannot be reached and nothing is stored, or the
\* refresh flow succeeds or fails.
addAccount ==
    /\ at = "handle" /\ adding # NoOne
    /\ \E t \in {adding.death, now + ShortLife, NULL} : death' = [death EXCEPT ![adding.acc] = t]
    /\ at' = "scan" /\ adding' = NoOne
    /\ UNCHANGED <<now, timer, scanned>>

\* Any other request, a token request for instance.
handleRequest ==
    /\ at = "wait" /\ at' = "handle"
    /\ UNCHANGED <<now, death, timer, scanned, adding>>

endRequest ==
    /\ at = "handle" /\ adding = NoOne /\ at' = "scan"
    /\ UNCHANGED <<now, death, timer, scanned, adding>>

oidcd_handleRm(a) ==
    /\ at = "wait" /\ a \in Loaded
    /\ death' = [death EXCEPT ![a] = NULL]
    /\ at' = "handle"
    /\ UNCHANGED <<now, timer, scanned, adding>>

\* A re-authentication gives the account its full lifetime again.
oidcd_handleReauthenticate(a, l) ==
    /\ at = "wait" /\ a \in Loaded
    /\ death' = [death EXCEPT ![a] = Death(l)]
    /\ at' = "handle"
    /\ UNCHANGED <<now, timer, scanned, adding>>

Step == getMinDeathFrom \/ removeDeathAccounts \/ addAccount \/ endRequest

Next ==
    \/ Tick \/ Step \/ handleRequest
    \/ \E a \in Accounts : oidcd_handleRm(a)
    \/ \E a \in Accounts, l \in Lifetimes :
          oidcd_handleAdd(a, l) \/ oidcd_handleReauthenticate(a, l)

\* Time passes, a wait times out, and handlers come to an end.
Spec == Init /\ [][Next]_vars /\ WF_vars(Tick) /\ WF_vars(Step)
-----------------------------------------------------------------------------
(* Properties.                                                             *)

\* While oidcd waits, the timer covers every account: it goes off no later
\* than the account dies, unless the account was dead when the deaths were
\* looked at (getMinAccountDeath, oidcd_main).
TimerCovers ==
    at = "wait" =>
        \A a \in Loaded : death[a] > scanned => timer # 0 /\ timer <= death[a]

\* An account whose lifetime is not over, or that has none, is unloaded only
\* by a request, never by the main loop.
NeverUnloadedEarly ==
    [][\A a \in Loaded : death'[a] = NULL /\ (death[a] = 0 \/ death[a] > now)
                            => oidcd_handleRm(a)]_vars

\* An agent that gets no request unloads the account that dies next.
UnloadedWhenIdle ==
    \A a \in Accounts, t \in 1..MaxTime :
        (at = "wait" /\ timer = t /\ death[a] = t) ~> (death[a] # t \/ at = "handle")
=============================================================================
