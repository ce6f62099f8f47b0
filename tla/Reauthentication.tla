-------------------------- MODULE Reauthentication --------------------------
(***************************************************************************)
(* The account store with automatic re-authentication: when a token could  *)
(* not be refreshed, oidcp sends a re-authentication request, and oidcd    *)
(* starts the account creation flows again on the account it has loaded.   *)
(***************************************************************************)
EXTENDS AccountStore

\* The flows run on an account that is, or has just been put, in the list.
oidcd_handleReauthenticate(n) ==
    /\ \/ \E a \in Accounts : \E r \in getLoadedUnencryptedAccount(n, a) :
            handleGenFlows(a, r, FALSE, accountDB \cup {a})
       \/ oidcd_autoloadFails(n) /\ UNCHANGED <<codeVerifierDB, deviceCodeDB, drawn>>
    /\ UNCHANGED <<handed, granted>>

\* A handler that meets a freed account reads freed memory, which is undefined
\* and in practice ends oidcd: no step of the model follows.
NextR ==
    /\ NoDangling
    /\ Next \/ \E n \in Names : oidcd_handleReauthenticate(n)

SpecR == Init /\ [][NextR]_vars
=============================================================================
