---------------------------- MODULE AccountStore ----------------------------
(***************************************************************************)
(* The account store of oidcd: the heap of struct oidc_account objects and *)
(* the three lists that point into it, with every request handler that     *)
(* changes them as one action.  oidcd is single threaded and blocks inside *)
(* a handler, so a handler is atomic here; what the provider, the user and *)
(* the configuration files answer is chosen nondeterministically.          *)
(*                                                                         *)
(* Automatic re-authentication is in module Reauthentication, the lock in  *)
(* AgentLock and the timing of an account's death in Lifetime.             *)
(***************************************************************************)
EXTENDS Integers, FiniteSets

CONSTANTS
    NULL,           \* the C null pointer
    Names,          \* shortnames of account configurations
    Accounts,       \* addresses of struct oidc_account objects
    States,         \* random state values of authorization code flows
    OnlyAtStates,   \* the states drawn with only_at (state[2] == '1')
    DeviceCodes,    \* device codes and mytoken polling codes
    Issuers,        \* issuer urls
    IssuerOf,       \* the issuer of the configuration stored under a name
    NoAutoload,     \* oidc-agent --no-autoload
    Confirm,        \* oidc-agent --confirm
    AlwaysAllowId   \* oidc-agent --always-allow-idtoken

ASSUME StoreAssumption ==
    /\ OnlyAtStates \subseteq States
    /\ IssuerOf \in [Names -> Issuers]
    /\ {NoAutoload, Confirm, AlwaysAllowId} \subseteq BOOLEAN
    /\ NULL \notin Names \cup Accounts \cup States

VARIABLES
    heap,            \* address -> account object, NULL when not allocated
    accountDB,       \* the loaded accounts
    codeVerifierDB,  \* state -> account of a pending code flow, or NULL
    deviceCodeDB,    \* device code -> account of a pending flow, or NULL
    drawn,           \* the states drawn so far (a random value never repeats)
    handed,          \* how often the result of a state's flow was handed out
    granted          \* the last access token given out: was approval needed, given

vars == <<heap, accountDB, codeVerifierDB, deviceCodeDB, drawn, handed, granted>>

(***************************************************************************)
(* rt and cid count the layers of memory encryption over the refresh token *)
(* and over the client credentials; rt = -1 when there is no refresh token.*)
(***************************************************************************)
Account == [name    : Names \cup {NULL},
            iss     : Issuers,
            rt      : Nat \cup {-1},
            cid     : Nat,
            at      : BOOLEAN,
            used    : States \cup {NULL},
            checked : BOOLEAN,
            confirm : BOOLEAN,
            allowId : BOOLEAN]

ASSUME NullAssumption == NULL \notin Account

NoGrant == [needed |-> FALSE, approved |-> FALSE]

TypeOK ==
    /\ heap \in [Accounts -> Account \cup {NULL}]
    /\ accountDB \subseteq Accounts
    /\ codeVerifierDB \in [States -> Accounts \cup {NULL}]
    /\ deviceCodeDB \in [DeviceCodes -> Accounts \cup {NULL}]
    /\ drawn \subseteq States
    /\ handed \in [States -> Nat]
    /\ granted \in [needed : BOOLEAN, approved : BOOLEAN]

Init ==
    /\ heap = [a \in Accounts |-> NULL]
    /\ accountDB = {}
    /\ codeVerifierDB = [s \in States |-> NULL]
    /\ deviceCodeDB = [d \in DeviceCodes |-> NULL]
    /\ drawn = {}
    /\ handed = [s \in States |-> 0]
    /\ granted = NoGrant
-----------------------------------------------------------------------------
(* Memory encryption and the account list                                  *)

memoryEncrypt(n) == IF n < 0 THEN n ELSE n + 1

\* Mutant: nothing checks that there is something to decrypt.
memoryDecrypt_always(n) == n - 1

memoryDecrypt(n) == IF n > 0 THEN n - 1 ELSE n

Seal(r) == [r EXCEPT !.rt = memoryEncrypt(@), !.cid = memoryEncrypt(@)]
Open(r) == [r EXCEPT !.rt = memoryDecrypt(@), !.cid = memoryDecrypt(@)]

\* An address the allocator may return.
Fresh == {a \in Accounts : heap[a] = NULL}

\* getAccountFromJSON: a new object, not encrypted.
getAccountFromJSON(n, i, rt) ==
    [name |-> n, iss |-> i, rt |-> rt, cid |-> 0, at |-> FALSE, used |-> NULL,
     checked |-> FALSE, confirm |-> FALSE, allowId |-> FALSE]

Loaded(n) == {a \in accountDB : heap[a].name = n}

\* Mutant: the entry of the same name stays.
db_addAccountEncrypted_both(a, r) ==
    /\ heap' = [heap EXCEPT ![a] = Seal(r)]
    /\ accountDB' = accountDB \cup {a}

\* Account a, with contents r, is encrypted and put into the list; another
\* entry of that name is removed from it and freed.
db_addAccountEncrypted(a, r) ==
    LET old == {x \in accountDB \ {a} : heap[x].name = r.name}
    IN  /\ heap' = [x \in Accounts |-> IF x = a THEN Seal(r)
                                       ELSE IF x \in old THEN NULL ELSE heap[x]]
        /\ accountDB' = (accountDB \ old) \cup {a}

\* Mutant: freed but not removed.
accountDB_remove_stay(X) ==
    /\ heap' = [x \in Accounts |-> IF x \in X THEN NULL ELSE heap[x]]
    /\ UNCHANGED accountDB

\* The entries of X are removed from the list and freed.
accountDB_remove(X) ==
    /\ heap' = [x \in Accounts |-> IF x \in X THEN NULL ELSE heap[x]]
    /\ accountDB' = accountDB \ X
-----------------------------------------------------------------------------
(* What the provider may answer                                            *)

\* The account after an access token was obtained: the cached token while it
\* is valid, otherwise the refresh flow, for which the refresh token must be
\* there and in the clear.  With an explicit scope the token is not stored.
\* Obtaining a token can always fail and then leaves the account as it is.
getAccessTokenUsingRefreshFlow(r, force) ==
    (IF r.at /\ ~force THEN {r} ELSE {})
    \cup (IF r.rt = 0 THEN {[r EXCEPT !.at = x] : x \in {r.at, TRUE}} ELSE {})

\* The account after a code or device flow succeeded: the access token is
\* stored, and the refresh token when the provider issued one.  The provider
\* only accepts client credentials that are in the clear.
FlowSucceeds(r) ==
    IF r.cid = 0
    THEN {[r EXCEPT !.at = TRUE, !.rt = t] : t \in {r.rt, 0}}
    ELSE {}

\* The account when addAccount succeeds; the caller finds it in the list.
addAccount(r, plain) ==
    IF plain THEN {r} ELSE getAccessTokenUsingRefreshFlow(r, TRUE)

\* addAccount fails on the new object a: without the issuer's configuration
\* it is not stored, and its callers do not free it; when the refresh flow
\* fails it is stored to die soon.
addAccountFails(a, r, plain) ==
    \/ heap' = [heap EXCEPT ![a] = r] /\ UNCHANGED accountDB
    \/ ~plain /\ db_addAccountEncrypted(a, r)
-----------------------------------------------------------------------------
(* Access to the list by the token handlers                                *)

NeedsConfirmation(r) == Confirm \/ r.confirm

\* The configuration file of n, once the user entered its password.
ConfigFile(n) == getAccountFromJSON(n, IssuerOf[n], 0)

\* The decrypted contents object a may have when a token handler gets it as
\* the account of name n: loaded before, or just loaded from its file.
getLoadedUnencryptedAccount(n, a) ==
    IF a \in Loaded(n) THEN {Open(heap[a])}
    ELSE IF Loaded(n) = {} /\ ~NoAutoload /\ a \in Fresh THEN addAccount(ConfigFile(n), FALSE)
    ELSE {}

oidcd_autoloadFails(n) ==
    /\ Loaded(n) = {} /\ ~NoAutoload
    /\ \E a \in Fresh : addAccountFails(a, ConfigFile(n), FALSE)

OfIssuer(i) == {a \in accountDB : heap[a].iss = i}

\* The same by issuer: the only loaded account, the default or last one of
\* several, or an autoloaded default.
getLoadedUnencryptedAccountForIssuer(i, a) ==
    IF a \in OfIssuer(i) THEN {Open(heap[a])}
    ELSE IF OfIssuer(i) = {} /\ ~NoAutoload /\ a \in Fresh
    THEN UNION {addAccount(ConfigFile(n), FALSE) : n \in {m \in Names : IssuerOf[m] = i}}
    ELSE {}

\* Only the path for an account that was loaded before asks the user.
AsksForIssuer(i, r) == OfIssuer(i) # {} /\ NeedsConfirmation(r)

autoloadForIssuerFails(i) ==
    /\ OfIssuer(i) = {} /\ ~NoAutoload
    /\ \E n \in {m \in Names : IssuerOf[m] = i}, a \in Fresh :
          addAccountFails(a, ConfigFile(n), FALSE)

\* Mutant: the account is not encrypted again.
NoToken_clear(a, r) ==
    /\ heap' = [heap EXCEPT ![a] = r]
    /\ accountDB' = accountDB \cup {a}
    /\ UNCHANGED granted

\* No token is given out (the flow failed or the user declined); the account
\* is encrypted again.
NoToken(a, r) == db_addAccountEncrypted(a, r) /\ UNCHANGED granted

Obtain(a, r, approved) ==
    \/ /\ \E q \in getAccessTokenUsingRefreshFlow(r, FALSE) : db_addAccountEncrypted(a, q)
       /\ granted' = [needed |-> NeedsConfirmation(r), approved |-> approved]
    \/ NoToken(a, r)
-----------------------------------------------------------------------------
(* The request handlers                                                    *)

pending == <<codeVerifierDB, deviceCodeDB, drawn, handed>>

oidcd_handleToken(n) ==
    /\ \/ \E a \in Accounts : \E r \in getLoadedUnencryptedAccount(n, a) :
            \/ Obtain(a, r, NeedsConfirmation(r))
            \/ NeedsConfirmation(r) /\ NoToken(a, r)
       \/ oidcd_autoloadFails(n) /\ UNCHANGED granted
    /\ UNCHANGED pending

oidcd_handleTokenIssuer(i) ==
    /\ \/ \E a \in Accounts : \E r \in getLoadedUnencryptedAccountForIssuer(i, a) :
            \/ Obtain(a, r, AsksForIssuer(i, r))
            \/ AsksForIssuer(i, r) /\ NoToken(a, r)
       \/ autoloadForIssuerFails(i) /\ UNCHANGED granted
    /\ UNCHANGED pending

\* The ID token needs a confirmation of its own.  When the user declines it
\* the handler returns with the account still decrypted in the list.
GetIdToken(a, r) ==
    \/ \E q \in getAccessTokenUsingRefreshFlow(r, TRUE) : db_addAccountEncrypted(a, q)
    \/ db_addAccountEncrypted(a, r)
    \/ /\ ~(AlwaysAllowId \/ r.allowId)
       /\ heap' = [heap EXCEPT ![a] = r]
       /\ accountDB' = accountDB \cup {a}

oidcd_handleIdToken(n) ==
    /\ \/ \E a \in Accounts : \E r \in getLoadedUnencryptedAccount(n, a) : GetIdToken(a, r)
       \/ oidcd_autoloadFails(n)
    /\ UNCHANGED <<pending, granted>>

\* The same request with an issuer instead of a shortname.
IdTokenForIssuer(i) ==
    /\ \/ \E a \in Accounts : \E r \in getLoadedUnencryptedAccountForIssuer(i, a) :
            \/ GetIdToken(a, r)
            \/ AsksForIssuer(i, r) /\ db_addAccountEncrypted(a, r)
       \/ autoloadForIssuerFails(i)
    /\ UNCHANGED <<pending, granted>>

\* get_submytoken leaves the account as it is.
oidcd_handleMytoken(n) ==
    /\ \/ \E a \in Accounts : \E r \in getLoadedUnencryptedAccount(n, a) :
            db_addAccountEncrypted(a, r)
       \/ oidcd_autoloadFails(n)
    /\ UNCHANGED <<pending, granted>>

oidcd_handleAdd(n, confirm, allowId, plain) ==
    LET file == [ConfigFile(n) EXCEPT !.confirm = confirm, !.allowId = allowId]
    IN  /\ IF Loaded(n) # {}
           THEN \E a \in Loaded(n) : db_addAccountEncrypted(a, Open(heap[a]))
           ELSE \E a \in Fresh :
                   \/ \E q \in addAccount(file, plain) : db_addAccountEncrypted(a, q)
                   \/ addAccountFails(a, file, plain)
        /\ UNCHANGED <<pending, granted>>

oidcd_handleRm(n) == accountDB_remove(Loaded(n)) /\ UNCHANGED <<pending, granted>>

oidcd_handleRemoveAll == accountDB_remove(accountDB) /\ UNCHANGED <<pending, granted>>

\* Unloaded only once the provider has revoked the token.
oidcd_handleDelete(n) ==
    /\ \E revoked \in BOOLEAN : accountDB_remove(IF revoked THEN Loaded(n) ELSE {})
    /\ UNCHANGED <<pending, granted>>

\* The timer fired: the accounts that are dead by now are unloaded.
removeDeathAccounts ==
    /\ \E X \in SUBSET accountDB : accountDB_remove(X)
    /\ UNCHANGED <<pending, granted>>
-----------------------------------------------------------------------------
(* Account creation: the flows of oidc-gen                                 *)

\* The account to be generated: it has no name when only an access token is
\* wanted, and a refresh token only when oidc-gen was given one.
Requested(onlyAt) ==
    UNION {IF onlyAt THEN {getAccountFromJSON(NULL, i, rt) : i \in Issuers}
                     ELSE {getAccountFromJSON(n, IssuerOf[n], rt) : n \in Names} :
             rt \in {-1, 0}}

\* Mutant: a state is drawn again while its flow is pending.
initAuthCodeFlow_during(a, onlyAt) ==
    /\ \E s \in States :
         /\ codeVerifierDB' = [codeVerifierDB EXCEPT ![s] = a]
         /\ drawn' = drawn \cup {s}
    /\ UNCHANGED deviceCodeDB

\* The account of a pending code flow is kept under the state; when the
\* authorization URI cannot be built nothing is, and nobody frees the object.
initAuthCodeFlow(a, onlyAt) ==
    /\ \/ \E s \in States \ drawn :
            /\ (s \in OnlyAtStates) = onlyAt
            /\ codeVerifierDB' = [codeVerifierDB EXCEPT ![s] = a]
            /\ drawn' = drawn \cup {s}
       \/ UNCHANGED <<codeVerifierDB, drawn>>
    /\ UNCHANGED deviceCodeDB

\* Mutant: the next flow is started as well.
initDeviceFlow_both(a) ==
    /\ \E d \in DeviceCodes : deviceCodeDB' = [deviceCodeDB EXCEPT ![d] = a]
    /\ \E s \in States \ drawn :
         codeVerifierDB' = [codeVerifierDB EXCEPT ![s] = a] /\ drawn' = drawn \cup {s}

\* The account of a pending device or mytoken flow is kept under its code.
initDeviceFlow(a) ==
    /\ \E d \in DeviceCodes :
        /\ deviceCodeDB[d] = NULL
        /\ deviceCodeDB' = [deviceCodeDB EXCEPT ![d] = a]
    /\ UNCHANGED <<codeVerifierDB, drawn>>

\* The first flow of the list that does not fail: one that ends at once with
\* a refresh token, a code flow, or a device or mytoken flow.  In all other
\* cases the object is freed.  db is the account list when the flows start.
handleGenFlows(a, r, onlyAt, db) ==
    \/ /\ ~onlyAt
       /\ db_addAccountEncrypted(a, [r EXCEPT !.rt = 0, !.at = TRUE])
       /\ UNCHANGED <<codeVerifierDB, deviceCodeDB, drawn>>
    \/ /\ heap' = [heap EXCEPT ![a] = r]
       /\ accountDB' = db
       /\ initAuthCodeFlow(a, onlyAt) \/ initDeviceFlow(a)
    \/ /\ heap' = [heap EXCEPT ![a] = NULL]
       /\ accountDB' = db
       /\ UNCHANGED <<codeVerifierDB, deviceCodeDB, drawn>>

oidcd_handleGen(onlyAt) ==
    /\ \E a \in Fresh, r \in Requested(onlyAt) : handleGenFlows(a, r, onlyAt, accountDB)
    /\ UNCHANGED <<handed, granted>>

\* The account of a finished flow is freed.
FreePending(a) == heap' = [heap EXCEPT ![a] = NULL] /\ UNCHANGED accountDB

\* Mutant: the state is not noted on the account.
Finished_stateless(r, s, fromGen) == [r EXCEPT !.checked = @ \/ fromGen]

\* The account a code flow led to: it is found by its state, and a redirect that
\* oidc-gen brought needs no lookup any more.
Finished(r, s, fromGen) == [r EXCEPT !.used = s, !.checked = @ \/ fromGen]

\* The redirect with an authorization code arrives, from oidc-gen or from the
\* agent's own web server.  When the exchange fails the entry is kept.
oidcd_handleCodeExchange(s, fromGen) ==
    LET a == codeVerifierDB[s]
        result == IF fromGen THEN handed[s] + 1 ELSE handed[s]
    IN  /\ a # NULL
        /\ \/ FreePending(a) /\ UNCHANGED handed     \* no issuer configuration
           \/ \E r \in FlowSucceeds(heap[a]) :
                IF s \in OnlyAtStates \/ r.rt # -1
                THEN /\ db_addAccountEncrypted(a, Finished(r, s, fromGen))
                     /\ handed' = [handed EXCEPT ![s] = result]
                ELSE FreePending(a) /\ UNCHANGED handed
        /\ codeVerifierDB' = [codeVerifierDB EXCEPT ![s] = NULL]
        /\ UNCHANGED <<deviceCodeDB, drawn, granted>>

\* oidc-gen polls: nothing changes while the user has not finished; then the
\* account is loaded, or freed when there is no refresh token or none wanted.
oidcd_handleDeviceLookup(d) ==
    LET a == deviceCodeDB[d]
    IN  /\ a # NULL
        /\ \/ FreePending(a)
           \/ \E r \in FlowSucceeds(heap[a]) :
                /\ r.rt # -1 /\ r.name # NULL
                /\ db_addAccountEncrypted(a, r)
        /\ deviceCodeDB' = [deviceCodeDB EXCEPT ![d] = NULL]
        /\ UNCHANGED <<codeVerifierDB, drawn, handed, granted>>

\* oidc-gen asks for the result of the flow with state s, once.
oidcd_handleStateLookUp(s) ==
    /\ \E a \in {x \in accountDB : heap[x].used = s} :
         IF heap[a].checked
         THEN db_addAccountEncrypted(a, Open(heap[a])) /\ UNCHANGED handed
         ELSE /\ handed' = [handed EXCEPT ![s] = @ + 1]
              /\ IF s \in OnlyAtStates
                 THEN accountDB_remove({a})
                 ELSE db_addAccountEncrypted(a, [Open(heap[a]) EXCEPT !.checked = TRUE])
    /\ UNCHANGED <<codeVerifierDB, deviceCodeDB, drawn, granted>>
-----------------------------------------------------------------------------
Next ==
    \/ \E n \in Names : \/ oidcd_handleToken(n)
                        \/ oidcd_handleIdToken(n)
                        \/ oidcd_handleMytoken(n)
                        \/ oidcd_handleRm(n)
                        \/ oidcd_handleDelete(n)
    \/ \E i \in Issuers : oidcd_handleTokenIssuer(i) \/ IdTokenForIssuer(i)
    \/ \E n \in Names, confirm, allowId, plain \in BOOLEAN :
        oidcd_handleAdd(n, confirm, allowId, plain)
    \/ oidcd_handleRemoveAll
    \/ removeDeathAccounts
    \/ \E onlyAt \in BOOLEAN : oidcd_handleGen(onlyAt)
    \/ \E s \in States : \/ \E fromGen \in BOOLEAN : oidcd_handleCodeExchange(s, fromGen)
                         \/ oidcd_handleStateLookUp(s)
    \/ \E d \in DeviceCodes : oidcd_handleDeviceLookup(d)

Spec == Init /\ [][Next]_vars
-----------------------------------------------------------------------------
(* Properties                                                              *)

Pending == {codeVerifierDB[s] : s \in States} \cup {deviceCodeDB[d] : d \in DeviceCodes}

\* No list points to a freed object: the handlers free an account (the free
\* function of the account list, secFreeAccount, secFreeCodeExchangeContent)
\* only after or together with the removal of the last pointer to it.
NoDangling ==
    /\ \A a \in accountDB : heap[a] # NULL
    /\ \A a \in Pending \ {NULL} : heap[a] # NULL

\* No account is in two pending flows.
OneFlowPerAccount ==
    /\ \A s, t \in States :
         s # t /\ codeVerifierDB[s] = codeVerifierDB[t] => codeVerifierDB[s] = NULL
    /\ \A d, e \in DeviceCodes :
         d # e /\ deviceCodeDB[d] = deviceCodeDB[e] => deviceCodeDB[d] = NULL
    /\ \A s \in States, d \in DeviceCodes :
         codeVerifierDB[s] = deviceCodeDB[d] => codeVerifierDB[s] = NULL

\* An account has one owner.  The code and device code lists and the account
\* list hand accounts over and never share them, so that the free of one list
\* cannot pull an object from under another.
SingleOwner == Pending \cap accountDB = {} /\ OneFlowPerAccount

\* The loaded accounts whose object has not been freed.
Live == {a \in accountDB : heap[a] # NULL}

\* The account list holds one account per name (the nameless ones of
\* --only-at count as one), whichever flow or autoload put them there.
NamesUnique == \A a, b \in Live : heap[a].name = heap[b].name => a = b

\* A state leads to one account: the lookup of oidc-gen, which takes the first
\* match in the list, cannot deliver the result of another flow.
StateIdentifiesAccount ==
    \A a, b \in Live : heap[a].used # NULL /\ heap[a].used = heap[b].used => a = b

\* Whatever a request names an account by -- its short name, or the state of
\* its flow -- leads to at most one loaded account.
LookupsUnique == NamesUnique /\ StateIdentifiesAccount

\* Between two requests every loaded account has exactly one layer of memory
\* encryption: no handler returns without re-encrypting what it decrypted,
\* and none encrypts twice, which would make the credentials unusable.  The
\* accounts of pending flows are in the clear, or loading them would add a
\* second layer.
EncryptedAtRest ==
    /\ \A a \in Live : heap[a].cid = 1 /\ heap[a].rt \in {-1, 1}
    /\ \A a \in Pending \ {NULL} : heap[a].cid = 0 /\ heap[a].rt \in {-1, 0}

\* The loaded accounts that a lookup for the state s would hand out.
Waiting(s) == {a \in Live : heap[a].used = s /\ ~heap[a].checked}

\* The result of the flow with state s goes to oidc-gen.
HandsOver(s) == handed'[s] = handed[s] + 1

\* The account a is unloaded, by a request or at the end of its lifetime, and
\* nothing else happens; and a gives way to another account of its name.
Unloads(a) == UNCHANGED pending /\ \E X \in SUBSET accountDB : a \in X /\ accountDB_remove(X)
Replaces(a) == \E b \in accountDB' \ {a} : a \notin accountDB' /\ heap'[b].name = heap[a].name

\* The step ends the code flow with state s, and its account has failed and is
\* freed, or its result is handed over, or waits for the lookup.
ResultKept(s) ==
    LET a == codeVerifierDB[s]
    IN  a # NULL /\ codeVerifierDB'[s] = NULL => heap'[a] = NULL \/ HandsOver(s) \/ a \in Waiting(s)'

\* The result of a code flow is handed over once.  It is not handed over twice,
\* however the redirect (to the web server or by way of oidc-gen) and the lookups
\* of oidc-gen follow each other; a flow that does not fail has a result; and
\* a result waits until it is handed over, unless its account is unloaded as such
\* or replaced by another of its name -- no request for anything else loses it.
ConfigHandedOver ==
    [][\A s \in States :
          /\ handed'[s] <= 1
          /\ ResultKept(s)
          /\ \A a \in Waiting(s) :
                a \in Waiting(s)' \/ HandsOver(s) \/ Unloads(a) \/ Replaces(a)]_vars

\* An access token is given out only after the confirmation that the agent's
\* or the account's settings require.
TokenNeedsApproval == granted.needed => granted.approved

\* Until its flow ends a pending account is not changed by any other request;
\* when it ends the account is loaded or freed, never just dropped.
PendingUndisturbed ==
    [][\A s \in States :
          LET a == codeVerifierDB[s]
          IN  a # NULL => IF codeVerifierDB'[s] = a THEN heap'[a] = heap[a]
                          ELSE a \in accountDB' \/ heap'[a] = NULL]_vars

=============================================================================
