------------------------- MODULE AccountStoreProofs -------------------------
(***************************************************************************)
(* Memory safety of the account store, for any number of names, accounts,  *)
(* pending flows and issuers and any setting of the agent's options.       *)
(***************************************************************************)
EXTENDS AccountStore, TLAPS

Own == TypeOK /\ NoDangling /\ SingleOwner
-----------------------------------------------------------------------------
(* Types of the operators the handlers are built from                      *)

\* Encrypting or decrypting the fields of an account yields an account.
LEMMA SealType == \A r \in Account : Seal(r) \in Account /\ Open(r) \in Account
  <1> SUFFICES ASSUME NEW r \in Account
               PROVE  Seal(r) \in Account /\ Open(r) \in Account
    OBVIOUS
  <1>1. r.rt \in Nat \cup {-1} /\ r.cid \in Nat
    BY DEF Account
  <1>2. \A x \in Nat \cup {-1} : /\ memoryEncrypt(x) \in Nat \cup {-1}
                                 /\ memoryDecrypt(x) \in Nat \cup {-1}
    BY DEF memoryEncrypt, memoryDecrypt
  <1>3. \A x \in Nat : memoryEncrypt(x) \in Nat /\ memoryDecrypt(x) \in Nat
    BY DEF memoryEncrypt, memoryDecrypt
  <1>4. \A x \in Nat \cup {-1}, y \in Nat : [r EXCEPT !.rt = x, !.cid = y] \in Account
    BY DEF Account
  <1> QED BY <1>1, <1>2, <1>3, <1>4 DEF Seal, Open

\* A new object is an account.
LEMMA FromJSONType ==
    ASSUME NEW n \in Names \cup {NULL}, NEW i \in Issuers, NEW rt \in {-1, 0}
    PROVE  getAccountFromJSON(n, i, rt) \in Account
  BY DEF getAccountFromJSON, Account

\* The refresh flow leaves an account.
LEMMA RefreshType ==
    ASSUME NEW r \in Account, NEW force \in BOOLEAN
    PROVE  getAccessTokenUsingRefreshFlow(r, force) \subseteq Account
  <1>1. r.at \in BOOLEAN /\ \A x \in BOOLEAN : [r EXCEPT !.at = x] \in Account
    BY DEF Account
  <1>2. {[r EXCEPT !.at = x] : x \in {r.at, TRUE}} \subseteq Account
    BY <1>1, Zenon
  <1> QED BY <1>2 DEF getAccessTokenUsingRefreshFlow

\* A finished code or device flow leaves an account.
LEMMA FlowType == \A r \in Account : FlowSucceeds(r) \subseteq Account
  <1> SUFFICES ASSUME NEW r \in Account PROVE FlowSucceeds(r) \subseteq Account
    OBVIOUS
  <1>1. \A t \in Nat \cup {-1} : [r EXCEPT !.at = TRUE, !.rt = t] \in Account
    BY DEF Account
  <1>2. r.rt \in Nat \cup {-1} /\ 0 \in Nat \cup {-1}
    BY DEF Account
  <1>3. {[r EXCEPT !.at = TRUE, !.rt = t] : t \in {r.rt, 0}} \subseteq Account
    BY <1>1, <1>2, Zenon
  <1> QED BY <1>3 DEF FlowSucceeds

\* When addAccount succeeds it leaves an account.
LEMMA AddType ==
    ASSUME NEW r \in Account, NEW plain \in BOOLEAN
    PROVE  addAccount(r, plain) \subseteq Account
  BY RefreshType DEF addAccount

\* The configuration file of a name holds an account.
LEMMA FileType == \A n \in Names : ConfigFile(n) \in Account
  BY FromJSONType, StoreAssumption DEF ConfigFile

\* What oidc-gen asks for is an account.
LEMMA RequestedType == \A b \in BOOLEAN : Requested(b) \subseteq Account
  BY FromJSONType, StoreAssumption DEF Requested
-----------------------------------------------------------------------------
(* What a step may do to the heap and the account list                     *)

\* Only objects of A and of the account list change, only objects of A are
\* added to the list, and everything in the list afterwards is allocated.
Quiet(A) ==
    /\ heap' \in [Accounts -> Account \cup {NULL}]
    /\ accountDB' \subseteq accountDB \cup A
    /\ \A x \in accountDB' : heap'[x] # NULL
    /\ \A x \in Accounts \ (accountDB \cup A) : heap'[x] = heap[x]

\* Storing an account frees at most an older account of the list.
LEMMA AddQuiet ==
    ASSUME Own, NEW a \in Accounts, NEW r \in Account, db_addAccountEncrypted(a, r)
    PROVE  Quiet({a})
  <1>1. Seal(r) \in Account /\ Seal(r) # NULL
    BY SealType, NullAssumption
  <1> QED BY <1>1 DEF Own, TypeOK, NoDangling, db_addAccountEncrypted, Quiet

\* Removing accounts from the list frees these and no others.
LEMMA RemoveQuiet ==
    ASSUME Own, NEW X, accountDB_remove(X), X \subseteq accountDB
    PROVE  Quiet({})
  BY DEF Own, TypeOK, NoDangling, accountDB_remove, Quiet

\* Writing an object that then is or is not in the list.
LEMMA WriteQuiet ==
    ASSUME Own, NEW a \in Accounts, NEW r \in Account,
           heap' = [heap EXCEPT ![a] = r], accountDB' \subseteq accountDB \cup {a}
    PROVE  Quiet({a})
  BY NullAssumption DEF Own, TypeOK, NoDangling, Quiet

\* A failing addAccount stores or loses its object.
LEMMA FailQuiet ==
    ASSUME Own, NEW a \in Accounts, NEW r \in Account, NEW plain \in BOOLEAN,
           addAccountFails(a, r, plain)
    PROVE  Quiet({a})
  BY AddQuiet, WriteQuiet DEF addAccountFails

\* A step that changes only objects outside the pending flows, and that at
\* most ends pending flows, keeps the ownership discipline.
LEMMA QuietOwn ==
    ASSUME Own, NEW A \in SUBSET Accounts, Quiet(A),
           codeVerifierDB' \in [States -> Accounts \cup {NULL}],
           deviceCodeDB' \in [DeviceCodes -> Accounts \cup {NULL}],
           drawn' \subseteq States,
           handed' \in [States -> Nat],
           granted' \in [needed : BOOLEAN, approved : BOOLEAN],
           Pending' \subseteq Pending \cup {NULL}, Pending' \cap A \subseteq {NULL},
           OneFlowPerAccount'
    PROVE  Own'
  <1>1. TypeOK'
    BY StoreAssumption DEF TypeOK, Quiet, Own
  <1>2. NULL \notin accountDB'
    BY <1>1, StoreAssumption DEF TypeOK
  <1>3. \A a \in Pending' \ {NULL} : a \in Accounts /\ a \notin accountDB \cup A
    BY DEF Own, TypeOK, SingleOwner, Pending
  <1>4. NoDangling'
    BY <1>3 DEF Own, NoDangling, Quiet
  <1>5. SingleOwner'
    BY <1>2, <1>3 DEF SingleOwner, Quiet
  <1> QED BY <1>1, <1>4, <1>5 DEF Own

\* The same for a step that leaves the pending flows alone.
LEMMA UnchangedOwn ==
    ASSUME Own, NEW A \in SUBSET Accounts, Quiet(A), A \cap Pending = {},
           UNCHANGED pending, granted' \in [needed : BOOLEAN, approved : BOOLEAN]
    PROVE  Own'
  <1>1. Pending' = Pending /\ OneFlowPerAccount'
    BY DEF Own, SingleOwner, OneFlowPerAccount, Pending, pending
  <1> QED BY <1>1, QuietOwn DEF Own, TypeOK, pending

\* And when no access token is given out either.
LEMMA QuietStep ==
    ASSUME Own, NEW A \in SUBSET Accounts, Quiet(A), A \cap Pending = {},
           UNCHANGED pending, UNCHANGED granted
    PROVE  Own'
  BY UnchangedOwn DEF Own, TypeOK
-----------------------------------------------------------------------------
(* The accounts the handlers work on                                       *)

\* An object the allocator returns belongs to no pending flow.
LEMMA FreshFree ==
    ASSUME Own, NEW a \in Fresh
    PROVE  a \in Accounts /\ a \notin Pending /\ a \notin accountDB
  BY StoreAssumption DEF Own, Fresh, NoDangling

\* A token handler gets an account that belongs to no pending flow.
LEMMA GetByName ==
    ASSUME Own, NEW n \in Names, NEW a \in Accounts,
           NEW r \in getLoadedUnencryptedAccount(n, a)
    PROVE  r \in Account /\ {a} \cap Pending = {}
  <1>1. CASE a \in Loaded(n)
    BY <1>1, SealType DEF Own, TypeOK, NoDangling, SingleOwner, Loaded,
                          getLoadedUnencryptedAccount
  <1>2. CASE a \notin Loaded(n) /\ a \in Fresh
    BY <1>2, FreshFree, AddType, FileType DEF getLoadedUnencryptedAccount
  <1> QED BY <1>1, <1>2 DEF getLoadedUnencryptedAccount

\* The same when the account is chosen by its issuer.
LEMMA GetByIssuer ==
    ASSUME Own, NEW i \in Issuers, NEW a \in Accounts,
           NEW r \in getLoadedUnencryptedAccountForIssuer(i, a)
    PROVE  r \in Account /\ {a} \cap Pending = {}
  <1>1. CASE a \in OfIssuer(i)
    BY <1>1, SealType DEF Own, TypeOK, NoDangling, SingleOwner, OfIssuer,
                          getLoadedUnencryptedAccountForIssuer
  <1>2. CASE a \notin OfIssuer(i) /\ a \in Fresh
    <2>1. PICK n \in Names : r \in addAccount(ConfigFile(n), FALSE)
      BY <1>2 DEF getLoadedUnencryptedAccountForIssuer
    <2> QED BY <1>2, <2>1, FreshFree, AddType, FileType
  <1> QED BY <1>1, <1>2 DEF getLoadedUnencryptedAccountForIssuer

\* Failing autoloads touch only a new object.
LEMMA AutoloadQuiet ==
    ASSUME Own, \/ \E n \in Names : oidcd_autoloadFails(n)
                \/ \E i \in Issuers : autoloadForIssuerFails(i)
    PROVE  \E A \in SUBSET Accounts : Quiet(A) /\ A \cap Pending = {}
  <1>1. PICK n \in Names, a \in Fresh : addAccountFails(a, ConfigFile(n), FALSE)
    BY DEF oidcd_autoloadFails, autoloadForIssuerFails
  <1>2. Quiet({a})
    BY <1>1, FailQuiet, FileType, FreshFree
  <1> QED BY <1>2, FreshFree
-----------------------------------------------------------------------------
(* The handlers                                                            *)

\* Giving out an access token keeps the ownership discipline.
LEMMA ObtainOwn ==
    ASSUME Own, NEW a \in Accounts, NEW r \in Account, {a} \cap Pending = {},
           NEW approved \in BOOLEAN, Obtain(a, r, approved), UNCHANGED pending
    PROVE  Own'
  <1>1. CASE NoToken(a, r)
    BY <1>1, AddQuiet, QuietStep DEF NoToken
  <1>2. CASE /\ \E q \in getAccessTokenUsingRefreshFlow(r, FALSE) : db_addAccountEncrypted(a, q)
             /\ granted' = [needed |-> NeedsConfirmation(r), approved |-> approved]
    <2>1. Quiet({a})
      BY <1>2, AddQuiet, RefreshType
    <2>2. NeedsConfirmation(r) \in BOOLEAN
      BY DEF NeedsConfirmation
    <2> QED BY <1>2, <2>1, <2>2, UnchangedOwn
  <1> QED BY <1>1, <1>2 DEF Obtain

\* So does the token handler by name.
LEMMA TokenOwn ==
    ASSUME Own, NEW n \in Names, oidcd_handleToken(n)
    PROVE  Own'
  <1>1. CASE oidcd_autoloadFails(n) /\ UNCHANGED granted
    BY <1>1, AutoloadQuiet, QuietStep DEF oidcd_handleToken
  <1>2. ASSUME NEW a \in Accounts, NEW r \in getLoadedUnencryptedAccount(n, a),
               Obtain(a, r, NeedsConfirmation(r)), UNCHANGED pending
        PROVE  Own'
    <2>1. NeedsConfirmation(r) \in BOOLEAN
      BY DEF NeedsConfirmation
    <2> QED BY <1>2, <2>1, GetByName, ObtainOwn
  <1>3. ASSUME NEW a \in Accounts, NEW r \in getLoadedUnencryptedAccount(n, a),
               NoToken(a, r), UNCHANGED pending
        PROVE  Own'
    <2>1. r \in Account /\ {a} \cap Pending = {}
      BY GetByName
    <2>2. Quiet({a})
      BY <1>3, <2>1, AddQuiet DEF NoToken
    <2> QED BY <1>3, <2>1, <2>2, QuietStep DEF NoToken
  <1> QED BY <1>1, <1>2, <1>3 DEF oidcd_handleToken

\* And by issuer.
LEMMA TokenIssuerOwn ==
    ASSUME Own, NEW i \in Issuers, oidcd_handleTokenIssuer(i)
    PROVE  Own'
  <1>1. CASE autoloadForIssuerFails(i) /\ UNCHANGED granted
    BY <1>1, AutoloadQuiet, QuietStep DEF oidcd_handleTokenIssuer
  <1>2. ASSUME NEW a \in Accounts, NEW r \in getLoadedUnencryptedAccountForIssuer(i, a),
               Obtain(a, r, AsksForIssuer(i, r)), UNCHANGED pending
        PROVE  Own'
    <2>1. AsksForIssuer(i, r) \in BOOLEAN
      BY DEF AsksForIssuer
    <2> QED BY <1>2, <2>1, GetByIssuer, ObtainOwn
  <1>3. ASSUME NEW a \in Accounts, NEW r \in getLoadedUnencryptedAccountForIssuer(i, a),
               NoToken(a, r), UNCHANGED pending
        PROVE  Own'
    <2>1. r \in Account /\ {a} \cap Pending = {}
      BY GetByIssuer
    <2>2. Quiet({a})
      BY <1>3, <2>1, AddQuiet DEF NoToken
    <2> QED BY <1>3, <2>1, <2>2, QuietStep DEF NoToken
  <1> QED BY <1>1, <1>2, <1>3 DEF oidcd_handleTokenIssuer

\* Obtaining an ID token touches only the account it is obtained for.
LEMMA IdTokenQuiet ==
    ASSUME Own, NEW a \in Accounts, NEW r \in Account, GetIdToken(a, r)
    PROVE  Quiet({a})
  <1>1. CASE \E q \in getAccessTokenUsingRefreshFlow(r, TRUE) : db_addAccountEncrypted(a, q)
    BY <1>1, AddQuiet, RefreshType
  <1>2. CASE db_addAccountEncrypted(a, r)
    BY <1>2, AddQuiet
  <1>3. CASE heap' = [heap EXCEPT ![a] = r] /\ accountDB' = accountDB \cup {a}
    BY <1>3, WriteQuiet
  <1> QED BY <1>1, <1>2, <1>3 DEF GetIdToken

\* The handlers that work on one account and give out no access token.
LEMMA OneAccountOwn ==
    ASSUME Own, NEW n \in Names,
           oidcd_handleIdToken(n) \/ oidcd_handleMytoken(n)
    PROVE  Own'
  <1>1. UNCHANGED <<pending, granted>>
    BY DEF oidcd_handleIdToken, oidcd_handleMytoken
  <1>2. CASE oidcd_autoloadFails(n)
    BY <1>1, <1>2, AutoloadQuiet, QuietStep
  <1>3. ASSUME NEW a \in Accounts, NEW r \in getLoadedUnencryptedAccount(n, a),
               GetIdToken(a, r) \/ db_addAccountEncrypted(a, r)
        PROVE  Own'
    <2>1. r \in Account /\ {a} \cap Pending = {}
      BY GetByName
    <2>2. Quiet({a})
      BY <1>3, <2>1, AddQuiet, IdTokenQuiet
    <2> QED BY <1>1, <2>1, <2>2, QuietStep
  <1> QED BY <1>2, <1>3 DEF oidcd_handleIdToken, oidcd_handleMytoken

\* The ID token handler by issuer.
LEMMA IdTokenIssuerOwn ==
    ASSUME Own, NEW i \in Issuers, IdTokenForIssuer(i)
    PROVE  Own'
  <1>1. UNCHANGED <<pending, granted>>
    BY DEF IdTokenForIssuer
  <1>2. CASE autoloadForIssuerFails(i)
    BY <1>1, <1>2, AutoloadQuiet, QuietStep
  <1>3. ASSUME NEW a \in Accounts, NEW r \in getLoadedUnencryptedAccountForIssuer(i, a),
               GetIdToken(a, r) \/ db_addAccountEncrypted(a, r)
        PROVE  Own'
    <2>1. r \in Account /\ {a} \cap Pending = {}
      BY GetByIssuer
    <2>2. Quiet({a})
      BY <1>3, <2>1, AddQuiet, IdTokenQuiet
    <2> QED BY <1>1, <2>1, <2>2, QuietStep
  <1> QED BY <1>2, <1>3 DEF IdTokenForIssuer

\* Loading an account.
LEMMA AddOwn ==
    ASSUME Own, NEW n \in Names, NEW confirm \in BOOLEAN, NEW allowId \in BOOLEAN,
           NEW plain \in BOOLEAN, oidcd_handleAdd(n, confirm, allowId, plain)
    PROVE  Own'
  <1> DEFINE file == [ConfigFile(n) EXCEPT !.confirm = confirm, !.allowId = allowId]
  <1>1. file \in Account
    BY FileType DEF Account
  <1> HIDE DEF file
  <1>2. UNCHANGED <<pending, granted>>
    BY DEF oidcd_handleAdd
  <1>3. ASSUME NEW a \in Loaded(n), db_addAccountEncrypted(a, Open(heap[a]))
        PROVE  Own'
    <2>1. a \in Accounts /\ heap[a] \in Account /\ {a} \cap Pending = {}
      BY DEF Own, TypeOK, NoDangling, SingleOwner, Loaded
    <2> QED BY <1>2, <1>3, <2>1, SealType, AddQuiet, QuietStep
  <1>4. ASSUME NEW a \in Fresh,
               \/ \E q \in addAccount(file, plain) : db_addAccountEncrypted(a, q)
               \/ addAccountFails(a, file, plain)
        PROVE  Own'
    <2>1. Quiet({a})
      BY <1>1, <1>4, AddQuiet, FailQuiet, AddType, FreshFree
    <2> QED BY <1>2, <2>1, FreshFree, QuietStep
  <1> QED BY <1>3, <1>4 DEF oidcd_handleAdd, file

\* Unloading accounts.
LEMMA RemoveOwn ==
    ASSUME Own, \/ \E n \in Names : oidcd_handleRm(n) \/ oidcd_handleDelete(n)
                \/ oidcd_handleRemoveAll
                \/ removeDeathAccounts
    PROVE  Own'
  <1>1. PICK X \in SUBSET accountDB : accountDB_remove(X)
    BY DEF oidcd_handleRm, oidcd_handleDelete, oidcd_handleRemoveAll,
           removeDeathAccounts, Loaded
  <1>2. UNCHANGED <<pending, granted>>
    BY DEF oidcd_handleRm, oidcd_handleDelete, oidcd_handleRemoveAll, removeDeathAccounts
  <1> QED BY <1>1, <1>2, RemoveQuiet, QuietStep

\* Starting account creation: the new object is stored, pending or freed.
LEMMA GenOwn ==
    ASSUME Own, NEW onlyAt \in BOOLEAN, oidcd_handleGen(onlyAt)
    PROVE  Own'
  <1>1. PICK a \in Fresh, r \in Requested(onlyAt) : handleGenFlows(a, r, onlyAt, accountDB)
    BY DEF oidcd_handleGen
  <1>2. UNCHANGED <<handed, granted>>
    BY DEF oidcd_handleGen
  <1>3. r \in Account /\ r # NULL
    BY RequestedType, NullAssumption
  <1>4. a \in Accounts /\ a # NULL /\ a \notin Pending /\ a \notin accountDB
    BY FreshFree, StoreAssumption
  <1>5. CASE /\ db_addAccountEncrypted(a, [r EXCEPT !.rt = 0, !.at = TRUE])
             /\ UNCHANGED <<codeVerifierDB, deviceCodeDB, drawn>>
    <2>1. [r EXCEPT !.rt = 0, !.at = TRUE] \in Account
      BY <1>3 DEF Account
    <2> QED BY <1>2, <1>4, <1>5, <2>1, AddQuiet, QuietStep DEF pending
  <1>6. CASE /\ heap' = [heap EXCEPT ![a] = r]
             /\ accountDB' = accountDB
             /\ initAuthCodeFlow(a, onlyAt) \/ initDeviceFlow(a)
    <2>1. heap' \in [Accounts -> Account \cup {NULL}]
      BY <1>3, <1>4, <1>6 DEF Own, TypeOK
    <2>2. \A x \in Accounts : heap[x] # NULL => heap'[x] # NULL
      BY <1>3, <1>6 DEF Own, TypeOK
    <2>3. heap'[a] # NULL
      BY <1>3, <1>4, <1>6 DEF Own, TypeOK
    <2>4. \A s \in States : codeVerifierDB[s] # a
      BY <1>4 DEF Pending
    <2>5. \A d \in DeviceCodes : deviceCodeDB[d] # a
      BY <1>4 DEF Pending
    <2>6. CASE UNCHANGED <<codeVerifierDB, deviceCodeDB, drawn>>
      BY <1>2, <1>3, <1>4, <1>6, <2>6, WriteQuiet, QuietStep DEF pending
    <2>7. ASSUME NEW s \in States,
                 codeVerifierDB' = [codeVerifierDB EXCEPT ![s] = a],
                 drawn' = drawn \cup {s}, UNCHANGED deviceCodeDB
          PROVE  Own'
      <3>1. TypeOK'
        BY <1>2, <1>4, <1>6, <2>1, <2>7 DEF Own, TypeOK
      <3>2. Pending' \subseteq Pending \cup {a}
        BY <2>7 DEF Own, TypeOK, Pending
      <3>3. NoDangling'
        BY <1>6, <2>2, <2>3, <3>2 DEF Own, TypeOK, NoDangling, Pending
      <3>4. OneFlowPerAccount'
        BY <1>4, <2>4, <2>5, <2>7 DEF Own, TypeOK, SingleOwner, OneFlowPerAccount
      <3> QED BY <1>4, <1>6, <3>1, <3>2, <3>3, <3>4 DEF Own, SingleOwner
    <2>8. ASSUME NEW d \in DeviceCodes,
                 deviceCodeDB' = [deviceCodeDB EXCEPT ![d] = a],
                 UNCHANGED <<codeVerifierDB, drawn>>
          PROVE  Own'
      <3>1. TypeOK'
        BY <1>2, <1>4, <1>6, <2>1, <2>8 DEF Own, TypeOK
      <3>2. Pending' \subseteq Pending \cup {a}
        BY <2>8 DEF Own, TypeOK, Pending
      <3>3. NoDangling'
        BY <1>6, <2>2, <2>3, <3>2 DEF Own, TypeOK, NoDangling, Pending
      <3>4. OneFlowPerAccount'
        BY <1>4, <2>4, <2>5, <2>8 DEF Own, TypeOK, SingleOwner, OneFlowPerAccount
      <3> QED BY <1>4, <1>6, <3>1, <3>2, <3>3, <3>4 DEF Own, SingleOwner
    <2> QED BY <1>6, <2>6, <2>7, <2>8 DEF initAuthCodeFlow, initDeviceFlow
  <1>7. CASE /\ heap' = [heap EXCEPT ![a] = NULL]
             /\ accountDB' = accountDB
             /\ UNCHANGED <<codeVerifierDB, deviceCodeDB, drawn>>
    <2>1. heap' = heap
      BY <1>7 DEF Own, TypeOK, Fresh
    <2>2. Quiet({})
      BY <1>7, <2>1 DEF Own, TypeOK, NoDangling, Quiet
    <2> QED BY <1>2, <1>7, <2>2, QuietStep DEF pending
  <1> QED BY <1>1, <1>5, <1>6, <1>7 DEF handleGenFlows

\* A pending flow ends: its entry goes, its account is loaded or freed.
LEMMA FlowEnds ==
    ASSUME Own, NEW a \in Accounts, {a} \cap Pending' = {},
           Quiet({a}),
           Pending' \subseteq Pending \cup {NULL},
           codeVerifierDB' \in [States -> Accounts \cup {NULL}],
           deviceCodeDB' \in [DeviceCodes -> Accounts \cup {NULL}],
           OneFlowPerAccount', drawn' = drawn, handed' \in [States -> Nat],
           granted' = granted
    PROVE  Own'
  BY QuietOwn DEF Own, TypeOK

\* Freeing the object of a pending flow touches nothing else.
LEMMA FreeQuiet ==
    ASSUME Own, NEW a \in Accounts, a \in Pending, FreePending(a)
    PROVE  Quiet({a})
  BY DEF Own, TypeOK, NoDangling, SingleOwner, FreePending, Quiet

\* The code exchange.
LEMMA ExchangeOwn ==
    ASSUME Own, NEW s \in States, NEW fromGen \in BOOLEAN,
           oidcd_handleCodeExchange(s, fromGen)
    PROVE  Own'
  <1> DEFINE a == codeVerifierDB[s]
  <1>1. a # NULL /\ codeVerifierDB' = [codeVerifierDB EXCEPT ![s] = NULL]
        /\ UNCHANGED <<deviceCodeDB, drawn, granted>>
    BY DEF oidcd_handleCodeExchange
  <1>2. a \in Accounts /\ a \in Pending /\ heap[a] \in Account
    BY <1>1 DEF Own, TypeOK, NoDangling, Pending
  <1>3. codeVerifierDB' \in [States -> Accounts \cup {NULL}]
    BY <1>1 DEF Own, TypeOK
  <1>4. OneFlowPerAccount' /\ Pending' \subseteq Pending \cup {NULL}
    BY <1>1 DEF Own, TypeOK, SingleOwner, OneFlowPerAccount, Pending
  <1>5. {a} \cap Pending' = {}
    BY <1>1, <1>2 DEF Own, TypeOK, SingleOwner, OneFlowPerAccount, Pending
  <1>6. handed' \in [States -> Nat]
    <2>1. \/ handed' = handed
          \/ handed' = [handed EXCEPT ![s] = IF fromGen THEN handed[s] + 1 ELSE handed[s]]
      BY DEF oidcd_handleCodeExchange
    <2>2. (IF fromGen THEN handed[s] + 1 ELSE handed[s]) \in Nat
      BY DEF Own, TypeOK
    <2> QED BY <2>1, <2>2 DEF Own, TypeOK
  <1>7. Quiet({a})
    <2>1. CASE FreePending(a)
      BY <1>2, <2>1, FreeQuiet
    <2>2. ASSUME NEW r \in FlowSucceeds(heap[a]),
                 db_addAccountEncrypted(a, [r EXCEPT !.used = s, !.checked = @ \/ fromGen])
          PROVE  Quiet({a})
      <3>1. r \in Account
        BY <1>2, FlowType
      <3>2. (r.checked \/ fromGen) \in BOOLEAN
        OBVIOUS
      <3>3. \A b \in BOOLEAN : [r EXCEPT !.used = s, !.checked = b] \in Account
        BY <3>1 DEF Account
      <3>4. [r EXCEPT !.used = s, !.checked = @ \/ fromGen] \in Account
        BY <3>2, <3>3
      <3> QED BY <1>2, <2>2, <3>4, AddQuiet
    <2> QED BY <2>1, <2>2 DEF oidcd_handleCodeExchange, Finished
  <1> HIDE DEF a
  <1>8. deviceCodeDB' \in [DeviceCodes -> Accounts \cup {NULL}]
    BY <1>1 DEF Own, TypeOK
  <1> QED BY <1>1, <1>2, <1>3, <1>4, <1>5, <1>6, <1>7, <1>8, FlowEnds

\* The device code lookup.
LEMMA DeviceOwn ==
    ASSUME Own, NEW d \in DeviceCodes, oidcd_handleDeviceLookup(d)
    PROVE  Own'
  <1> DEFINE a == deviceCodeDB[d]
  <1>1. a # NULL /\ deviceCodeDB' = [deviceCodeDB EXCEPT ![d] = NULL]
        /\ UNCHANGED <<codeVerifierDB, drawn, handed, granted>>
    BY DEF oidcd_handleDeviceLookup
  <1>2. a \in Accounts /\ a \in Pending /\ heap[a] \in Account
    BY <1>1 DEF Own, TypeOK, NoDangling, Pending
  <1>3. deviceCodeDB' \in [DeviceCodes -> Accounts \cup {NULL}]
        /\ codeVerifierDB' \in [States -> Accounts \cup {NULL}]
        /\ handed' \in [States -> Nat]
    BY <1>1 DEF Own, TypeOK
  <1>4. OneFlowPerAccount' /\ Pending' \subseteq Pending \cup {NULL}
    BY <1>1 DEF Own, TypeOK, SingleOwner, OneFlowPerAccount, Pending
  <1>5. {a} \cap Pending' = {}
    BY <1>1, <1>2 DEF Own, TypeOK, SingleOwner, OneFlowPerAccount, Pending
  <1>6. Quiet({a})
    BY <1>2, FreeQuiet, FlowType, AddQuiet DEF oidcd_handleDeviceLookup
  <1> HIDE DEF a
  <1> QED BY <1>1, <1>2, <1>3, <1>4, <1>5, <1>6, FlowEnds

\* The state lookup.
LEMMA StateLookUpOwn ==
    ASSUME Own, NEW s \in States, oidcd_handleStateLookUp(s)
    PROVE  Own'
  <1>1. PICK a \in accountDB :
            IF heap[a].checked
            THEN db_addAccountEncrypted(a, Open(heap[a])) /\ UNCHANGED handed
            ELSE /\ handed' = [handed EXCEPT ![s] = @ + 1]
                 /\ IF s \in OnlyAtStates
                    THEN accountDB_remove({a})
                    ELSE db_addAccountEncrypted(a, [Open(heap[a]) EXCEPT !.checked = TRUE])
    BY DEF oidcd_handleStateLookUp
  <1>2. UNCHANGED <<codeVerifierDB, deviceCodeDB, drawn, granted>>
    BY DEF oidcd_handleStateLookUp
  <1>3. a \in Accounts /\ {a} \cap Pending = {} /\ Open(heap[a]) \in Account
    BY SealType DEF Own, TypeOK, NoDangling, SingleOwner
  <1>4. [Open(heap[a]) EXCEPT !.checked = TRUE] \in Account
    BY <1>3 DEF Account
  <1>5. Quiet({a}) \/ Quiet({})
    BY <1>1, <1>3, <1>4, AddQuiet, RemoveQuiet
  <1>6. handed' \in [States -> Nat]
    <2>1. handed' = handed \/ handed' = [handed EXCEPT ![s] = @ + 1]
      BY <1>1
    <2> QED BY <2>1 DEF Own, TypeOK
  <1>7. Pending' = Pending /\ OneFlowPerAccount'
    BY <1>2 DEF Own, SingleOwner, OneFlowPerAccount, Pending
  <1> QED BY <1>2, <1>3, <1>5, <1>6, <1>7, QuietOwn DEF Own, TypeOK
-----------------------------------------------------------------------------
\* The ownership discipline holds initially.
LEMMA OwnInit == Init => Own
  BY StoreAssumption DEF Init, NoGrant, Own, TypeOK, NoDangling, SingleOwner,
                         OneFlowPerAccount, Pending

\* And every step keeps it.
LEMMA OwnNext == Own /\ [Next]_vars => Own'
  <1> SUFFICES ASSUME Own, [Next]_vars PROVE Own'
    OBVIOUS
  <1>1. CASE UNCHANGED vars
    BY <1>1 DEF vars, Own, TypeOK, NoDangling, SingleOwner, OneFlowPerAccount, Pending
  <1>2. CASE Next
    BY <1>2, TokenOwn, TokenIssuerOwn, OneAccountOwn, IdTokenIssuerOwn, AddOwn,
       RemoveOwn, GenOwn, ExchangeOwn, DeviceOwn, StateLookUpOwn DEF Next
  <1> QED BY <1>1, <1>2

\* The account store keeps its types: no step leaves a record half built, an
\* encryption count below "no refresh token", or a list entry that is neither
\* an address nor NULL.
THEOREM StoreTypes == Spec => []TypeOK
  BY OwnInit, OwnNext, PTL DEF Spec, Own

\* No list points to an object that a handler, or the free function of another
\* list, has freed, whatever the provider, the user and the files answer.
\* Automatic re-authentication is not part of Spec (see module Reauthentication).
THEOREM MemorySafety == Spec => []NoDangling
  BY OwnInit, OwnNext, PTL DEF Spec, Own

\* The code list, the device code list and the account list never share an
\* account: oidcd_handleCodeExchange and oidcd_handleDeviceLookup hand it over.
THEOREM Ownership == Spec => []SingleOwner
  BY OwnInit, OwnNext, PTL DEF Spec, Own
=============================================================================
