------------------------ MODULE AccountResultProofs ------------------------
(***************************************************************************)
(* What the requests of several clients leave in the account store: every  *)
(* name and every state leads to one account, the result of a code flow is *)
(* handed over once, credentials stay encrypted and pending flows are left *)
(* alone.  Each step of the store is first brought into one of a few       *)
(* shapes; the invariants are proved per shape.                            *)
(***************************************************************************)
EXTENDS AccountStoreProofs

\* A named account has the issuer of the configuration of that name.
FromFile(r) == r.name # NULL => r.iss = IssuerOf[r.name]

IssuersKnown == \A a \in Accounts : heap[a] # NULL => FromFile(heap[a])

\* The account of a pending flow has not been loaded by a flow before.
PendingUnused ==
    \A a \in Pending \ {NULL} : heap[a].used = NULL /\ heap[a].checked = FALSE

\* What is known of a state before its flow, while its flow is pending, and
\* while the account it led to is loaded.
StatesAccounted ==
    /\ \A s \in States \ drawn : codeVerifierDB[s] = NULL /\ handed[s] = 0
    /\ \A s \in States : codeVerifierDB[s] # NULL => handed[s] = 0
    /\ \A a \in accountDB : heap[a].used # NULL =>
          /\ heap[a].used \in drawn
          /\ codeVerifierDB[heap[a].used] = NULL
          /\ handed[heap[a].used] = IF heap[a].checked THEN 1 ELSE 0

\* The result of a code flow was handed over at most once.
OneHandover == \A s \in States : handed[s] <= 1

Results ==
    /\ IssuersKnown
    /\ PendingUnused
    /\ StatesAccounted
    /\ NamesUnique
    /\ StateIdentifiesAccount
    /\ OneHandover
-----------------------------------------------------------------------------
(* The shapes of a step                                                    *)

Clear(r) == r.cid = 0 /\ r.rt \in {-1, 0}
Sealed(r) == r.cid = 1 /\ r.rt \in {-1, 1}

\* What a handler stores is encrypted, unless an ID token may be declined.
Kept(q) == AlwaysAllowId /\ EncryptedAtRest => Sealed(q)

\* q is another version of the loaded account a.
Same(a, q) ==
    /\ a \in accountDB
    /\ q.name = heap[a].name /\ q.iss = heap[a].iss /\ q.used = heap[a].used

\* q is a new account to be put at the address a.
New(a, q) == a \in Fresh /\ q.used = NULL /\ q.checked = FALSE /\ FromFile(q)

\* The account a, now with contents q, replaces what had its name.
Stored(a, q) ==
    LET old == {x \in accountDB \ {a} : heap[x].name = q.name}
    IN  /\ heap' = [x \in Accounts |-> IF x = a THEN q
                                       ELSE IF x \in old THEN NULL ELSE heap[x]]
        /\ accountDB' = (accountDB \ old) \cup {a}
        /\ Kept(q)

\* A version of a loaded account or a new account is stored, or a new one lost.
Touched(a, q) ==
    \/ Same(a, q) /\ q.checked = heap[a].checked /\ Stored(a, q)
    \/ New(a, q) /\ Stored(a, q)
    \/ New(a, q) /\ heap' = [heap EXCEPT ![a] = q] /\ accountDB' = accountDB

TouchStep == UNCHANGED pending /\ \E a \in Accounts, q \in Account : Touched(a, q)

RemoveStep == UNCHANGED pending /\ \E X \in SUBSET accountDB : accountDB_remove(X)

\* A flow begins for a new account.
BeginStep ==
    /\ \E a \in Accounts, q \in Account :
         /\ New(a, q) /\ Clear(q)
         /\ heap' = [heap EXCEPT ![a] = q]
         /\ accountDB' = accountDB
         /\ \/ /\ \E s \in States \ drawn :
                    /\ codeVerifierDB' = [codeVerifierDB EXCEPT ![s] = a]
                    /\ drawn' = drawn \cup {s}
               /\ deviceCodeDB' = deviceCodeDB
            \/ /\ \E d \in DeviceCodes :
                    /\ deviceCodeDB[d] = NULL
                    /\ deviceCodeDB' = [deviceCodeDB EXCEPT ![d] = a]
               /\ UNCHANGED <<codeVerifierDB, drawn>>
    /\ UNCHANGED handed

EndCode(s) ==
    /\ codeVerifierDB[s] # NULL
    /\ codeVerifierDB' = [codeVerifierDB EXCEPT ![s] = NULL]
    /\ UNCHANGED <<deviceCodeDB, drawn>>

EndDevice(d) ==
    /\ deviceCodeDB[d] # NULL
    /\ deviceCodeDB' = [deviceCodeDB EXCEPT ![d] = NULL]
    /\ UNCHANGED <<codeVerifierDB, drawn, handed>>

\* A flow ends in vain.
FreeStep ==
    \/ \E s \in States : EndCode(s) /\ FreePending(codeVerifierDB[s]) /\ UNCHANGED handed
    \/ \E d \in DeviceCodes : EndDevice(d) /\ FreePending(deviceCodeDB[d])

\* A flow succeeds: what it led to is stored, and handed over at once or later.
CodeStep ==
    \E s \in States, q \in Account :
        /\ EndCode(s)
        /\ FromFile(q) /\ q.used = s
        /\ Stored(codeVerifierDB[s], q)
        /\ handed' = [handed EXCEPT ![s] = IF q.checked THEN handed[s] + 1 ELSE handed[s]]

DeviceStep ==
    \E d \in DeviceCodes, q \in Account :
        /\ EndDevice(d)
        /\ FromFile(q) /\ q.used = NULL /\ q.checked = FALSE
        /\ Stored(deviceCodeDB[d], q)

\* The result of a flow is claimed.
ClaimStep ==
    /\ \E s \in States, a \in accountDB :
         /\ heap[a].used = s /\ ~heap[a].checked
         /\ handed' = [handed EXCEPT ![s] = @ + 1]
         /\ \/ accountDB_remove({a})
            \/ \E q \in Account : Same(a, q) /\ q.checked = TRUE /\ Stored(a, q)
    /\ UNCHANGED <<codeVerifierDB, deviceCodeDB, drawn>>

Step == TouchStep \/ RemoveStep \/ BeginStep \/ FreeStep \/ CodeStep \/ DeviceStep \/ ClaimStep
-----------------------------------------------------------------------------
(* What the operators on accounts leave alone                              *)

\* Encryption and decryption change the refresh token and the credentials.
LEMMA SealFields ==
    ASSUME NEW r \in Account
    PROVE  /\ \A f \in {Seal(r), Open(r)} :
                 /\ f.name = r.name /\ f.iss = r.iss /\ f.used = r.used
                 /\ f.checked = r.checked /\ f.confirm = r.confirm
           /\ Clear(r) => Sealed(Seal(r))
           /\ Sealed(r) => Clear(Open(r))
  <1>1. /\ Seal(r).rt = memoryEncrypt(r.rt) /\ Seal(r).cid = memoryEncrypt(r.cid)
        /\ Open(r).rt = memoryDecrypt(r.rt) /\ Open(r).cid = memoryDecrypt(r.cid)
    BY DEF Seal, Open, Account
  <1>2. Clear(r) => Sealed(Seal(r))
    BY <1>1 DEF Clear, Sealed, memoryEncrypt
  <1>3. Sealed(r) => Clear(Open(r))
    BY <1>1 DEF Clear, Sealed, memoryDecrypt
  <1>4. /\ Seal(r).name = r.name /\ Seal(r).iss = r.iss /\ Seal(r).used = r.used
        /\ Seal(r).checked = r.checked /\ Seal(r).confirm = r.confirm
    BY DEF Seal, Account
  <1>5. /\ Open(r).name = r.name /\ Open(r).iss = r.iss /\ Open(r).used = r.used
        /\ Open(r).checked = r.checked /\ Open(r).confirm = r.confirm
    BY DEF Open, Account
  <1> QED BY <1>2, <1>3, <1>4, <1>5

\* r and q differ in the tokens only.
SameButTokens(r, q) ==
    /\ q.name = r.name /\ q.iss = r.iss /\ q.used = r.used
    /\ q.checked = r.checked /\ q.confirm = r.confirm
    /\ Clear(r) => Clear(q)

\* The refresh flow changes the access token only.
LEMMA RefreshFields ==
    ASSUME NEW r \in Account, NEW force \in BOOLEAN,
           NEW q \in getAccessTokenUsingRefreshFlow(r, force)
    PROVE  SameButTokens(r, q)
  <1>1. q = r \/ \E x \in BOOLEAN : q = [r EXCEPT !.at = x]
    BY DEF getAccessTokenUsingRefreshFlow, Account
  <1> QED BY <1>1 DEF SameButTokens, Clear, Account

\* addAccount stores what it was given, but for the access token.
LEMMA AddFields ==
    ASSUME NEW r \in Account, NEW plain \in BOOLEAN, NEW q \in addAccount(r, plain)
    PROVE  SameButTokens(r, q)
  BY RefreshFields DEF addAccount, SameButTokens

\* A finished flow changes the tokens only.
LEMMA FlowFields ==
    ASSUME NEW r \in Account, NEW q \in FlowSucceeds(r)
    PROVE  SameButTokens(r, q)
  <1>1. r.rt \in Nat \cup {-1}
    BY DEF Account
  <1>2. PICK t \in {r.rt, 0} : q = [r EXCEPT !.at = TRUE, !.rt = t]
    BY DEF FlowSucceeds
  <1> QED BY <1>1, <1>2 DEF SameButTokens, Clear, Account

\* The configuration in a file was never loaded by a flow.
LEMMA FileFields ==
    ASSUME NEW n \in Names
    PROVE  LET r == ConfigFile(n)
           IN  /\ r.name = n /\ FromFile(r) /\ r.used = NULL /\ r.checked = FALSE
               /\ r.confirm = FALSE /\ r.iss = IssuerOf[n] /\ Clear(r)
  BY DEF ConfigFile, getAccountFromJSON, FromFile, Clear

\* Nor was what oidc-gen asks for.
LEMMA RequestedFields ==
    ASSUME NEW b \in BOOLEAN, NEW r \in Requested(b)
    PROVE  FromFile(r) /\ r.used = NULL /\ r.checked = FALSE /\ Clear(r)
  <1>1. PICK rt \in {-1, 0} : \/ \E i \in Issuers : r = getAccountFromJSON(NULL, i, rt)
                              \/ \E n \in Names : r = getAccountFromJSON(n, IssuerOf[n], rt)
    BY DEF Requested
  <1> QED BY <1>1 DEF getAccountFromJSON, FromFile, Clear
-----------------------------------------------------------------------------
(* The shapes of the token handlers' steps                                 *)

\* r is what a handler works on for the account a: the only one of its name.
Got(a, r) ==
    /\ r \in Account
    /\ (Same(a, r) /\ r.checked = heap[a].checked) \/ New(a, r)
    /\ \A x \in accountDB \ {a} : heap[x].name # r.name
    /\ EncryptedAtRest => Clear(r)

\* The account a token handler gets by its name.
LEMMA GotByName ==
    ASSUME Own, NamesUnique, NEW n \in Names, NEW a \in Accounts,
           NEW r \in getLoadedUnencryptedAccount(n, a)
    PROVE  Got(a, r)
  <1>1. CASE a \in Loaded(n)
    <2>1. r = Open(heap[a]) /\ heap[a] \in Account /\ a \in Live /\ accountDB \subseteq Live
      BY <1>1 DEF getLoadedUnencryptedAccount, Own, TypeOK, NoDangling, Loaded, Live
    <2>2. \A x \in accountDB \ {a} : heap[x].name # heap[a].name
      BY <2>1 DEF NamesUnique
    <2>3. EncryptedAtRest => Sealed(heap[a])
      BY <2>1 DEF EncryptedAtRest, Sealed
    <2> QED BY <1>1, <2>1, <2>2, <2>3, SealFields, SealType DEF Got, Same, Loaded
  <1>2. CASE a \notin Loaded(n)
    <2>1. Loaded(n) = {} /\ a \in Fresh /\ r \in addAccount(ConfigFile(n), FALSE)
      BY <1>2 DEF getLoadedUnencryptedAccount
    <2>2. r \in Account /\ SameButTokens(ConfigFile(n), r)
      BY <2>1, FileType, AddType, AddFields
    <2>3. New(a, r) /\ Clear(r) /\ r.name = n
      BY <2>1, <2>2, FileFields DEF SameButTokens, New, FromFile
    <2> QED BY <2>1, <2>2, <2>3 DEF Got, Loaded
  <1> QED BY <1>1, <1>2

\* The account a token handler gets by its issuer.
LEMMA GotByIssuer ==
    ASSUME Own, NamesUnique, IssuersKnown, NEW i \in Issuers, NEW a \in Accounts,
           NEW r \in getLoadedUnencryptedAccountForIssuer(i, a)
    PROVE  Got(a, r)
  <1>1. CASE a \in OfIssuer(i)
    <2>1. r = Open(heap[a]) /\ heap[a] \in Account /\ a \in Live /\ accountDB \subseteq Live
      BY <1>1 DEF getLoadedUnencryptedAccountForIssuer, Own, TypeOK, NoDangling, OfIssuer, Live
    <2>2. \A x \in accountDB \ {a} : heap[x].name # heap[a].name
      BY <2>1 DEF NamesUnique
    <2>3. EncryptedAtRest => Sealed(heap[a])
      BY <2>1 DEF EncryptedAtRest, Sealed
    <2> QED BY <1>1, <2>1, <2>2, <2>3, SealFields, SealType DEF Got, Same, OfIssuer
  <1>2. CASE a \notin OfIssuer(i)
    <2>1. PICK n \in Names : IssuerOf[n] = i /\ r \in addAccount(ConfigFile(n), FALSE)
      BY <1>2 DEF getLoadedUnencryptedAccountForIssuer
    <2>2. OfIssuer(i) = {} /\ a \in Fresh
      BY <1>2 DEF getLoadedUnencryptedAccountForIssuer
    <2>3. r \in Account /\ SameButTokens(ConfigFile(n), r)
      BY <2>1, FileType, AddType, AddFields
    <2>4. New(a, r) /\ Clear(r) /\ r.name = n
      BY <2>2, <2>3, FileFields DEF SameButTokens, New, FromFile
    <2>5. n # NULL /\ \A x \in accountDB : heap[x] # NULL /\ x \in Accounts
      BY StoreAssumption DEF Own, TypeOK, NoDangling
    <2>6. \A x \in accountDB : heap[x].name # n
      BY <2>1, <2>2, <2>5 DEF IssuersKnown, FromFile, OfIssuer
    <2> QED BY <2>3, <2>4, <2>6 DEF Got
  <1> QED BY <1>1, <1>2

\* Encrypting and storing what a handler worked on.
LEMMA GotStored ==
    ASSUME NEW a \in Accounts, NEW r, Got(a, r), NEW q \in Account, SameButTokens(r, q),
           db_addAccountEncrypted(a, q)
    PROVE  \E p \in Account : Touched(a, p)
  <1> DEFINE p == Seal(q)
  <1>1. p \in Account
    BY SealType
  <1>2. p.name = r.name /\ p.iss = r.iss /\ p.used = r.used /\ p.checked = r.checked
    BY SealFields DEF SameButTokens
  <1>3. Kept(p)
    BY SealFields DEF Kept, SameButTokens, Got
  <1>4. p.name = q.name
    BY SealFields
  <1>5. Stored(a, p)
    BY <1>3, <1>4 DEF Stored, db_addAccountEncrypted
  <1>6. (Same(a, p) /\ p.checked = heap[a].checked) \/ New(a, p)
    BY <1>2 DEF Got, Same, New, FromFile
  <1> HIDE DEF p
  <1> QED BY <1>1, <1>5, <1>6 DEF Touched

\* Leaving it decrypted in the list.
LEMMA GotShown ==
    ASSUME Own, NEW a \in Accounts, NEW r, Got(a, r), ~AlwaysAllowId,
           heap' = [heap EXCEPT ![a] = r], accountDB' = accountDB \cup {a}
    PROVE  \E p \in Account : Touched(a, p)
  <1>1. {x \in accountDB \ {a} : heap[x].name = r.name} = {}
    BY DEF Got
  <1>2. Stored(a, r)
    BY <1>1 DEF Stored, Kept, Own, TypeOK
  <1> QED BY <1>2 DEF Touched, Got

\* addAccount fails on a new object.
LEMMA FailTouched ==
    ASSUME NEW a \in Fresh, NEW r \in Account, NEW plain \in BOOLEAN,
           New(a, r), Clear(r), addAccountFails(a, r, plain)
    PROVE  \E p \in Account : Touched(a, p)
  <1>1. CASE heap' = [heap EXCEPT ![a] = r] /\ UNCHANGED accountDB
    BY <1>1 DEF Touched
  <1>2. CASE db_addAccountEncrypted(a, r)
    <2> DEFINE p == Seal(r)
    <2>1. p \in Account /\ New(a, p) /\ Kept(p) /\ p.name = r.name
      BY SealType, SealFields DEF New, FromFile, Kept
    <2>2. Stored(a, p)
      BY <1>2, <2>1 DEF Stored, db_addAccountEncrypted
    <2> HIDE DEF p
    <2> QED BY <2>1, <2>2 DEF Touched
  <1> QED BY <1>1, <1>2 DEF addAccountFails

\* A failing autoload.
LEMMA AutoloadTouched ==
    ASSUME \/ \E n \in Names : oidcd_autoloadFails(n)
           \/ \E i \in Issuers : autoloadForIssuerFails(i)
    PROVE  \E a \in Accounts, q \in Account : Touched(a, q)
  <1>1. PICK n \in Names, a \in Fresh : addAccountFails(a, ConfigFile(n), FALSE)
    BY DEF oidcd_autoloadFails, autoloadForIssuerFails
  <1>2. New(a, ConfigFile(n)) /\ Clear(ConfigFile(n)) /\ ConfigFile(n) \in Account
    BY FileFields, FileType DEF New
  <1> QED BY <1>1, <1>2, FailTouched DEF Fresh

\* An account differs from itself in nothing.
LEMMA SameItself == \A r : SameButTokens(r, r)
  BY DEF SameButTokens

\* Obtaining an access token or an ID token touches the one account.
LEMMA ObtainTouched ==
    ASSUME Own, NEW a \in Accounts, NEW r, Got(a, r),
           \/ \E approved \in BOOLEAN : Obtain(a, r, approved)
           \/ NoToken(a, r)
           \/ GetIdToken(a, r)
           \/ db_addAccountEncrypted(a, r)
    PROVE  \E q \in Account : Touched(a, q)
  <1>1. r \in Account
    BY DEF Got
  <1>2. CASE db_addAccountEncrypted(a, r)
    BY <1>1, <1>2, GotStored, SameItself
  <1>3. ASSUME NEW force \in BOOLEAN, NEW q \in getAccessTokenUsingRefreshFlow(r, force),
               db_addAccountEncrypted(a, q)
        PROVE  \E p \in Account : Touched(a, p)
    BY <1>1, <1>3, GotStored, RefreshFields, RefreshType
  <1>4. CASE /\ ~AlwaysAllowId
             /\ heap' = [heap EXCEPT ![a] = r]
             /\ accountDB' = accountDB \cup {a}
    BY <1>4, GotShown
  <1> QED BY <1>2, <1>3, <1>4 DEF Obtain, NoToken, GetIdToken
-----------------------------------------------------------------------------
(* The shape of every handler's step                                       *)

\* The requests for tokens.
LEMMA TokenShape ==
    ASSUME Own, Results,
           \/ \E n \in Names : \/ oidcd_handleToken(n)
                               \/ oidcd_handleIdToken(n)
                               \/ oidcd_handleMytoken(n)
           \/ \E i \in Issuers : oidcd_handleTokenIssuer(i) \/ IdTokenForIssuer(i)
    PROVE  TouchStep
  <1>1. UNCHANGED pending
    BY DEF oidcd_handleToken, oidcd_handleIdToken, oidcd_handleMytoken,
           oidcd_handleTokenIssuer, IdTokenForIssuer
  <1>2. CASE \/ \E n \in Names : oidcd_autoloadFails(n)
             \/ \E i \in Issuers : autoloadForIssuerFails(i)
    BY <1>1, <1>2, AutoloadTouched DEF TouchStep
  <1>3. ASSUME NEW a \in Accounts, NEW r, Got(a, r),
               \/ \E approved \in BOOLEAN : Obtain(a, r, approved)
               \/ NoToken(a, r)
               \/ GetIdToken(a, r)
               \/ db_addAccountEncrypted(a, r)
        PROVE  TouchStep
    BY <1>1, <1>3, ObtainTouched DEF TouchStep
  <1>4. ASSUME NEW n \in Names, NEW a \in Accounts, NEW r \in getLoadedUnencryptedAccount(n, a)
        PROVE  Got(a, r) /\ NeedsConfirmation(r) \in BOOLEAN
    BY GotByName DEF Results, NeedsConfirmation
  <1>5. ASSUME NEW i \in Issuers, NEW a \in Accounts,
               NEW r \in getLoadedUnencryptedAccountForIssuer(i, a)
        PROVE  Got(a, r) /\ AsksForIssuer(i, r) \in BOOLEAN
    BY GotByIssuer DEF Results, AsksForIssuer
  <1>6. ASSUME NEW n \in Names, \/ oidcd_handleToken(n)
                                \/ oidcd_handleIdToken(n)
                                \/ oidcd_handleMytoken(n)
        PROVE  TouchStep
    BY <1>2, <1>3, <1>4, <1>6 DEF oidcd_handleToken, oidcd_handleIdToken, oidcd_handleMytoken
  <1>7. ASSUME NEW i \in Issuers, oidcd_handleTokenIssuer(i) \/ IdTokenForIssuer(i)
        PROVE  TouchStep
    BY <1>2, <1>3, <1>5, <1>7 DEF oidcd_handleTokenIssuer, IdTokenForIssuer
  <1> QED BY <1>6, <1>7

\* Loading an account.
LEMMA AddShape ==
    ASSUME Own, Results, NEW n \in Names, NEW confirm \in BOOLEAN, NEW allowId \in BOOLEAN,
           NEW plain \in BOOLEAN, oidcd_handleAdd(n, confirm, allowId, plain)
    PROVE  TouchStep
  <1> DEFINE file == [ConfigFile(n) EXCEPT !.confirm = confirm, !.allowId = allowId]
  <1>1. file \in Account
    BY FileType DEF Account
  <1>2. /\ file.name = n /\ FromFile(file) /\ file.used = NULL /\ file.checked = FALSE
        /\ Clear(file)
    <2>1. /\ file.name = ConfigFile(n).name /\ file.iss = ConfigFile(n).iss
          /\ file.used = ConfigFile(n).used /\ file.checked = ConfigFile(n).checked
          /\ file.cid = ConfigFile(n).cid /\ file.rt = ConfigFile(n).rt
      BY FileType DEF Account
    <2> HIDE DEF file
    <2> QED BY <2>1, FileFields DEF FromFile, Clear
  <1> HIDE DEF file
  <1>3. UNCHANGED pending
    BY DEF oidcd_handleAdd
  <1>4. ASSUME NEW a \in Loaded(n), db_addAccountEncrypted(a, Open(heap[a]))
        PROVE  TouchStep
    <2>1. a \in Accounts /\ Open(heap[a]) \in getLoadedUnencryptedAccount(n, a)
      BY DEF Own, TypeOK, Loaded, getLoadedUnencryptedAccount
    <2>2. Got(a, Open(heap[a]))
      BY <2>1, GotByName DEF Results
    <2> QED BY <1>3, <1>4, <2>1, <2>2, ObtainTouched DEF TouchStep
  <1>5. ASSUME Loaded(n) = {}, NEW a \in Fresh,
               \/ \E q \in addAccount(file, plain) : db_addAccountEncrypted(a, q)
               \/ addAccountFails(a, file, plain)
        PROVE  TouchStep
    <2>1. New(a, file) /\ a \in Accounts
      BY <1>2 DEF New, Fresh
    <2>2. Got(a, file)
      BY <1>1, <1>2, <1>5, <2>1 DEF Got, Loaded
    <2> QED BY <1>1, <1>2, <1>3, <1>5, <2>1, <2>2, AddFields, AddType, GotStored, FailTouched
         DEF TouchStep
  <1> QED BY <1>4, <1>5 DEF oidcd_handleAdd, file

\* Unloading accounts.
LEMMA RemoveShape ==
    ASSUME Own, \/ \E n \in Names : oidcd_handleRm(n) \/ oidcd_handleDelete(n)
                \/ oidcd_handleRemoveAll
                \/ removeDeathAccounts
    PROVE  RemoveStep
  <1>1. UNCHANGED pending
    BY DEF oidcd_handleRm, oidcd_handleDelete, oidcd_handleRemoveAll, removeDeathAccounts
  <1>2. \E X \in SUBSET accountDB : accountDB_remove(X)
    BY DEF oidcd_handleRm, oidcd_handleDelete, oidcd_handleRemoveAll,
           removeDeathAccounts, Loaded
  <1> QED BY <1>1, <1>2 DEF RemoveStep

\* Starting account creation.
LEMMA GenShape ==
    ASSUME Own, Results, NEW onlyAt \in BOOLEAN, oidcd_handleGen(onlyAt)
    PROVE  TouchStep \/ RemoveStep \/ BeginStep
  <1>1. PICK a \in Fresh, r \in Requested(onlyAt) : handleGenFlows(a, r, onlyAt, accountDB)
    BY DEF oidcd_handleGen
  <1>2. UNCHANGED handed
    BY DEF oidcd_handleGen
  <1>3. r \in Account /\ New(a, r) /\ Clear(r) /\ a \in Accounts
    BY RequestedType, RequestedFields DEF New, Fresh
  <1>4. CASE /\ db_addAccountEncrypted(a, [r EXCEPT !.rt = 0, !.at = TRUE])
             /\ UNCHANGED <<codeVerifierDB, deviceCodeDB, drawn>>
    <2> DEFINE q == [r EXCEPT !.rt = 0, !.at = TRUE]
               p == Seal(q)
    <2>1. q \in Account
      BY <1>3 DEF Account
    <2>2. /\ q.name = r.name /\ q.iss = r.iss /\ q.used = r.used /\ q.checked = r.checked
          /\ Clear(q)
      BY <1>3 DEF Clear, Account
    <2> HIDE DEF q
    <2>3. /\ p \in Account /\ p.name = q.name /\ p.iss = q.iss /\ p.used = q.used
          /\ p.checked = q.checked /\ Sealed(p)
      BY <2>1, <2>2, SealFields, SealType
    <2>4. New(a, p)
      BY <1>3, <2>2, <2>3 DEF New, FromFile
    <2>5. db_addAccountEncrypted(a, q)
      BY <1>4 DEF q
    <2>6. Stored(a, p)
      BY <2>3, <2>5 DEF Stored, db_addAccountEncrypted, Kept
    <2> HIDE DEF p
    <2> QED BY <1>2, <1>3, <1>4, <2>3, <2>4, <2>6 DEF TouchStep, Touched, pending
  <1>5. CASE /\ heap' = [heap EXCEPT ![a] = r]
             /\ accountDB' = accountDB
             /\ initAuthCodeFlow(a, onlyAt) \/ initDeviceFlow(a)
    <2>1. CASE UNCHANGED <<codeVerifierDB, deviceCodeDB, drawn>>
      BY <1>2, <1>3, <1>5, <2>1 DEF TouchStep, Touched, pending
    <2>2. CASE ~UNCHANGED <<codeVerifierDB, deviceCodeDB, drawn>>
      BY <1>2, <1>3, <1>5, <2>2 DEF BeginStep, initAuthCodeFlow, initDeviceFlow
    <2> QED BY <2>1, <2>2
  <1>6. CASE /\ heap' = [heap EXCEPT ![a] = NULL]
             /\ accountDB' = accountDB
             /\ UNCHANGED <<codeVerifierDB, deviceCodeDB, drawn>>
    <2>1. accountDB_remove({})
      BY <1>6 DEF Own, TypeOK, Fresh, accountDB_remove
    <2> QED BY <1>2, <1>6, <2>1 DEF RemoveStep, pending
  <1> QED BY <1>1, <1>4, <1>5, <1>6 DEF handleGenFlows

\* A pending account, as its flow left it, is encrypted and stored.
LEMMA PendingStored ==
    ASSUME Own, Results, NEW a \in Pending \ {NULL}, NEW r \in FlowSucceeds(heap[a]),
           NEW q \in Account, q.name = r.name, q.iss = r.iss, q.rt = r.rt, q.cid = r.cid,
           db_addAccountEncrypted(a, q)
    PROVE  LET p == Seal(q)
           IN  /\ p \in Account /\ FromFile(p) /\ Stored(a, p)
               /\ p.used = q.used /\ p.checked = q.checked
  <1> DEFINE p == Seal(q)
  <1>1. heap[a] \in Account /\ a \in Accounts /\ heap[a] # NULL
    BY DEF Own, TypeOK, NoDangling, Pending
  <1>2. SameButTokens(heap[a], r)
    BY <1>1, FlowFields
  <1>3. EncryptedAtRest => Clear(q)
    BY <1>2 DEF EncryptedAtRest, Clear, SameButTokens
  <1>4. /\ p \in Account /\ p.name = q.name /\ p.iss = q.iss /\ p.used = q.used
        /\ p.checked = q.checked /\ Kept(p)
    BY <1>3, SealType, SealFields DEF Kept
  <1>5. FromFile(p)
    BY <1>1, <1>2, <1>4 DEF Results, IssuersKnown, FromFile, SameButTokens
  <1>6. Stored(a, p)
    BY <1>4 DEF Stored, db_addAccountEncrypted
  <1> QED BY <1>4, <1>5, <1>6

\* The code exchange.
LEMMA ExchangeShape ==
    ASSUME Own, Results, NEW s \in States, NEW fromGen \in BOOLEAN,
           oidcd_handleCodeExchange(s, fromGen)
    PROVE  FreeStep \/ CodeStep
  <1> DEFINE a == codeVerifierDB[s]
  <1>1. EndCode(s)
    BY DEF oidcd_handleCodeExchange, EndCode
  <1>2. CASE FreePending(a) /\ UNCHANGED handed
    BY <1>1, <1>2 DEF FreeStep
  <1>3. ASSUME NEW r \in FlowSucceeds(heap[a]),
               db_addAccountEncrypted(a, [r EXCEPT !.used = s, !.checked = @ \/ fromGen]),
               handed' = [handed EXCEPT ![s] = IF fromGen THEN handed[s] + 1 ELSE handed[s]]
        PROVE  CodeStep
    <2>1. a \in Pending \ {NULL} /\ heap[a] \in Account
      BY <1>1 DEF EndCode, Own, TypeOK, NoDangling, Pending
    <2>2. r \in Account /\ r.checked = FALSE
      BY <2>1, FlowType, FlowFields DEF SameButTokens, Results, PendingUnused
    <2> DEFINE q == [r EXCEPT !.used = s, !.checked = @ \/ fromGen]
               p == Seal(q)
    <2>3. q = [r EXCEPT !.used = s, !.checked = fromGen]
      BY <2>2
    <2>4. /\ q \in Account /\ q.name = r.name /\ q.iss = r.iss /\ q.rt = r.rt
          /\ q.cid = r.cid /\ q.used = s /\ q.checked = fromGen
      BY <2>2, <2>3 DEF Account
    <2>5. db_addAccountEncrypted(a, q)
      BY <1>3
    <2> HIDE DEF q
    <2>6. p \in Account /\ FromFile(p) /\ Stored(a, p) /\ p.used = s /\ p.checked = fromGen
      BY <2>1, <2>4, <2>5, PendingStored
    <2> HIDE DEF p
    <2> QED BY <1>1, <1>3, <2>6 DEF CodeStep
  <1> QED BY <1>2, <1>3 DEF oidcd_handleCodeExchange, Finished

\* The device code lookup.
LEMMA DeviceShape ==
    ASSUME Own, Results, NEW d \in DeviceCodes, oidcd_handleDeviceLookup(d)
    PROVE  FreeStep \/ DeviceStep
  <1> DEFINE a == deviceCodeDB[d]
  <1>1. EndDevice(d)
    BY DEF oidcd_handleDeviceLookup, EndDevice
  <1>2. CASE FreePending(a)
    BY <1>1, <1>2 DEF FreeStep
  <1>3. ASSUME NEW r \in FlowSucceeds(heap[a]), db_addAccountEncrypted(a, r)
        PROVE  DeviceStep
    <2>1. a \in Pending \ {NULL} /\ heap[a] \in Account
      BY <1>1 DEF EndDevice, Own, TypeOK, NoDangling, Pending
    <2>2. r \in Account /\ r.checked = FALSE /\ r.used = NULL
      BY <2>1, FlowType, FlowFields DEF SameButTokens, Results, PendingUnused
    <2> DEFINE p == Seal(r)
    <2>3. p \in Account /\ FromFile(p) /\ Stored(a, p) /\ p.used = NULL /\ p.checked = FALSE
      BY <1>3, <2>1, <2>2, PendingStored
    <2> HIDE DEF p
    <2> QED BY <1>1, <2>3 DEF DeviceStep
  <1> QED BY <1>2, <1>3 DEF oidcd_handleDeviceLookup

\* The state lookup.
LEMMA LookUpShape ==
    ASSUME Own, Results, NEW s \in States, oidcd_handleStateLookUp(s)
    PROVE  TouchStep \/ ClaimStep
  <1>1. PICK a \in accountDB :
            /\ heap[a].used = s
            /\ IF heap[a].checked
               THEN db_addAccountEncrypted(a, Open(heap[a])) /\ UNCHANGED handed
               ELSE /\ handed' = [handed EXCEPT ![s] = @ + 1]
                    /\ IF s \in OnlyAtStates
                       THEN accountDB_remove({a})
                       ELSE db_addAccountEncrypted(a, [Open(heap[a]) EXCEPT !.checked = TRUE])
    BY DEF oidcd_handleStateLookUp
  <1>2. UNCHANGED <<codeVerifierDB, deviceCodeDB, drawn>>
    BY DEF oidcd_handleStateLookUp
  <1> DEFINE r == Open(heap[a])
  <1>3. a \in Accounts /\ heap[a] \in Account /\ a \in Live
    BY DEF Own, TypeOK, NoDangling, Live
  <1>4. /\ r \in Account /\ r.name = heap[a].name /\ r.iss = heap[a].iss
        /\ r.used = heap[a].used /\ r.checked = heap[a].checked
        /\ EncryptedAtRest => Clear(r)
    BY <1>3, SealType, SealFields DEF EncryptedAtRest, Sealed
  <1> HIDE DEF r
  <1>5. ASSUME NEW q \in Account, q.name = r.name, q.iss = r.iss, q.used = r.used,
               q.rt = r.rt, q.cid = r.cid, db_addAccountEncrypted(a, q)
        PROVE  LET p == Seal(q)
               IN  p \in Account /\ Same(a, p) /\ Stored(a, p) /\ p.checked = q.checked
    <2> DEFINE p == Seal(q)
    <2>1. EncryptedAtRest => Clear(q)
      BY <1>4, <1>5 DEF Clear
    <2>2. /\ p \in Account /\ p.name = q.name /\ p.iss = q.iss /\ p.used = q.used
          /\ p.checked = q.checked /\ Kept(p)
      BY <2>1, SealType, SealFields DEF Kept
    <2>3. Stored(a, p) /\ Same(a, p)
      BY <1>4, <1>5, <2>2 DEF Stored, db_addAccountEncrypted, Same
    <2> QED BY <2>2, <2>3
  <1>6. CASE heap[a].checked
    <2> DEFINE p == Seal(r)
    <2>1. p \in Account /\ Same(a, p) /\ Stored(a, p) /\ p.checked = heap[a].checked
      BY <1>1, <1>4, <1>5, <1>6 DEF r
    <2> HIDE DEF p
    <2> QED BY <1>1, <1>2, <1>3, <1>6, <2>1 DEF TouchStep, Touched, pending
  <1>7. CASE ~heap[a].checked /\ s \notin OnlyAtStates
    <2> DEFINE q == [r EXCEPT !.checked = TRUE]
               p == Seal(q)
    <2>1. /\ q \in Account /\ q.name = r.name /\ q.iss = r.iss /\ q.used = r.used
          /\ q.rt = r.rt /\ q.cid = r.cid /\ q.checked = TRUE
      BY <1>4 DEF Account
    <2>2. db_addAccountEncrypted(a, q)
      BY <1>1, <1>7 DEF r
    <2> HIDE DEF q
    <2>3. p \in Account /\ Same(a, p) /\ Stored(a, p) /\ p.checked = TRUE
      BY <1>5, <2>1, <2>2
    <2> HIDE DEF p
    <2> QED BY <1>1, <1>2, <1>7, <2>3 DEF ClaimStep
  <1>8. CASE ~heap[a].checked /\ s \in OnlyAtStates
    BY <1>1, <1>2, <1>8 DEF ClaimStep
  <1> QED BY <1>6, <1>7, <1>8

\* Every step of the store has one of the shapes.
LEMMA NextShape ==
    ASSUME Own, Results, Next
    PROVE  Step
  BY TokenShape, AddShape, RemoveShape, GenShape, ExchangeShape, DeviceShape, LookUpShape
     DEF Next, Step
-----------------------------------------------------------------------------
(* The shapes keep the invariant                                           *)

\* Storing an account whose state leads to no other account.
LEMMA StoredLists ==
    ASSUME Own, Results, Own', NEW a \in Accounts, NEW q \in Account, Stored(a, q),
           FromFile(q),
           q.used # NULL => \A x \in accountDB \ {a} : heap[x].used # q.used
    PROVE  /\ IssuersKnown' /\ NamesUnique' /\ StateIdentifiesAccount'
           /\ \A x \in accountDB' \ {a} : x \in accountDB /\ heap'[x] = heap[x]
           /\ heap'[a] = q
           /\ \A x \in Accounts \ (accountDB \cup {a}) : heap'[x] = heap[x]
  <1> DEFINE old == {x \in accountDB \ {a} : heap[x].name = q.name}
  <1>1. /\ \A x \in Accounts : heap'[x] = IF x = a THEN q
                                          ELSE IF x \in old THEN NULL ELSE heap[x]
        /\ accountDB' = (accountDB \ old) \cup {a}
    BY DEF Stored
  <1>2. /\ \A x \in accountDB' \ {a} : x \in accountDB /\ heap'[x] = heap[x] /\ heap[x].name # q.name
        /\ heap'[a] = q
        /\ \A x \in Accounts \ (accountDB \cup {a}) : heap'[x] = heap[x]
    BY <1>1 DEF Own, TypeOK
  <1>3. IssuersKnown'
    BY <1>1 DEF Results, IssuersKnown
  <1>4. Live' = accountDB' /\ Live = accountDB
    BY DEF Own, NoDangling, Live
  <1>5. NamesUnique'
    BY <1>2, <1>4 DEF Results, NamesUnique
  <1>6. StateIdentifiesAccount'
    BY <1>2, <1>4 DEF Results, StateIdentifiesAccount
  <1> QED BY <1>2, <1>3, <1>5, <1>6

\* Accounts that leave the list, or are never in it.
LEMMA FewerLists ==
    ASSUME Own, Results, Own', accountDB' \subseteq accountDB,
           \A x \in accountDB' : heap'[x] = heap[x],
           \A x \in Accounts : heap'[x] # NULL => heap'[x] = heap[x] \/ FromFile(heap'[x])
    PROVE  IssuersKnown' /\ NamesUnique' /\ StateIdentifiesAccount'
  <1>1. Live' = accountDB' /\ Live = accountDB
    BY DEF Own, NoDangling, Live
  <1>2. IssuersKnown'
    BY DEF Results, IssuersKnown
  <1>3. NamesUnique'
    BY <1>1 DEF Results, NamesUnique
  <1>4. StateIdentifiesAccount'
    BY <1>1 DEF Results, StateIdentifiesAccount
  <1> QED BY <1>2, <1>3, <1>4

\* No list is left with an account that flows and lookups have not.
LEMMA TouchResults ==
    ASSUME Own, Results, Own', TouchStep
    PROVE  Results'
  <1>1. UNCHANGED <<codeVerifierDB, deviceCodeDB, drawn, handed>>
    BY DEF TouchStep, pending
  <1>2. Pending' = Pending /\ OneHandover'
    BY <1>1 DEF Pending, Results, OneHandover
  <1>3. PICK a \in Accounts, q \in Account : Touched(a, q)
    BY DEF TouchStep
  <1>4. a \notin Pending
    BY <1>3, FreshFree DEF Touched, Same, New, Own, SingleOwner
  <1>5. \A x \in Pending \ {NULL} : x \in Accounts /\ x \notin accountDB
    BY DEF Own, TypeOK, SingleOwner, Pending
  <1>6. CASE Stored(a, q)
    <2>1. FromFile(q)
      BY <1>3 DEF Touched, Same, New, FromFile, Results, IssuersKnown, Own, NoDangling
    <2>2. q.used # NULL => a \in accountDB /\ q.used = heap[a].used
      BY <1>3 DEF Touched, Same, New
    <2>3. q.used # NULL => \A x \in accountDB \ {a} : heap[x].used # q.used
      BY <2>2 DEF Results, StateIdentifiesAccount, Live, Own, NoDangling
    <2>4. /\ IssuersKnown' /\ NamesUnique' /\ StateIdentifiesAccount'
          /\ \A x \in accountDB' \ {a} : x \in accountDB /\ heap'[x] = heap[x]
          /\ heap'[a] = q
          /\ \A x \in Accounts \ (accountDB \cup {a}) : heap'[x] = heap[x]
      BY <1>6, <2>1, <2>3, StoredLists
    <2>5. q.used # NULL => q.checked = heap[a].checked
      BY <1>3 DEF Touched, New
    <2>6. StatesAccounted'
      <3>1. \A x \in accountDB' : heap'[x].used # NULL =>
               x \in accountDB /\ heap'[x].used = heap[x].used /\ heap'[x].checked = heap[x].checked
        BY <2>2, <2>4, <2>5
      <3> QED BY <1>1, <3>1 DEF Results, StatesAccounted
    <2>7. PendingUnused'
      BY <1>2, <1>4, <1>5, <2>4 DEF Results, PendingUnused
    <2> QED BY <1>2, <2>4, <2>6, <2>7 DEF Results
  <1>7. CASE New(a, q) /\ heap' = [heap EXCEPT ![a] = q] /\ accountDB' = accountDB
    <2>1. a \notin accountDB
      BY <1>7, FreshFree DEF New
    <2>2. \A x \in Accounts : heap'[x] = IF x = a THEN q ELSE heap[x]
      BY <1>7 DEF Own, TypeOK
    <2>3. IssuersKnown' /\ NamesUnique' /\ StateIdentifiesAccount'
      BY <1>7, <2>1, <2>2, FewerLists DEF New, Own, TypeOK
    <2>4. StatesAccounted'
      BY <1>1, <1>7, <2>1, <2>2 DEF Results, StatesAccounted, Own, TypeOK
    <2>5. PendingUnused'
      BY <1>2, <1>4, <1>5, <2>2 DEF Results, PendingUnused
    <2> QED BY <1>2, <2>3, <2>4, <2>5 DEF Results
  <1> QED BY <1>3, <1>6, <1>7 DEF Touched

\* Unloading accounts.
LEMMA RemoveResults ==
    ASSUME Own, Results, Own', RemoveStep
    PROVE  Results'
  <1>1. UNCHANGED <<codeVerifierDB, deviceCodeDB, drawn, handed>>
    BY DEF RemoveStep, pending
  <1>2. Pending' = Pending /\ OneHandover'
    BY <1>1 DEF Pending, Results, OneHandover
  <1>3. PICK X \in SUBSET accountDB : accountDB_remove(X)
    BY DEF RemoveStep
  <1>4. /\ \A x \in Accounts : heap'[x] = IF x \in X THEN NULL ELSE heap[x]
        /\ accountDB' = accountDB \ X
    BY <1>3 DEF accountDB_remove
  <1>5. IssuersKnown' /\ NamesUnique' /\ StateIdentifiesAccount'
    BY <1>4, FewerLists DEF Own, TypeOK
  <1>6. StatesAccounted'
    BY <1>1, <1>4 DEF Results, StatesAccounted, Own, TypeOK
  <1>7. \A x \in Pending \ {NULL} : x \in Accounts /\ x \notin accountDB
    BY DEF Own, TypeOK, SingleOwner, Pending
  <1>8. PendingUnused'
    BY <1>2, <1>4, <1>7 DEF Results, PendingUnused
  <1> QED BY <1>2, <1>5, <1>6, <1>8 DEF Results

\* Starting a flow.
LEMMA BeginResults ==
    ASSUME Own, Results, Own', BeginStep
    PROVE  Results'
  <1>1. PICK a \in Accounts, q \in Account :
         /\ New(a, q) /\ Clear(q)
         /\ heap' = [heap EXCEPT ![a] = q]
         /\ accountDB' = accountDB
         /\ \/ /\ \E s \in States \ drawn :
                    /\ codeVerifierDB' = [codeVerifierDB EXCEPT ![s] = a]
                    /\ drawn' = drawn \cup {s}
               /\ deviceCodeDB' = deviceCodeDB
            \/ /\ \E d \in DeviceCodes :
                    /\ deviceCodeDB[d] = NULL
                    /\ deviceCodeDB' = [deviceCodeDB EXCEPT ![d] = a]
               /\ UNCHANGED <<codeVerifierDB, drawn>>
    BY DEF BeginStep
  <1>2. UNCHANGED handed
    BY DEF BeginStep
  <1>3. a \notin accountDB /\ \A x \in Accounts : heap'[x] = IF x = a THEN q ELSE heap[x]
    BY <1>1, FreshFree DEF New, Own, TypeOK
  <1>4. IssuersKnown' /\ NamesUnique' /\ StateIdentifiesAccount'
    BY <1>1, <1>3, FewerLists DEF New, Own, TypeOK
  <1>5. OneHandover'
    BY <1>2 DEF Results, OneHandover
  <1>6. Pending' \subseteq Pending \cup {a}
    BY <1>1 DEF Own, TypeOK, Pending
  <1>7. Pending' \subseteq Accounts \cup {NULL}
    BY DEF Own, TypeOK, Pending
  <1>8. PendingUnused'
    BY <1>1, <1>3, <1>6, <1>7 DEF Results, PendingUnused, New
  <1>9. /\ drawn \subseteq drawn'
        /\ \A s \in States : \/ codeVerifierDB'[s] = codeVerifierDB[s]
                             \/ s \in drawn' \ drawn
    BY <1>1 DEF Own, TypeOK
  <1>10. StatesAccounted'
    <2>1. \A s \in States \ drawn' : codeVerifierDB'[s] = NULL /\ handed'[s] = 0
      BY <1>2, <1>9 DEF Results, StatesAccounted
    <2>2. \A s \in States : codeVerifierDB'[s] # NULL => handed'[s] = 0
      BY <1>2, <1>9 DEF Results, StatesAccounted
    <2>3. \A x \in accountDB' : x \in accountDB /\ heap'[x] = heap[x]
      BY <1>1, <1>3 DEF Own, TypeOK
    <2>4. \A x \in accountDB : heap[x].used # NULL =>
            heap[x].used \in drawn' /\ codeVerifierDB'[heap[x].used] = NULL
      BY <1>9 DEF Results, StatesAccounted, Own, TypeOK
    <2> QED BY <1>2, <2>1, <2>2, <2>3, <2>4 DEF Results, StatesAccounted
  <1> QED BY <1>4, <1>5, <1>8, <1>10 DEF Results

\* What the end of a flow leaves in the lists of pending flows.
LEMMA EndPending ==
    ASSUME Own, NEW a, \/ \E s \in States : EndCode(s) /\ a = codeVerifierDB[s]
                       \/ \E d \in DeviceCodes : EndDevice(d) /\ a = deviceCodeDB[d]
    PROVE  /\ a \in Accounts /\ a \in Pending /\ a \notin accountDB /\ heap[a] \in Account
           /\ Pending' \subseteq Pending \cup {NULL} /\ a \notin Pending'
           /\ drawn' = drawn
           /\ \A t \in States : codeVerifierDB'[t] \in {codeVerifierDB[t], NULL}
           /\ \A x \in Pending \ {NULL} : x \in Accounts /\ x \notin accountDB
  <1>1. \A x \in Pending \ {NULL} : x \in Accounts /\ x \notin accountDB /\ heap[x] \in Account
    BY DEF Own, TypeOK, SingleOwner, NoDangling, Pending
  <1>2. CASE \E s \in States : EndCode(s) /\ a = codeVerifierDB[s]
    <2>1. PICK s \in States : EndCode(s) /\ a = codeVerifierDB[s]
      BY <1>2
    <2>2. /\ a \in Pending \ {NULL}
          /\ \A t \in States : codeVerifierDB'[t] = IF t = s THEN NULL ELSE codeVerifierDB[t]
          /\ deviceCodeDB' = deviceCodeDB /\ drawn' = drawn
      BY <2>1 DEF EndCode, Pending, Own, TypeOK
    <2>3. Pending' \subseteq Pending \cup {NULL}
      BY <2>2 DEF Pending
    <2>4. a \notin Pending'
      BY <2>1, <2>2 DEF Pending, Own, SingleOwner, OneFlowPerAccount
    <2> QED BY <1>1, <2>2, <2>3, <2>4
  <1>3. CASE \E d \in DeviceCodes : EndDevice(d) /\ a = deviceCodeDB[d]
    <2>1. PICK d \in DeviceCodes : EndDevice(d) /\ a = deviceCodeDB[d]
      BY <1>3
    <2>2. /\ a \in Pending \ {NULL}
          /\ \A e \in DeviceCodes : deviceCodeDB'[e] = IF e = d THEN NULL ELSE deviceCodeDB[e]
          /\ codeVerifierDB' = codeVerifierDB /\ drawn' = drawn
      BY <2>1 DEF EndDevice, Pending, Own, TypeOK
    <2>3. Pending' \subseteq Pending \cup {NULL}
      BY <2>2 DEF Pending
    <2>4. a \notin Pending'
      BY <2>1, <2>2 DEF Pending, Own, SingleOwner, OneFlowPerAccount
    <2> QED BY <1>1, <2>2, <2>3, <2>4
  <1> QED BY <1>2, <1>3

\* A flow that ends in vain.
LEMMA FreeResults ==
    ASSUME Own, Results, Own', FreeStep
    PROVE  Results'
  <1>1. PICK a : /\ \/ \E s \in States : EndCode(s) /\ a = codeVerifierDB[s]
                    \/ \E d \in DeviceCodes : EndDevice(d) /\ a = deviceCodeDB[d]
                 /\ FreePending(a) /\ handed' = handed
    BY DEF FreeStep, EndDevice
  <1>2. /\ a \in Accounts /\ a \in Pending /\ a \notin accountDB
        /\ Pending' \subseteq Pending \cup {NULL} /\ a \notin Pending'
        /\ drawn' = drawn
        /\ \A t \in States : codeVerifierDB'[t] \in {codeVerifierDB[t], NULL}
        /\ \A x \in Pending \ {NULL} : x \in Accounts /\ x \notin accountDB
    BY <1>1, EndPending
  <1>3. accountDB' = accountDB /\ \A x \in Accounts : heap'[x] = IF x = a THEN NULL ELSE heap[x]
    BY <1>1 DEF FreePending, Own, TypeOK
  <1>4. IssuersKnown' /\ NamesUnique' /\ StateIdentifiesAccount'
    BY <1>2, <1>3, FewerLists DEF Own, TypeOK
  <1>5. OneHandover'
    BY <1>1 DEF Results, OneHandover
  <1>6. PendingUnused'
    BY <1>2, <1>3 DEF Results, PendingUnused
  <1>7. StatesAccounted'
    <2>1. \A x \in accountDB' : x \in accountDB /\ heap'[x] = heap[x]
      BY <1>2, <1>3 DEF Own, TypeOK
    <2>2. \A x \in accountDB : heap[x].used # NULL => heap[x].used \in States
      BY DEF Results, StatesAccounted, Own, TypeOK
    <2> QED BY <1>1, <1>2, <2>1, <2>2 DEF Results, StatesAccounted
  <1> QED BY <1>4, <1>5, <1>6, <1>7 DEF Results

\* A code flow that succeeds.
LEMMA CodeResults ==
    ASSUME Own, Results, Own', CodeStep
    PROVE  Results'
  <1>1. PICK s \in States, q \in Account :
        /\ EndCode(s)
        /\ FromFile(q) /\ q.used = s
        /\ Stored(codeVerifierDB[s], q)
        /\ handed' = [handed EXCEPT ![s] = IF q.checked THEN handed[s] + 1 ELSE handed[s]]
    BY DEF CodeStep
  <1> DEFINE a == codeVerifierDB[s]
  <1>2. /\ a \in Accounts /\ a \in Pending /\ a \notin accountDB
        /\ Pending' \subseteq Pending \cup {NULL} /\ a \notin Pending'
        /\ drawn' = drawn
        /\ \A t \in States : codeVerifierDB'[t] \in {codeVerifierDB[t], NULL}
        /\ \A x \in Pending \ {NULL} : x \in Accounts /\ x \notin accountDB
    BY <1>1, EndPending
  <1>3. /\ s \in drawn /\ handed[s] = 0 /\ codeVerifierDB[s] # NULL
        /\ \A x \in accountDB : heap[x].used # s
    BY <1>1, StoreAssumption DEF EndCode, Results, StatesAccounted, Own, TypeOK
  <1>4. codeVerifierDB'[s] = NULL
    BY <1>1 DEF EndCode, Own, TypeOK
  <1>5. Stored(a, q)
    BY <1>1
  <1> HIDE DEF a
  <1>6. /\ IssuersKnown' /\ NamesUnique' /\ StateIdentifiesAccount'
        /\ \A x \in accountDB' \ {a} : x \in accountDB /\ heap'[x] = heap[x]
        /\ heap'[a] = q
        /\ \A x \in Accounts \ (accountDB \cup {a}) : heap'[x] = heap[x]
    BY <1>1, <1>2, <1>3, <1>5, StoredLists
  <1>7. \A t \in States : handed'[t] = IF t = s THEN (IF q.checked THEN 1 ELSE 0) ELSE handed[t]
    BY <1>1, <1>3 DEF Own, TypeOK
  <1>8. OneHandover'
    BY <1>7 DEF Results, OneHandover
  <1>9. PendingUnused'
    BY <1>2, <1>6 DEF Results, PendingUnused
  <1>10. StatesAccounted'
    <2>1. \A t \in States \ drawn' : codeVerifierDB'[t] = NULL /\ handed'[t] = 0
      BY <1>2, <1>3, <1>7 DEF Results, StatesAccounted
    <2>2. \A t \in States : codeVerifierDB'[t] # NULL => handed'[t] = 0
      BY <1>2, <1>4, <1>7 DEF Results, StatesAccounted
    <2>3. ASSUME NEW x \in accountDB', heap'[x].used # NULL
          PROVE  /\ heap'[x].used \in drawn'
                 /\ codeVerifierDB'[heap'[x].used] = NULL
                 /\ handed'[heap'[x].used] = IF heap'[x].checked THEN 1 ELSE 0
      <3>1. CASE x = a
        BY <1>1, <1>2, <1>3, <1>4, <1>6, <1>7, <3>1
      <3>2. CASE x # a
        <4>1. x \in accountDB /\ heap'[x] = heap[x] /\ heap[x].used # s
          BY <1>3, <1>6, <3>2
        <4>2. heap[x].used \in States
          BY <2>3, <4>1 DEF Results, StatesAccounted, Own, TypeOK
        <4> QED BY <1>2, <1>7, <2>3, <4>1, <4>2 DEF Results, StatesAccounted
      <3> QED BY <3>1, <3>2
    <2> QED BY <2>1, <2>2, <2>3 DEF StatesAccounted
  <1> QED BY <1>6, <1>8, <1>9, <1>10 DEF Results

\* A device flow that succeeds.
LEMMA DeviceResults ==
    ASSUME Own, Results, Own', DeviceStep
    PROVE  Results'
  <1>1. PICK d \in DeviceCodes, q \in Account :
        /\ EndDevice(d)
        /\ FromFile(q) /\ q.used = NULL /\ q.checked = FALSE
        /\ Stored(deviceCodeDB[d], q)
    BY DEF DeviceStep
  <1> DEFINE a == deviceCodeDB[d]
  <1>2. /\ a \in Accounts /\ a \in Pending /\ a \notin accountDB
        /\ Pending' \subseteq Pending \cup {NULL} /\ a \notin Pending'
        /\ \A x \in Pending \ {NULL} : x \in Accounts /\ x \notin accountDB
    BY <1>1, EndPending
  <1>3. UNCHANGED <<codeVerifierDB, drawn, handed>>
    BY <1>1 DEF EndDevice
  <1>4. Stored(a, q)
    BY <1>1
  <1> HIDE DEF a
  <1>5. /\ IssuersKnown' /\ NamesUnique' /\ StateIdentifiesAccount'
        /\ \A x \in accountDB' \ {a} : x \in accountDB /\ heap'[x] = heap[x]
        /\ heap'[a] = q
        /\ \A x \in Accounts \ (accountDB \cup {a}) : heap'[x] = heap[x]
    BY <1>1, <1>2, <1>4, StoredLists
  <1>6. OneHandover'
    BY <1>3 DEF Results, OneHandover
  <1>7. PendingUnused'
    BY <1>2, <1>5 DEF Results, PendingUnused
  <1>8. StatesAccounted'
    BY <1>1, <1>3, <1>5 DEF Results, StatesAccounted
  <1> QED BY <1>5, <1>6, <1>7, <1>8 DEF Results

\* A result that is claimed.
LEMMA ClaimResults ==
    ASSUME Own, Results, Own', ClaimStep
    PROVE  Results'
  <1>1. PICK s \in States, a \in accountDB :
         /\ heap[a].used = s /\ ~heap[a].checked
         /\ handed' = [handed EXCEPT ![s] = @ + 1]
         /\ \/ accountDB_remove({a})
            \/ \E q \in Account : Same(a, q) /\ q.checked = TRUE /\ Stored(a, q)
    BY DEF ClaimStep
  <1>2. UNCHANGED <<codeVerifierDB, deviceCodeDB, drawn>>
    BY DEF ClaimStep
  <1>3. Pending' = Pending
    BY <1>2 DEF Pending
  <1>4. s # NULL /\ a \in Accounts /\ heap[a] \in Account
    BY StoreAssumption DEF Own, TypeOK, NoDangling
  <1>5. s \in drawn /\ handed[s] = 0 /\ codeVerifierDB[s] = NULL
    BY <1>1, <1>4 DEF Results, StatesAccounted
  <1>6. \A t \in States : handed'[t] = IF t = s THEN 1 ELSE handed[t]
    BY <1>1, <1>5 DEF Own, TypeOK
  <1>7. OneHandover'
    BY <1>6 DEF Results, OneHandover
  <1>8. \A x \in accountDB \ {a} : heap[x].used # s
    BY <1>1, <1>4 DEF Results, StateIdentifiesAccount, Live, Own, NoDangling
  <1>9. \A x \in Pending \ {NULL} : x \in Accounts /\ x \notin accountDB
    BY DEF Own, TypeOK, SingleOwner, Pending
  <1>10. ASSUME \A x \in accountDB' \ {a} : x \in accountDB /\ heap'[x] = heap[x],
                a \in accountDB' => heap'[a].used = s /\ heap'[a].checked = TRUE
         PROVE  StatesAccounted'
    <2>1. \A t \in States \ drawn' : codeVerifierDB'[t] = NULL /\ handed'[t] = 0
      BY <1>2, <1>5, <1>6 DEF Results, StatesAccounted
    <2>2. \A t \in States : codeVerifierDB'[t] # NULL => handed'[t] = 0
      BY <1>2, <1>5, <1>6 DEF Results, StatesAccounted
    <2>3. ASSUME NEW x \in accountDB', heap'[x].used # NULL
          PROVE  /\ heap'[x].used \in drawn'
                 /\ codeVerifierDB'[heap'[x].used] = NULL
                 /\ handed'[heap'[x].used] = IF heap'[x].checked THEN 1 ELSE 0
      <3>1. CASE x = a
        BY <1>2, <1>5, <1>6, <1>10, <3>1
      <3>2. CASE x # a
        <4>1. x \in accountDB /\ heap'[x] = heap[x] /\ heap[x].used # s
          BY <1>8, <1>10, <3>2
        <4>2. heap[x].used \in States
          BY <2>3, <4>1 DEF Results, StatesAccounted, Own, TypeOK
        <4> QED BY <1>2, <1>6, <2>3, <4>1, <4>2 DEF Results, StatesAccounted
      <3> QED BY <3>1, <3>2
    <2> QED BY <2>1, <2>2, <2>3 DEF StatesAccounted
  <1>11. CASE accountDB_remove({a})
    <2>1. /\ accountDB' = accountDB \ {a}
          /\ \A x \in Accounts : heap'[x] = IF x = a THEN NULL ELSE heap[x]
      BY <1>11 DEF accountDB_remove
    <2>2. IssuersKnown' /\ NamesUnique' /\ StateIdentifiesAccount'
      BY <2>1, FewerLists DEF Own, TypeOK
    <2>3. PendingUnused'
      BY <1>3, <1>9, <2>1 DEF Results, PendingUnused
    <2>4. StatesAccounted'
      BY <1>10, <2>1 DEF Own, TypeOK
    <2> QED BY <1>7, <2>2, <2>3, <2>4 DEF Results
  <1>12. ASSUME NEW q \in Account, Same(a, q), q.checked = TRUE, Stored(a, q)
         PROVE  Results'
    <2>1. FromFile(q) /\ q.used = s
      BY <1>1, <1>4, <1>12, NullAssumption DEF Same, FromFile, Results, IssuersKnown
    <2>2. /\ IssuersKnown' /\ NamesUnique' /\ StateIdentifiesAccount'
          /\ \A x \in accountDB' \ {a} : x \in accountDB /\ heap'[x] = heap[x]
          /\ heap'[a] = q
          /\ \A x \in Accounts \ (accountDB \cup {a}) : heap'[x] = heap[x]
      BY <1>4, <1>8, <1>12, <2>1, StoredLists
    <2>3. PendingUnused'
      BY <1>3, <1>9, <2>2 DEF Results, PendingUnused
    <2>4. StatesAccounted'
      BY <1>10, <1>12, <2>1, <2>2
    <2> QED BY <1>7, <2>2, <2>3, <2>4 DEF Results
  <1> QED BY <1>1, <1>11, <1>12

\* The invariant holds initially.
LEMMA ResultsInit == Init => Results
  BY StoreAssumption
     DEF Init, Results, IssuersKnown, PendingUnused, StatesAccounted, NamesUnique,
         StateIdentifiesAccount, OneHandover, Pending, Live

\* Every step keeps it.
LEMMA ResultsNext == Own /\ Results /\ [Next]_vars => Results'
  <1> SUFFICES ASSUME Own, Results, [Next]_vars PROVE Results'
    OBVIOUS
  <1>1. Own'
    BY OwnNext
  <1>2. CASE UNCHANGED vars
    BY <1>2 DEF vars, Results, IssuersKnown, PendingUnused, StatesAccounted, NamesUnique,
                StateIdentifiesAccount, OneHandover, Pending, Live
  <1>3. CASE Next
    BY <1>1, <1>3, NextShape, TouchResults, RemoveResults, BeginResults, FreeResults,
       CodeResults, DeviceResults, ClaimResults DEF Step
  <1> QED BY <1>2, <1>3
-----------------------------------------------------------------------------
(* Encryption, pending flows and results                                   *)

\* When no ID token can be declined, every step leaves the loaded accounts
\* encrypted once and the pending ones in the clear.
LEMMA EncryptedNext ==
    ASSUME AlwaysAllowId, Own, Results, EncryptedAtRest, [Next]_vars
    PROVE  EncryptedAtRest'
  <1>1. Own'
    BY OwnNext
  <1>2. Live = accountDB /\ Live' = accountDB'
    BY <1>1 DEF Own, NoDangling, Live
  <1>3. \A x \in Pending \ {NULL} : x \in Accounts /\ x \notin accountDB
    BY DEF Own, TypeOK, SingleOwner, Pending
  <1>4. Pending' \subseteq Accounts \cup {NULL}
    BY <1>1 DEF Own, TypeOK, Pending
  <1> SUFFICES /\ \A x \in accountDB' : Sealed(heap'[x])
               /\ \A x \in Pending' \ {NULL} : Clear(heap'[x])
    BY <1>2 DEF EncryptedAtRest, Sealed, Clear
  <1>5. /\ \A x \in accountDB : Sealed(heap[x])
        /\ \A x \in Pending \ {NULL} : Clear(heap[x])
    BY <1>2 DEF EncryptedAtRest, Sealed, Clear
  <1>6. ASSUME NEW a \in Accounts, NEW q, Stored(a, q)
        PROVE  /\ \A x \in accountDB' : Sealed(heap'[x])
               /\ \A x \in Accounts \ (accountDB \cup {a}) : heap'[x] = heap[x]
    <2>1. Sealed(q)
      BY <1>6 DEF Stored, Kept
    <2> QED BY <1>5, <1>6, <2>1 DEF Stored, Own, TypeOK
  <1>7. ASSUME NEW X \in SUBSET accountDB, accountDB_remove(X)
        PROVE  /\ \A x \in accountDB' : Sealed(heap'[x])
               /\ \A x \in Accounts \ accountDB : heap'[x] = heap[x]
    BY <1>5, <1>7 DEF accountDB_remove, Own, TypeOK
  <1>8. CASE UNCHANGED vars
    BY <1>5, <1>8 DEF vars, Pending
  <1>9. CASE TouchStep
    <2>1. Pending' = Pending
      BY <1>9 DEF TouchStep, pending, Pending
    <2>2. PICK a \in Accounts, q \in Account : Touched(a, q)
      BY <1>9 DEF TouchStep
    <2>3. a \notin Pending
      BY <2>2, FreshFree DEF Touched, Same, New, Own, SingleOwner
    <2>4. CASE Stored(a, q)
      BY <1>3, <1>5, <1>6, <2>1, <2>3, <2>4
    <2>5. CASE New(a, q) /\ heap' = [heap EXCEPT ![a] = q] /\ accountDB' = accountDB
      <3>1. a \notin accountDB
        BY <2>5, FreshFree DEF New
      <3> QED BY <1>3, <1>5, <2>1, <2>3, <2>5, <3>1 DEF Own, TypeOK
    <2> QED BY <2>2, <2>4, <2>5 DEF Touched
  <1>10. CASE RemoveStep
    <2>1. Pending' = Pending
      BY <1>10 DEF RemoveStep, pending, Pending
    <2> QED BY <1>3, <1>5, <1>7, <1>10, <2>1 DEF RemoveStep
  <1>11. CASE BeginStep
    <2>1. PICK a \in Accounts, q \in Account :
            /\ New(a, q) /\ Clear(q)
            /\ heap' = [heap EXCEPT ![a] = q]
            /\ accountDB' = accountDB
            /\ \/ /\ \E s \in States : codeVerifierDB' = [codeVerifierDB EXCEPT ![s] = a]
                  /\ deviceCodeDB' = deviceCodeDB
               \/ /\ \E d \in DeviceCodes : deviceCodeDB' = [deviceCodeDB EXCEPT ![d] = a]
                  /\ codeVerifierDB' = codeVerifierDB
      BY <1>11 DEF BeginStep
    <2>2. Pending' \subseteq Pending \cup {a}
      BY <2>1 DEF Own, TypeOK, Pending
    <2>3. a \notin accountDB
      BY <2>1, FreshFree DEF New
    <2> QED BY <1>4, <1>5, <2>1, <2>2, <2>3 DEF Own, TypeOK
  <1>12. ASSUME NEW a, \/ \E s \in States : EndCode(s) /\ a = codeVerifierDB[s]
                       \/ \E d \in DeviceCodes : EndDevice(d) /\ a = deviceCodeDB[d],
                FreePending(a) \/ \E q : Stored(a, q)
         PROVE  /\ \A x \in accountDB' : Sealed(heap'[x])
                /\ \A x \in Pending' \ {NULL} : Clear(heap'[x])
    <2>1. /\ a \in Accounts /\ a \notin accountDB
          /\ Pending' \subseteq Pending \cup {NULL} /\ a \notin Pending'
      BY <1>12, EndPending
    <2>2. CASE FreePending(a)
      BY <1>3, <1>5, <2>1, <2>2 DEF FreePending, Own, TypeOK
    <2>3. CASE \E q : Stored(a, q)
      BY <1>3, <1>5, <1>6, <2>1, <2>3
    <2> QED BY <1>12, <2>2, <2>3
  <1>13. CASE FreeStep \/ CodeStep \/ DeviceStep
    BY <1>12, <1>13 DEF FreeStep, CodeStep, DeviceStep
  <1>14. CASE ClaimStep
    <2>1. Pending' = Pending
      BY <1>14 DEF ClaimStep, Pending
    <2>2. PICK a \in accountDB : accountDB_remove({a}) \/ \E q \in Account : Stored(a, q)
      BY <1>14 DEF ClaimStep
    <2>3. a \in Accounts /\ {a} \in SUBSET accountDB
      BY DEF Own, TypeOK
    <2> QED BY <1>3, <1>5, <1>6, <1>7, <2>1, <2>2, <2>3
  <1> QED BY <1>8, <1>9, <1>10, <1>11, <1>13, <1>14, NextShape DEF Step

\* A step leaves the account of a pending code flow alone or ends the flow.
LEMMA UndisturbedNext ==
    ASSUME Own, Results, [Next]_vars, NEW s \in States, codeVerifierDB[s] # NULL
    PROVE  LET a == codeVerifierDB[s]
           IN  IF codeVerifierDB'[s] = a THEN heap'[a] = heap[a]
               ELSE a \in accountDB' \/ heap'[a] = NULL
  <1> DEFINE a == codeVerifierDB[s]
  <1>1. a \in Accounts /\ a \in Pending /\ a \notin accountDB /\ heap[a] # NULL
    BY DEF Own, TypeOK, Pending, NoDangling, SingleOwner
  <1>2. a \notin Fresh
    BY <1>1 DEF Fresh
  <1>3. s \in drawn
    BY DEF Results, StatesAccounted
  <1>4. ASSUME NEW b, b # a, \/ \E q : Stored(b, q)
                             \/ \E q : heap' = [heap EXCEPT ![b] = q]
                             \/ \E X \in SUBSET accountDB : accountDB_remove(X)
        PROVE  heap'[a] = heap[a]
    BY <1>1, <1>4 DEF Stored, accountDB_remove, Own, TypeOK
  <1>5. CASE UNCHANGED vars
    BY <1>5 DEF vars
  <1>6. CASE TouchStep
    <2>1. codeVerifierDB' = codeVerifierDB
      BY <1>6 DEF TouchStep, pending
    <2> QED BY <1>1, <1>2, <1>4, <1>6, <2>1 DEF TouchStep, Touched, Same, New
  <1>7. CASE RemoveStep
    <2>1. codeVerifierDB' = codeVerifierDB
      BY <1>7 DEF RemoveStep, pending
    <2>2. heap'[a] = heap[a]
      BY <1>1, <1>7 DEF RemoveStep, accountDB_remove
    <2> QED BY <2>1, <2>2
  <1>8. CASE BeginStep
    <2>1. codeVerifierDB'[s] = a
      BY <1>3, <1>8 DEF BeginStep, Own, TypeOK
    <2> QED BY <1>2, <1>4, <1>8, <2>1 DEF BeginStep, New
  <1>9. CASE ClaimStep
    <2>1. codeVerifierDB' = codeVerifierDB
      BY <1>9 DEF ClaimStep
    <2>2. heap'[a] = heap[a]
      BY <1>1, <1>9 DEF ClaimStep, accountDB_remove, Stored
    <2> QED BY <2>1, <2>2
  <1>10. CASE FreeStep \/ CodeStep \/ DeviceStep
    <2>1. ASSUME NEW t \in States, EndCode(t),
                 FreePending(codeVerifierDB[t]) \/ \E q : Stored(codeVerifierDB[t], q)
          PROVE  IF codeVerifierDB'[s] = a THEN heap'[a] = heap[a]
                 ELSE a \in accountDB' \/ heap'[a] = NULL
      <3>1. CASE t = s
        BY <1>1, <2>1, <3>1 DEF EndCode, FreePending, Stored, Own, TypeOK
      <3>2. CASE t # s
        <4>1. codeVerifierDB'[s] = a
          BY <2>1, <3>2 DEF EndCode, Own, TypeOK
        <4>2. codeVerifierDB[t] # a
          BY <3>2 DEF Own, SingleOwner, OneFlowPerAccount
        <4> QED BY <1>4, <2>1, <4>1, <4>2 DEF FreePending
      <3> QED BY <3>1, <3>2
    <2>2. ASSUME NEW d \in DeviceCodes, EndDevice(d),
                 FreePending(deviceCodeDB[d]) \/ \E q : Stored(deviceCodeDB[d], q)
          PROVE  IF codeVerifierDB'[s] = a THEN heap'[a] = heap[a]
                 ELSE a \in accountDB' \/ heap'[a] = NULL
      <3>1. codeVerifierDB'[s] = a
        BY <2>2 DEF EndDevice
      <3>2. deviceCodeDB[d] # a
        BY DEF Own, SingleOwner, OneFlowPerAccount
      <3> QED BY <1>4, <2>2, <3>1, <3>2 DEF FreePending
    <2> QED BY <1>10, <2>1, <2>2 DEF FreeStep, CodeStep, DeviceStep
  <1> QED BY <1>5, <1>6, <1>7, <1>8, <1>9, <1>10, NextShape DEF Step

\* A code flow that ends has failed, has handed its result over, or leaves it
\* waiting.
LEMMA KeptNext ==
    ASSUME Own, Results, Next, NEW s \in States
    PROVE  ResultKept(s)
  <1> DEFINE a == codeVerifierDB[s]
  <1> SUFFICES ASSUME a # NULL, codeVerifierDB'[s] = NULL
               PROVE  heap'[a] = NULL \/ HandsOver(s) \/ a \in Waiting(s)'
    BY DEF ResultKept
  <1>1. a \in Accounts
    BY DEF Own, TypeOK
  <1>2. PICK t \in States : /\ EndCode(t)
                            /\ \/ FreePending(codeVerifierDB[t])
                               \/ \E q \in Account :
                                    /\ q.used = t /\ Stored(codeVerifierDB[t], q)
                                    /\ handed' = [handed EXCEPT ![t] = IF q.checked THEN handed[t] + 1
                                                                       ELSE handed[t]]
    <2>1. CASE codeVerifierDB' = codeVerifierDB
      BY <2>1
    <2>2. CASE BeginStep
      <3>1. \A t \in States \ drawn, x \in Accounts :
              codeVerifierDB' = [codeVerifierDB EXCEPT ![t] = x] => codeVerifierDB'[s] # NULL
        BY StoreAssumption DEF Own, TypeOK
      <3> QED BY <2>1, <2>2, <3>1 DEF BeginStep
    <2>3. CASE FreeStep
      BY <2>1, <2>3 DEF FreeStep, EndDevice
    <2>4. CASE CodeStep
      BY <2>4 DEF CodeStep
    <2> QED BY <2>1, <2>2, <2>3, <2>4, NextShape
            DEF Step, TouchStep, RemoveStep, pending, DeviceStep, EndDevice, ClaimStep
  <1>3. t = s
    BY <1>2 DEF EndCode, Own, TypeOK
  <1>4. CASE FreePending(a)
    BY <1>1, <1>4 DEF FreePending, Own, TypeOK
  <1>5. ASSUME NEW q \in Account, q.used = s, Stored(a, q),
               handed' = [handed EXCEPT ![s] = IF q.checked THEN handed[s] + 1 ELSE handed[s]]
        PROVE  HandsOver(s) \/ a \in Waiting(s)'
    <2>1. a \in accountDB' /\ heap'[a] = q /\ q # NULL
      BY <1>1, <1>5, NullAssumption DEF Stored
    <2>2. CASE q.checked
      BY <1>5, <2>2 DEF HandsOver, Own, TypeOK
    <2>3. CASE ~q.checked
      BY <1>5, <2>1, <2>3 DEF Waiting, Live
    <2> QED BY <2>2, <2>3
  <1> QED BY <1>2, <1>3, <1>4, <1>5

\* A result that waits goes on waiting, is handed over, or disappears with its
\* account for one of the two known reasons.
LEMMA WaitingNext ==
    ASSUME Own, Results, Next, NEW s \in States, NEW a \in Waiting(s)
    PROVE  a \in Waiting(s)' \/ HandsOver(s) \/ Unloads(a) \/ Replaces(a)
  <1>1. /\ a \in accountDB /\ a \in Accounts /\ heap[a] # NULL
        /\ heap[a].used = s /\ ~heap[a].checked
    BY DEF Waiting, Live, Own, TypeOK
  <1>2. a \notin Fresh /\ a \notin Pending
    BY <1>1 DEF Fresh, Own, SingleOwner
  <1>3. ASSUME a \in accountDB', heap'[a] = heap[a] PROVE a \in Waiting(s)'
    BY <1>1, <1>3 DEF Waiting, Live
  <1>4. ASSUME NEW b \in Accounts, b # a, NEW q, Stored(b, q)
        PROVE  a \in Waiting(s)' \/ Replaces(a)
    <2>1. CASE heap[a].name = q.name
      <3>1. a \notin accountDB' /\ b \in accountDB' /\ heap'[b] = q
        BY <1>1, <1>4, <2>1 DEF Stored
      <3> QED BY <1>4, <2>1, <3>1 DEF Replaces
    <2>2. CASE heap[a].name # q.name
      BY <1>1, <1>3, <1>4, <2>2 DEF Stored
    <2> QED BY <2>1, <2>2
  <1>5. ASSUME NEW b, b # a, NEW q, heap' = [heap EXCEPT ![b] = q], accountDB' = accountDB
        PROVE  a \in Waiting(s)'
    BY <1>1, <1>3, <1>5 DEF Own, TypeOK
  <1>6. CASE TouchStep
    <2>1. PICK b \in Accounts, q \in Account : Touched(b, q)
      BY <1>6 DEF TouchStep
    <2>2. CASE b = a
      <3>1. Same(a, q) /\ q.checked = heap[a].checked /\ Stored(a, q)
        BY <1>2, <2>1, <2>2 DEF Touched, New
      <3>2. a \in accountDB' /\ heap'[a] = q /\ q # NULL
        BY <1>1, <3>1, NullAssumption DEF Stored
      <3> QED BY <1>1, <3>1, <3>2 DEF Waiting, Live, Same
    <2>3. CASE b # a
      BY <1>4, <1>5, <2>1, <2>3 DEF Touched
    <2> QED BY <2>2, <2>3
  <1>7. CASE RemoveStep
    <2>1. PICK X \in SUBSET accountDB : accountDB_remove(X)
      BY <1>7 DEF RemoveStep
    <2>2. CASE a \in X
      BY <1>7, <2>1, <2>2 DEF RemoveStep, Unloads
    <2>3. CASE a \notin X
      BY <1>1, <1>3, <2>1, <2>3 DEF accountDB_remove
    <2> QED BY <2>2, <2>3
  <1>8. CASE BeginStep
    BY <1>2, <1>5, <1>8 DEF BeginStep, New
  <1>9. CASE FreeStep \/ CodeStep \/ DeviceStep
    <2>1. PICK b : /\ \/ \E t \in States : EndCode(t) /\ b = codeVerifierDB[t]
                      \/ \E d \in DeviceCodes : EndDevice(d) /\ b = deviceCodeDB[d]
                   /\ FreePending(b) \/ \E q : Stored(b, q)
      BY <1>9 DEF FreeStep, CodeStep, DeviceStep
    <2>2. b \in Accounts /\ b \in Pending /\ b # a
      BY <1>2, <2>1 DEF EndCode, EndDevice, Pending, Own, TypeOK
    <2> QED BY <1>4, <1>5, <2>1, <2>2 DEF FreePending
  <1>10. CASE ClaimStep
    <2>1. PICK t \in States, b \in accountDB :
            /\ heap[b].used = t
            /\ handed' = [handed EXCEPT ![t] = @ + 1]
            /\ accountDB_remove({b}) \/ \E q \in Account : Stored(b, q)
      BY <1>10 DEF ClaimStep
    <2>2. b \in Accounts
      BY DEF Own, TypeOK
    <2>3. CASE b = a
      BY <1>1, <2>1, <2>3 DEF HandsOver, Own, TypeOK
    <2>4. CASE b # a
      <3>1. CASE accountDB_remove({b})
        BY <1>1, <1>3, <2>4, <3>1 DEF accountDB_remove
      <3> QED BY <1>4, <2>1, <2>2, <2>4, <3>1
    <2> QED BY <2>3, <2>4
  <1> QED BY <1>6, <1>7, <1>8, <1>9, <1>10, NextShape DEF Step
-----------------------------------------------------------------------------
(* The theorems                                                            *)

\* The ownership discipline and the accounting of the flows always hold.
LEMMA Invariant == Spec => [](Own /\ Results)
  BY OwnInit, OwnNext, ResultsInit, ResultsNext, PTL DEF Spec

\* A short name, and the state of a flow, lead to at most one loaded account,
\* whatever mix of loading, autoloading (by name or by issuer), account
\* creation and lookups put the accounts there (db_addAccountEncrypted).
THEOREM UniqueLookups == Spec => []LookupsUnique
  <1>1. Results => LookupsUnique
    BY DEF Results, LookupsUnique
  <1> QED BY <1>1, Invariant, PTL

\* The result of a code flow is given to oidc-gen at most once, by the code
\* exchange or by a state lookup; a flow that does not fail leaves a result that
\* a lookup finds, and it stays there until it is given out, its account is
\* unloaded as such, or another account of its name takes its place.
THEOREM HandedOverOnce == Spec => ConfigHandedOver
  <1> DEFINE Accounted(s) ==
        /\ handed'[s] <= 1
        /\ ResultKept(s)
        /\ \A a \in Waiting(s) : a \in Waiting(s)' \/ HandsOver(s) \/ Unloads(a) \/ Replaces(a)
  <1>1. Own /\ Results /\ [Next]_vars => [\A s \in States : Accounted(s)]_vars
    <2> SUFFICES ASSUME Own, Results, Next, NEW s \in States PROVE Accounted(s)
      OBVIOUS
    <2>1. Results'
      BY ResultsNext
    <2>2. handed'[s] <= 1
      BY <2>1 DEF Results, OneHandover
    <2> QED BY <2>2, KeptNext, WaitingNext
  <1> QED BY <1>1, Invariant, PTL DEF Spec, ConfigHandedOver

\* Loaded accounts are encrypted exactly once between requests and pending
\* ones are in the clear, when the agent runs with --always-allow-idtoken (a
\* declined ID token leaves its account decrypted, see GetIdToken).
THEOREM Encryption ==
    ASSUME AlwaysAllowId
    PROVE  Spec => []EncryptedAtRest
  <1>1. Init => EncryptedAtRest
    BY DEF Init, EncryptedAtRest, Live, Pending
  <1>2. Own /\ Results /\ EncryptedAtRest /\ [Next]_vars => EncryptedAtRest'
    BY EncryptedNext
  <1> QED BY <1>1, <1>2, Invariant, PTL DEF Spec

\* No request changes the account of a pending code flow but the one that
\* ends the flow, and that one loads the account or frees it.
THEOREM FlowsUndisturbed == Spec => PendingUndisturbed
  <1>1. Own /\ Results /\ [Next]_vars =>
          [\A s \in States :
             LET a == codeVerifierDB[s]
             IN  a # NULL => IF codeVerifierDB'[s] = a THEN heap'[a] = heap[a]
                             ELSE a \in accountDB' \/ heap'[a] = NULL]_vars
    BY UndisturbedNext
  <1> QED BY <1>1, Invariant, PTL DEF Spec, PendingUndisturbed
=============================================================================
