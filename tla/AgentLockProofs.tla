--------------------------- MODULE AgentLockProofs ---------------------------
(***************************************************************************)
(* The lock of the agent, for any number of accounts, passwords and locks. *)
(***************************************************************************)
EXTENDS AgentLock, TLAPS

\* A locked agent has a password and, since lockEncrypt passed them, accounts
\* whose only missing credential may be the client secret; an account that no
\* interrupted lock or unlock has touched is sealed as a whole or not at all.
Held ==
    /\ locked => /\ hash \in Passwords
                 /\ \A i \in DOMAIN accounts, x \in Fields : x # CS => accounts[i][x] # Absent
    /\ SealedWhenLocked

LockInv == TypeOK /\ Held
-----------------------------------------------------------------------------
(* The credentials and the list                                            *)

\* What layers are, and what adding and taking off one does.
LEMMA LayersDistinct ==
    /\ \A v \in Seq(Passwords) : v # Absent
    /\ <<>> \in Seq(Passwords) /\ <<>> # Absent
    /\ \A p \in Passwords : /\ <<p>> \in Seq(Passwords) /\ <<p>> # <<>>
                            /\ Tail(<<p>>) = <<>> /\ <<p>>[1] = p /\ <<p>> \o <<>> = <<p>>
  <1>1. ASSUME NEW v \in Seq(Passwords), v = Absent PROVE FALSE
    <2>1. Len(v) = 1 /\ v[1] = NULL
      BY <1>1 DEF Absent
    <2>2. v[1] \in Passwords
      BY <2>1
    <2> QED BY <2>1, <2>2, LockAssumption
  <1>2. <<>> \in Seq(Passwords)
    OBVIOUS
  <1>3. <<>> # Absent
    BY <1>1, <1>2
  <1> QED BY <1>1, <1>2, <1>3

\* Taking off the outermost layer, and putting it on again.
LEMMA TailLayer ==
    ASSUME NEW v \in Seq(Passwords), v # <<>>, NEW p, v[1] = p
    PROVE  Tail(v) \in Seq(Passwords) /\ v = <<p>> \o Tail(v)
  OBVIOUS

\* Encryption keeps an absent credential and adds a layer to another.
LEMMA EncryptLayer ==
    ASSUME NEW p \in Passwords, NEW v \in Seq(Passwords) \cup {Absent}
    PROVE  /\ Encrypt(p, v) \in Seq(Passwords) \cup {Absent}
           /\ Encrypt(p, v) = Absent <=> v = Absent
           /\ v = <<>> => Encrypt(p, v) = <<p>>
  <1>1. CASE v = Absent
    BY <1>1, LayersDistinct DEF Encrypt
  <1>2. CASE v # Absent
    <2>1. <<p>> \o v \in Seq(Passwords) /\ Encrypt(p, v) = <<p>> \o v
      BY <1>2 DEF Encrypt
    <2>2. v = <<>> => Encrypt(p, v) = <<p>>
      BY <2>1, LayersDistinct
    <2> QED BY <1>2, <2>1, <2>2, LayersDistinct
  <1> QED BY <1>1, <1>2

\* The positions of the lists.
LEMMA ListDomain ==
    ASSUME TypeOK
    PROVE  /\ DOMAIN accounts = 1..Len(accounts) /\ Len(accounts) \in Nat
           /\ DOMAIN torn = DOMAIN accounts
           /\ \A i \in DOMAIN accounts : accounts[i] \in Account /\ torn[i] \in BOOLEAN
           /\ \A i \in DOMAIN accounts, x \in Fields :
                 accounts[i][x] \in Seq(Passwords) \cup {Absent}
  BY DEF TypeOK, Account

\* A function on the positions of a list is a list.
LEMMA FunIsSeq ==
    ASSUME NEW n \in Nat, NEW S, NEW f \in [1..n -> S]
    PROVE  f \in Seq(S) /\ Len(f) = n /\ DOMAIN f = 1..n
  OBVIOUS

\* A new entry comes last.
LEMMA AppendList ==
    ASSUME NEW S, NEW q \in Seq(S), NEW e \in S
    PROVE  /\ Append(q, e) \in Seq(S) /\ Len(Append(q, e)) = Len(q) + 1
           /\ \A i \in 1..Len(q) : Append(q, e)[i] = q[i]
  OBVIOUS

\* Removing an entry leaves the others as they are.
LEMMA WithoutList ==
    ASSUME TypeOK, NEW i \in DOMAIN accounts
    PROVE  /\ Without(accounts, i) \in Seq(Account)
           /\ Without(torn, i) \in Seq(BOOLEAN)
           /\ Len(Without(torn, i)) = Len(Without(accounts, i))
           /\ \A j \in DOMAIN Without(accounts, i) :
                 \E k \in DOMAIN accounts : /\ Without(accounts, i)[j] = accounts[k]
                                            /\ Without(torn, i)[j] = torn[k]
  <1> DEFINE n == Len(accounts) - 1
             w == [j \in 1..n |-> IF j < i THEN accounts[j] ELSE accounts[j + 1]]
             u == [j \in 1..n |-> IF j < i THEN torn[j] ELSE torn[j + 1]]
  <1>1. n \in Nat /\ i \in 1..Len(accounts)
    BY ListDomain
  <1>2. \A j \in 1..n : (j \in DOMAIN accounts) /\ (j + 1 \in DOMAIN accounts)
    BY ListDomain
  <1>3. w \in [1..n -> Account]
    BY <1>2, ListDomain
  <1>4. u \in [1..n -> BOOLEAN]
    BY <1>2, ListDomain
  <1>5. w \in Seq(Account) /\ DOMAIN w = 1..n /\ Len(w) = n
    BY <1>1, <1>3, FunIsSeq
  <1>6. u \in Seq(BOOLEAN) /\ DOMAIN u = 1..n /\ Len(u) = n
    BY <1>1, <1>4, FunIsSeq
  <1>7. Without(accounts, i) = w
    BY DEF Without
  <1>8. Without(torn, i) = u
    BY DEF Without, TypeOK
  <1>9. \A j \in 1..n : \E k \in DOMAIN accounts : w[j] = accounts[k] /\ u[j] = torn[k]
    <2> SUFFICES ASSUME NEW j \in 1..n
                 PROVE  \E k \in DOMAIN accounts : w[j] = accounts[k] /\ u[j] = torn[k]
      OBVIOUS
    <2>1. CASE j < i
      BY <1>2, <2>1
    <2>2. CASE ~(j < i)
      BY <1>2, <2>2
    <2> QED BY <2>1, <2>2
  <1> HIDE DEF n, w, u
  <1> QED BY <1>5, <1>6, <1>7, <1>8, <1>9

\* Without an obstacle every credential is reached, and an obstacle is not.
LEMMA ReachedSlots ==
    ASSUME TypeOK
    PROVE  /\ Reached({}) = Slots
           /\ \A Bad : Reached(Bad) \subseteq Slots
           /\ \A Bad : \A s \in Reached(Bad) : s \notin Bad
  <1>1. ASSUME NEW Bad, NEW s \in Reached(Bad), s \in Bad PROVE FALSE
    <2>1. Before(s, s) /\ s \in Slots
      BY <1>1 DEF Reached
    <2>2. s[1] \in Int /\ s[2] \in Int
      BY <2>1, ListDomain DEF Slots, Fields, AT, CS
    <2>3. s[1] < s[1] \/ s[2] < s[2]
      BY <2>1 DEF Before
    <2> QED BY <2>2, <2>3
  <1> QED BY <1>1 DEF Reached

\* The accounts after a lock or unlock that the slots Bad stopped: a list of the
\* same length, in which what is not reached is as it was.
LEMMA TornList ==
    ASSUME TypeOK, NEW Bad
    PROVE  /\ Torn(Bad) \in Seq(BOOLEAN) /\ Len(Torn(Bad)) = Len(accounts)
           /\ DOMAIN Torn(Bad) = DOMAIN accounts
           /\ \A i \in DOMAIN accounts : torn[i] => Torn(Bad)[i]
           /\ \A i \in DOMAIN accounts, x \in Fields :
                 Bad # {} /\ <<i, x>> \in Reached(Bad) /\ accounts[i][x] # Absent => Torn(Bad)[i]
  <1> DEFINE Hit(i) == torn[i] \/ (Bad # {} /\ \E x \in Fields : <<i, x>> \in Reached(Bad)
                                                                   /\ accounts[i][x] # Absent)
  <1>1. Torn(Bad) = [i \in DOMAIN accounts |-> Hit(i)]
    BY DEF Torn
  <1>2. \A i \in DOMAIN accounts : Hit(i) \in BOOLEAN
    BY ListDomain
  <1>3. Torn(Bad) \in [1..Len(accounts) -> BOOLEAN]
    <2> HIDE DEF Hit
    <2> QED BY <1>1, <1>2, ListDomain
  <1>4. Torn(Bad) \in Seq(BOOLEAN) /\ Len(Torn(Bad)) = Len(accounts)
    BY <1>3, ListDomain, FunIsSeq
  <1> QED BY <1>1, <1>4
-----------------------------------------------------------------------------
(* The handlers                                                            *)
\* A lock either passes every account and adds one layer to each credential, or
\* stops and marks what it has treated.
LEMMA LockStep ==
    ASSUME LockInv, NEW p \in Passwords, lock(p)
    PROVE  LockInv'
  <1> DEFINE Done == Reached(EncryptFails)
             New(i, x) == IF <<i, x>> \in Done THEN Encrypt(p, accounts[i][x]) ELSE accounts[i][x]
  <1>1. TypeOK /\ ~locked
    BY DEF LockInv, lock
  <1>2. accounts' = [i \in DOMAIN accounts |-> [x \in Fields |-> New(i, x)]]
    BY DEF lock, lockEncrypt, Update
  <1>3. \A i \in DOMAIN accounts, x \in Fields :
          /\ New(i, x) \in Seq(Passwords) \cup {Absent}
          /\ New(i, x) = Absent <=> accounts[i][x] = Absent
    BY <1>1, ListDomain, EncryptLayer
  <1>4. torn' = Torn(EncryptFails) /\ locked' = (EncryptFails = {}) /\ hash' = p
    BY DEF lock
  <1> HIDE DEF New
  <1>5. accounts' \in [1..Len(accounts) -> Account]
    BY <1>1, <1>2, <1>3, ListDomain DEF Account
  <1>6. accounts' \in Seq(Account) /\ Len(accounts') = Len(accounts) /\ DOMAIN accounts' = DOMAIN accounts
    BY <1>1, <1>5, ListDomain, FunIsSeq
  <1>7. TypeOK'
    BY <1>1, <1>4, <1>6, TornList DEF TypeOK, lock
  <1>8. locked' => \A i \in DOMAIN accounts', x \in Fields : x # CS => accounts'[i][x] # Absent
    <2> SUFFICES ASSUME EncryptFails = {}, NEW i \in DOMAIN accounts, NEW x \in Fields, x # CS
                 PROVE  accounts'[i][x] # Absent
      BY <1>4, <1>6
    <2>1. <<i, x>> \in Slots /\ <<i, x>> \notin EncryptFails
      BY DEF Slots
    <2>2. accounts[i][x] # Absent
      BY <2>1 DEF EncryptFails
    <2> QED BY <1>2, <1>3, <2>2
  <1>9. ASSUME NEW i \in DOMAIN accounts, NEW x \in Fields, ~torn'[i], accounts'[i][x] # Absent
        PROVE  accounts'[i][x] = IF locked' THEN <<hash'>> ELSE <<>>
    <2>1. ~torn[i] /\ accounts[i][x] # Absent
      BY <1>1, <1>2, <1>3, <1>4, <1>9, TornList
    <2>2. accounts[i][x] = <<>>
      BY <1>1, <2>1 DEF LockInv, Held, SealedWhenLocked
    <2>3. CASE EncryptFails = {}
      <3>1. <<i, x>> \in Done
        BY <1>1, <2>3, ReachedSlots DEF Slots
      <3>2. accounts'[i][x] = <<p>>
        BY <1>2, <2>2, <3>1, EncryptLayer, LayersDistinct DEF New
      <3> QED BY <1>4, <2>3, <3>2
    <2>4. CASE EncryptFails # {}
      <3>1. <<i, x>> \notin Done
        BY <1>1, <1>4, <1>9, <2>1, <2>4, TornList
      <3>2. accounts'[i][x] = <<>>
        BY <1>2, <2>2, <3>1 DEF New
      <3> QED BY <1>4, <2>4, <3>2
    <2> QED BY <2>3, <2>4
  <1>10. SealedWhenLocked'
    BY <1>6, <1>9 DEF SealedWhenLocked
  <1> QED BY <1>4, <1>7, <1>8, <1>10 DEF LockInv, Held

\* What the right password does: it takes off the outermost layer, of this
\* password, of what lockDecrypt reaches.
LEMMA UnlockList ==
    ASSUME LockInv, NEW p \in Passwords, unlock(p)
    PROVE  /\ accounts' \in Seq(Account) /\ Len(accounts') = Len(accounts)
           /\ DOMAIN accounts' = DOMAIN accounts
           /\ \A i \in DOMAIN accounts, x \in Fields :
                 IF <<i, x>> \in Reached(DecryptFails(p))
                 THEN /\ accounts[i][x] \in Seq(Passwords) /\ accounts'[i][x] \in Seq(Passwords)
                      /\ accounts[i][x] = <<p>> \o accounts'[i][x]
                      /\ accounts'[i][x] = Tail(accounts[i][x])
                 ELSE accounts'[i][x] = accounts[i][x]
  <1> DEFINE Done == Reached(DecryptFails(p))
             New(i, x) == IF <<i, x>> \in Done THEN Tail(accounts[i][x]) ELSE accounts[i][x]
  <1>1. TypeOK
    BY DEF LockInv
  <1>2. accounts' = [i \in DOMAIN accounts |-> [x \in Fields |-> New(i, x)]]
    BY DEF unlock, lockDecrypt, Update
  <1>3. ASSUME NEW i \in DOMAIN accounts, NEW x \in Fields, <<i, x>> \in Done
        PROVE  /\ accounts[i][x] \in Seq(Passwords) /\ New(i, x) \in Seq(Passwords)
               /\ accounts[i][x] = <<p>> \o New(i, x)
    <2>1. <<i, x>> \notin DecryptFails(p) /\ <<i, x>> \in Slots
      BY <1>1, <1>3, ReachedSlots
    <2>2. accounts[i][x] \notin {Absent, <<>>} /\ accounts[i][x][1] = p
      BY <2>1 DEF DecryptFails
    <2>3. accounts[i][x] \in Seq(Passwords)
      BY <1>1, <2>2, ListDomain
    <2> QED BY <1>3, <2>2, <2>3, TailLayer
  <1>4. \A i \in DOMAIN accounts, x \in Fields : New(i, x) \in Seq(Passwords) \cup {Absent}
    BY <1>1, <1>3, ListDomain
  <1>5. \A i \in DOMAIN accounts, x \in Fields : accounts'[i][x] = New(i, x)
    BY <1>2
  <1>6. accounts' \in [1..Len(accounts) -> Account]
    <2> HIDE DEF New
    <2> QED BY <1>1, <1>2, <1>4, ListDomain DEF Account
  <1>7. accounts' \in Seq(Account) /\ Len(accounts') = Len(accounts) /\ DOMAIN accounts' = DOMAIN accounts
    BY <1>1, <1>6, ListDomain, FunIsSeq
  <1> QED BY <1>3, <1>5, <1>7

\* The right password opens every account, or stops and marks what it has treated.
LEMMA UnlockStep ==
    ASSUME LockInv, NEW p \in Passwords, unlock(p)
    PROVE  LockInv'
  <1> DEFINE Bad == DecryptFails(p)
  <1>1. TypeOK /\ locked /\ p = hash /\ torn' = Torn(Bad)
    BY DEF LockInv, unlock
  <1>2. IF Bad = {} THEN locked' = FALSE /\ hash' = NULL /\ fail_count' = 0
                    ELSE locked' = locked /\ hash' = hash /\ fail_count' = fail_count
    BY DEF unlock
  <1>3. /\ accounts' \in Seq(Account) /\ Len(accounts') = Len(accounts)
        /\ DOMAIN accounts' = DOMAIN accounts
    BY UnlockList
  <1>4. torn' \in Seq(BOOLEAN) /\ Len(torn') = Len(accounts)
    BY <1>1, TornList
  <1>5. TypeOK'
    <2>1. locked' \in BOOLEAN /\ hash' \in Passwords \cup {NULL} /\ fail_count' \in 0..25
      <3>1. CASE Bad = {}
        <4>1. locked' = FALSE /\ hash' = NULL /\ fail_count' = 0
          BY <1>2, <3>1
        <4>2. 0 \in 0..25
          OBVIOUS
        <4>3. locked' \in BOOLEAN
          BY <4>1, Zenon
        <4> QED BY <4>1, <4>2, <4>3
      <3>2. CASE Bad # {}
        BY <1>1, <1>2, <3>2 DEF TypeOK
      <3> QED BY <3>1, <3>2
    <2>2. delay' \in Nat
      BY <1>1 DEF TypeOK, unlock
    <2> QED BY <1>3, <1>4, <2>1, <2>2 DEF TypeOK
  <1>6. \A i \in DOMAIN accounts, x \in Fields : accounts'[i][x] = Absent <=> accounts[i][x] = Absent
    BY UnlockList, LayersDistinct
  <1>7. locked' => /\ hash' \in Passwords
                   /\ \A i \in DOMAIN accounts', x \in Fields : x # CS => accounts'[i][x] # Absent
    BY <1>1, <1>2, <1>3, <1>6 DEF LockInv, Held
  <1>8. ASSUME NEW i \in DOMAIN accounts, NEW x \in Fields, ~torn'[i], accounts'[i][x] # Absent
        PROVE  accounts'[i][x] = IF locked' THEN <<hash'>> ELSE <<>>
    <2>1. ~torn[i] /\ accounts[i][x] # Absent
      BY <1>1, <1>6, <1>8, TornList
    <2>2. accounts[i][x] = <<p>>
      BY <1>1, <2>1 DEF LockInv, Held, SealedWhenLocked
    <2>3. CASE Bad = {}
      <3>1. <<i, x>> \in Reached(Bad)
        BY <1>1, <2>3, ReachedSlots DEF Slots
      <3>2. accounts'[i][x] = Tail(<<p>>)
        BY <2>2, <3>1, UnlockList
      <3> QED BY <1>2, <2>3, <3>2, LayersDistinct
    <2>4. CASE Bad # {}
      <3>1. <<i, x>> \notin Reached(Bad)
        BY <1>1, <1>8, <2>1, <2>4, TornList
      <3> QED BY <1>1, <1>2, <2>2, <2>4, <3>1, UnlockList
    <2> QED BY <2>3, <2>4
  <1>9. SealedWhenLocked'
    BY <1>3, <1>8 DEF SealedWhenLocked
  <1> QED BY <1>5, <1>7, <1>9 DEF LockInv, Held

\* A wrong password makes the next attempt slower and changes nothing else.
LEMMA WrongStep ==
    ASSUME LockInv, NEW p \in Passwords, unlockWrong(p)
    PROVE  LockInv'
  <1>1. MoreFails \in 0..25 /\ Delay(MoreFails) \in Nat
    BY DEF LockInv, TypeOK, MoreFails, Delay
  <1>2. TypeOK'
    BY <1>1 DEF LockInv, TypeOK, unlockWrong
  <1>3. Held'
    BY DEF LockInv, Held, SealedWhenLocked, unlockWrong
  <1> QED BY <1>2, <1>3 DEF LockInv

\* An account that is loaded is not locked, whatever credentials it has.
LEMMA AddStep ==
    ASSUME LockInv, oidcd_handleAdd
    PROVE  LockInv'
  <1>1. PICK shape \in Shapes :
          accounts' = Append(accounts, [x \in Fields |-> IF x \in shape THEN <<>> ELSE Absent])
    BY DEF oidcd_handleAdd
  <1> DEFINE new == [x \in Fields |-> IF x \in shape THEN <<>> ELSE Absent]
  <1>2. new \in Account /\ \A x \in Fields : new[x] \in {<<>>, Absent}
    BY DEF Account
  <1>3. accounts' = Append(accounts, new) /\ torn' = Append(torn, FALSE) /\ ~locked
    BY <1>1 DEF oidcd_handleAdd, Gate
  <1>4. UNCHANGED <<locked, hash, fail_count, delay>>
    BY DEF oidcd_handleAdd
  <1>5. TypeOK
    BY DEF LockInv
  <1> HIDE DEF new
  <1>6. /\ accounts' \in Seq(Account) /\ torn' \in Seq(BOOLEAN) /\ Len(torn') = Len(accounts')
        /\ \A i \in DOMAIN accounts' :
              \/ accounts'[i] = new
              \/ i \in DOMAIN accounts /\ accounts'[i] = accounts[i] /\ torn'[i] = torn[i]
    <2> DEFINE n == Len(accounts)
    <2>1. n \in Nat /\ accounts \in Seq(Account) /\ torn \in Seq(BOOLEAN) /\ Len(torn) = n
      BY <1>5 DEF TypeOK
    <2>2. /\ accounts' \in Seq(Account) /\ Len(accounts') = n + 1 /\ accounts'[n + 1] = new
          /\ \A i \in 1..n : accounts'[i] = accounts[i]
      BY <1>2, <1>3, <2>1
    <2>3. /\ torn' \in Seq(BOOLEAN) /\ Len(torn') = n + 1
          /\ \A i \in 1..n : torn'[i] = torn[i]
      <3>1. /\ Append(torn, FALSE) \in Seq(BOOLEAN) /\ Len(Append(torn, FALSE)) = Len(torn) + 1
            /\ \A i \in 1..Len(torn) : Append(torn, FALSE)[i] = torn[i]
        <4>1. torn \in Seq(BOOLEAN) /\ FALSE \in BOOLEAN
          BY <2>1
        <4> QED BY <4>1, AppendList, Zenon
      <3> QED BY <1>3, <2>1, <3>1
    <2>4. DOMAIN accounts' = 1..(n + 1) /\ DOMAIN accounts = 1..n
      BY <2>1, <2>2
    <2>5. \A i \in 1..(n + 1) : i = n + 1 \/ i \in 1..n
      BY <2>1
    <2> HIDE DEF n
    <2> QED BY <2>1, <2>2, <2>3, <2>4, <2>5
  <1>7. TypeOK'
    BY <1>4, <1>5, <1>6 DEF TypeOK
  <1>8. Held'
    BY <1>2, <1>3, <1>4, <1>6 DEF LockInv, Held, SealedWhenLocked
  <1> QED BY <1>7, <1>8 DEF LockInv

\* Unloading an account, by request or at the end of its lifetime.
LEMMA RemoveStep ==
    ASSUME LockInv, oidcd_handleRm \/ removeDeathAccounts
    PROVE  LockInv'
  <1>1. PICK i \in DOMAIN accounts : accounts' = Without(accounts, i) /\ torn' = Without(torn, i)
    BY DEF oidcd_handleRm, removeDeathAccounts, Removed
  <1>2. UNCHANGED <<locked, hash, fail_count, delay>>
    BY DEF oidcd_handleRm, removeDeathAccounts
  <1>3. /\ accounts' \in Seq(Account) /\ torn' \in Seq(BOOLEAN) /\ Len(torn') = Len(accounts')
        /\ \A j \in DOMAIN accounts' : \E k \in DOMAIN accounts : accounts'[j] = accounts[k]
                                                                   /\ torn'[j] = torn[k]
    BY <1>1, WithoutList DEF LockInv
  <1>4. TypeOK'
    BY <1>2, <1>3 DEF LockInv, TypeOK
  <1>5. Held'
    BY <1>2, <1>3 DEF LockInv, Held, SealedWhenLocked
  <1> QED BY <1>4, <1>5 DEF LockInv

\* A new access token is in the clear, and only obtained while not locked.
LEMMA TokenStep ==
    ASSUME LockInv, oidcd_handleToken
    PROVE  LockInv'
  <1>1. ~locked /\ UNCHANGED <<locked, hash, fail_count, delay, torn>>
    BY DEF oidcd_handleToken, Gate
  <1>2. PICK i \in DOMAIN accounts : accounts' = [accounts EXCEPT ![i][AT] = <<>>]
    BY DEF oidcd_handleToken
  <1>3. TypeOK
    BY DEF LockInv
  <1>4. /\ DOMAIN accounts' = DOMAIN accounts
        /\ \A j \in DOMAIN accounts, x \in Fields :
              accounts'[j][x] = accounts[j][x] \/ accounts'[j][x] = <<>>
    BY <1>2, <1>3, ListDomain DEF Account
  <1>5. accounts' \in Seq(Account) /\ Len(accounts') = Len(accounts)
    <2> DEFINE a == accounts[i]
    <2>1. a \in [Fields -> Seq(Passwords) \cup {Absent}] /\ <<>> \in Seq(Passwords)
      BY <1>3, ListDomain, LayersDistinct DEF Account
    <2>2. [accounts[i] EXCEPT ![AT] = <<>>] \in Account
      <3> HIDE DEF a
      <3>1. [a EXCEPT ![AT] = <<>>] \in [Fields -> Seq(Passwords) \cup {Absent}]
        BY <2>1
      <3> QED BY <3>1 DEF Account, a
    <2> QED BY <1>2, <1>3, <2>2 DEF TypeOK
  <1>6. TypeOK'
    BY <1>1, <1>3, <1>5 DEF TypeOK
  <1>7. Held'
    BY <1>1, <1>4 DEF LockInv, Held, SealedWhenLocked
  <1> QED BY <1>6, <1>7 DEF LockInv

\* All of them together.
LEMMA LockNext == LockInv /\ [Next]_vars => LockInv'
  <1>1. LockInv /\ UNCHANGED vars => LockInv'
    BY DEF vars, LockInv, TypeOK, Held, SealedWhenLocked
  <1> QED BY <1>1, LockStep, UnlockStep, WrongStep, AddStep, RemoveStep, TokenStep DEF Next

\* The agent starts without accounts and not locked.
LEMMA LockInit == Init => LockInv
  <1> SUFFICES ASSUME Init PROVE LockInv
    OBVIOUS
  <1>1. /\ accounts = <<>> /\ accounts \in Seq(Account) /\ DOMAIN accounts = {}
        /\ torn \in Seq(BOOLEAN) /\ Len(torn) = Len(accounts)
    BY DEF Init
  <1>2. Held
    BY <1>1 DEF Init, Held, SealedWhenLocked
  <1>3. fail_count \in 0..25 /\ delay \in Nat
    BY DEF Init
  <1>4. locked \in BOOLEAN /\ hash \in Passwords \cup {NULL}
    BY DEF Init
  <1> QED BY <1>1, <1>2, <1>3, <1>4 DEF LockInv, TypeOK

\* The invariant of the lock.
LEMMA LockInvariant == Spec => []LockInv
  BY LockInit, LockNext, PTL DEF Spec
-----------------------------------------------------------------------------
(* The theorems, for any number of accounts, whatever credentials each of  *)
(* them comes with.                                                        *)

\* While the agent is locked every credential of an account is under one layer
\* of the password that unlocks it, and otherwise under none, however locks,
\* wrong and right passwords, loads and unloads follow each other, unless a lock
\* or unlock stopped after having treated something of that very account.
THEOREM Sealed == Spec => []SealedWhenLocked
  <1>1. LockInv => SealedWhenLocked
    BY DEF LockInv, Held
  <1> QED BY <1>1, LockInvariant, PTL

\* The password that locked the agent unlocks it: lockDecrypt stops at nothing
\* but the missing secret of a public client and an account that an earlier lock
\* or unlock has left half treated.
THEOREM Unlockable == Spec => []RightPasswordUnlocks
  <1>1. LockInv => RightPasswordUnlocks
    <2> SUFFICES ASSUME LockInv, locked, NEW s \in DecryptFails(hash), ~torn[s[1]]
                 PROVE  s[2] = CS /\ accounts[s[1]][CS] = Absent
      BY DEF RightPasswordUnlocks
    <2>1. s[1] \in DOMAIN accounts /\ s[2] \in Fields
      BY DEF DecryptFails, Slots
    <2>2. accounts[s[1]][s[2]] # Absent => accounts[s[1]][s[2]] = <<hash>> /\ hash \in Passwords
      BY <2>1 DEF LockInv, Held, SealedWhenLocked
    <2>3. accounts[s[1]][s[2]] = Absent
      BY <2>2, LayersDistinct DEF DecryptFails
    <2> QED BY <2>1, <2>3 DEF LockInv, Held
  <1> QED BY <1>1, LockInvariant, PTL

\* While the agent stays locked no credential changes, except that the right
\* password takes off the outermost layer of what lockDecrypt reaches before it
\* stops: the gate of the main loop holds back every request, and a wrong
\* password touches no account.
THEOREM Frozen == Spec => LockedIsFrozen
  <1> DEFINE Kept ==
        \/ \E i \in DOMAIN accounts : accounts' = Without(accounts, i)
        \/ /\ Len(accounts') = Len(accounts)
           /\ \A i \in DOMAIN accounts, x \in Fields :
                 accounts'[i][x] # accounts[i][x] =>
                     torn'[i] /\ accounts[i][x] = <<hash>> \o accounts'[i][x]
  <1>1. LockInv /\ [Next]_vars => [locked /\ locked' => Kept]_vars
    <2> SUFFICES ASSUME LockInv, Next, locked, locked' PROVE Kept
      OBVIOUS
    <2>1. ASSUME NEW p \in Passwords, unlock(p) PROVE Kept
      <3>1. TypeOK /\ p = hash /\ torn' = Torn(DecryptFails(p)) /\ DecryptFails(p) # {}
        BY <2>1 DEF LockInv, unlock
      <3>2. Len(accounts') = Len(accounts)
        BY <2>1, UnlockList
      <3>3. ASSUME NEW i \in DOMAIN accounts, NEW x \in Fields, accounts'[i][x] # accounts[i][x]
            PROVE  torn'[i] /\ accounts[i][x] = <<hash>> \o accounts'[i][x]
        <4>1. <<i, x>> \in Reached(DecryptFails(p))
          BY <2>1, <3>3, UnlockList
        <4>2. accounts[i][x] = <<hash>> \o accounts'[i][x] /\ accounts[i][x] \in Seq(Passwords)
          BY <2>1, <3>1, <4>1, UnlockList
        <4>3. torn'[i]
          BY <3>1, <4>1, <4>2, TornList, LayersDistinct
        <4> QED BY <4>2, <4>3
      <3> QED BY <3>2, <3>3
    <2>2. ASSUME NEW p \in Passwords, unlockWrong(p) PROVE Kept
      BY <2>2 DEF unlockWrong
    <2>3. ASSUME oidcd_handleRm \/ removeDeathAccounts PROVE Kept
      BY <2>3 DEF oidcd_handleRm, removeDeathAccounts, Removed
    <2> QED BY <2>1, <2>2, <2>3 DEF Next, lock, oidcd_handleAdd, oidcd_handleToken, Gate
  <1> QED BY <1>1, LockInvariant, PTL DEF Spec, LockedIsFrozen
=============================================================================
