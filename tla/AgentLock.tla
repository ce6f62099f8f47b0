------------------------------ MODULE AgentLock ------------------------------
(***************************************************************************)
(* Locking the agent.  lock encrypts four credentials of every loaded      *)
(* account with the lock password, one after the other and in the order of *)
(* the list; unlock decrypts them.  Either stops at the first credential   *)
(* that it cannot treat and leaves the earlier ones as it has made them.   *)
(*                                                                         *)
(* A credential is absent or is known by the layers of lock encryption     *)
(* around it: the sequence of passwords, the outermost first.  The hash of *)
(* a password stands for the password.                                     *)
(***************************************************************************)
EXTENDS Integers, Sequences, SequencesExt

CONSTANTS
    NULL,
    Passwords,
    Shapes,       \* the sets of credentials an account may come with
    MaxAccounts,  \* bound on the loaded accounts
    MaxLayers     \* bound on the layers that failing locks pile up

\* The credentials, in the order in which they are treated.
AT == 1
RT == 2
CID == 3
CS == 4
Fields == AT..CS

ASSUME LockAssumption ==
    /\ Shapes \subseteq SUBSET Fields
    /\ NULL \notin Passwords
    /\ MaxAccounts \in Nat /\ MaxLayers \in Nat

Absent == <<NULL>>

VARIABLES
    accounts,    \* accountDB: for every account the layers of its credentials
    locked, hash,\* lock_state
    fail_count,  \* of unlock
    delay,       \* the milliseconds the last attempt to unlock slept
    torn         \* history: the accounts a lock or unlock that stopped has treated

vars == <<accounts, locked, hash, fail_count, delay, torn>>

Account == [Fields -> Seq(Passwords) \cup {Absent}]

TypeOK ==
    /\ accounts \in Seq(Account)
    /\ locked \in BOOLEAN
    /\ hash \in Passwords \cup {NULL}
    /\ fail_count \in 0..25
    /\ delay \in Nat
    /\ torn \in Seq(BOOLEAN) /\ Len(torn) = Len(accounts)

Init ==
    /\ accounts = <<>>
    /\ locked = FALSE /\ hash = NULL
    /\ fail_count = 0 /\ delay = 0
    /\ torn = <<>>
-----------------------------------------------------------------------------
\* The credentials of the list, and the order in which they are treated.
Slots == (DOMAIN accounts) \X Fields

Before(s, t) == s[1] < t[1] \/ (s[1] = t[1] /\ s[2] < t[2])

\* The slots that are reached when the first of the slots Bad stops the loop.
Reached(Bad) == {s \in Slots : \A t \in Bad : Before(s, t)}

Update(Done, f(_)) ==
    [i \in DOMAIN accounts |->
        [x \in Fields |-> IF <<i, x>> \in Done THEN f(accounts[i][x]) ELSE accounts[i][x]]]

\* The accounts of which something was treated when the slots Bad stopped the loop.
Torn(Bad) ==
    [i \in DOMAIN accounts |->
        torn[i] \/ (Bad # {} /\ \E x \in Fields : <<i, x>> \in Reached(Bad) /\ accounts[i][x] # Absent)]

\* Mutant: every absent credential is passed over.
EncryptFails_pass == {}

\* lockEncrypt: nothing can be encrypted that is absent, but an absent client
\* secret is passed over.
EncryptFails == {s \in Slots : accounts[s[1]][s[2]] = Absent /\ s[2] # CS}

\* Mutant: encrypted twice.
Encrypt_twice(p, v) == IF v = Absent THEN v ELSE <<p, p>> \o v

Encrypt(p, v) == IF v = Absent THEN v ELSE <<p>> \o v

lockEncrypt(p) == Update(Reached(EncryptFails), LAMBDA v : Encrypt(p, v))

\* lockDecrypt: the outermost layer must be of this password.
DecryptFails(p) ==
    {s \in Slots : LET v == accounts[s[1]][s[2]] IN v \in {Absent, <<>>} \/ v[1] # p}

lockDecrypt(p) == Update(Reached(DecryptFails(p)), Tail)

\* The bound on the layers.
MayLayer ==
    \A i \in DOMAIN accounts, x \in Fields :
        accounts[i][x] # Absent => Len(accounts[i][x]) < MaxLayers

\* The hash is set before the encryption that may fail.
lock(p) ==
    /\ ~locked /\ MayLayer
    /\ hash' = p
    /\ accounts' = lockEncrypt(p)
    /\ locked' = (EncryptFails = {})
    /\ torn' = Torn(EncryptFails)
    /\ UNCHANGED <<fail_count, delay>>

Delay(n) == 100 * n * n

MoreFails == IF fail_count < 25 THEN fail_count + 1 ELSE fail_count

unlockWrong(p) ==
    /\ locked /\ p # hash
    /\ fail_count' = MoreFails
    /\ delay' = Delay(MoreFails)
    /\ UNCHANGED <<accounts, locked, hash, torn>>

unlock(p) ==
    /\ locked /\ p = hash
    /\ accounts' = lockDecrypt(p)
    /\ torn' = Torn(DecryptFails(p))
    /\ IF DecryptFails(p) = {}
       THEN locked' = FALSE /\ fail_count' = 0 /\ hash' = NULL
       ELSE UNCHANGED <<locked, fail_count, hash>>
    /\ UNCHANGED delay

\* Mutant: other requests pass the gate, too.
Gate_open == TRUE

\* While the agent is locked only unlock passes the gate of the main loop.
Gate == ~locked

\* An account is loaded; a plain load has no access token, a public client
\* no secret.
oidcd_handleAdd ==
    /\ Gate
    /\ Len(accounts) < MaxAccounts
    /\ \E shape \in Shapes :
          accounts' = Append(accounts, [x \in Fields |-> IF x \in shape THEN <<>> ELSE Absent])
    /\ torn' = Append(torn, FALSE)
    /\ UNCHANGED <<locked, hash, fail_count, delay>>

Without(s, i) == [j \in 1..(Len(s) - 1) |-> IF j < i THEN s[j] ELSE s[j + 1]]

Removed(i) == accounts' = Without(accounts, i) /\ torn' = Without(torn, i)

oidcd_handleRm ==
    /\ Gate
    /\ \E i \in DOMAIN accounts : Removed(i)
    /\ UNCHANGED <<locked, hash, fail_count, delay>>

\* A refresh flow obtains an access token, if the refresh token and the
\* client credentials can be read.
oidcd_handleToken ==
    /\ Gate
    /\ \E i \in DOMAIN accounts :
          /\ accounts[i][RT] = <<>> /\ accounts[i][CID] = <<>> /\ accounts[i][CS] \in {<<>>, Absent}
          /\ accounts' = [accounts EXCEPT ![i][AT] = <<>>]
    /\ UNCHANGED <<locked, hash, fail_count, delay, torn>>

\* The lifetime of an account ends, whether or not the agent is locked.
removeDeathAccounts ==
    /\ \E i \in DOMAIN accounts : Removed(i)
    /\ UNCHANGED <<locked, hash, fail_count, delay>>

Next ==
    \/ \E p \in Passwords : lock(p) \/ unlockWrong(p) \/ unlock(p)
    \/ oidcd_handleAdd \/ oidcd_handleRm \/ oidcd_handleToken \/ removeDeathAccounts

Spec == Init /\ [][Next]_vars
-----------------------------------------------------------------------------
(* Properties.                                                             *)

\* While the agent is locked every credential of an account is under exactly
\* one layer of the password that unlocks it, and otherwise under none, unless a
\* lock or unlock stopped half way in or behind that very account: what happens to
\* one account in lockEncrypt and lockDecrypt does not spoil the others.
SealedWhenLocked ==
    \A i \in DOMAIN accounts, x \in Fields :
        ~torn[i] /\ accounts[i][x] # Absent => accounts[i][x] = IF locked THEN <<hash>> ELSE <<>>

\* The password that locked the agent unlocks it.  All that lockDecrypt can stop
\* at is the missing secret of a public client, or an account that was left half
\* treated before: no account without tokens ever gets locked.
RightPasswordUnlocks ==
    locked => \A s \in DecryptFails(hash) :
                 torn[s[1]] \/ (s[2] = CS /\ accounts[s[1]][CS] = Absent)

\* While the agent stays locked an account can only disappear when its lifetime
\* ends, and a credential changes only when the right password takes off its
\* outermost layer and lockDecrypt stops later.
LockedIsFrozen ==
    [][locked /\ locked' =>
          \/ \E i \in DOMAIN accounts : accounts' = Without(accounts, i)
          \/ /\ Len(accounts') = Len(accounts)
             /\ \A i \in DOMAIN accounts, x \in Fields :
                   accounts'[i][x] # accounts[i][x] =>
                       torn'[i] /\ accounts[i][x] = <<hash>> \o accounts'[i][x]]_vars

=============================================================================
