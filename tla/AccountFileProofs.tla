------------------------- MODULE AccountFileProofs -------------------------
(***************************************************************************)
(* Proofs about the account file: a stored password is not used after its  *)
(* lifetime; whatever writes left in the file, decrypting it gives nothing *)
(* that was not saved; and as long as no write was cut off or overlapped   *)
(* with another, the file opens with the lock the user chose and holds the *)
(* token the provider accepts.                                             *)
(***************************************************************************)
EXTENDS AccountFile, SequenceTheorems, WellFoundedInduction, TLAPS

\* No entry of the password store has an OpenPGP key next to a password, so
\* that the agent would write a file the user protects by password with it.
NoStoredKey == \A o \in GenOptions : o.pw_gpg = NULL \/ o.pw_env = NULL
-----------------------------------------------------------------------------
(* The password store.                                                     *)

EntryFields ==
    {"type", "password", "command", "filepath", "gpg_key", "expires_at", "expires_after"}

Secret(S) == {NULL} \cup {Seal(x) : x \in S}

IsEntry(e) ==
    /\ DOMAIN e = EntryFields
    /\ e.password \in Secret(Passwords) /\ e.command \in Secret(Passwords)
    /\ e.filepath \in Secret(Passwords) /\ e.gpg_key \in Secret(Keys)
    /\ e.expires_at \in Nat /\ e.expires_after \in Nat

\* A password with a lifetime that was given at d dies in time.
Dies(e, d) ==
    e.expires_after # 0 =>
        /\ e.expires_at <= d + e.expires_after
        /\ e.password # NULL => e.expires_at # 0

\* The entry e of a password given at d.
EntryOK(e, d) == e # NULL => IsEntry(e) /\ Dies(e, d)

StoreInv ==
    /\ now \in Nat /\ given \in 0..now
    /\ lock \in Passwords \cup Keys
    /\ EntryOK(entry, given)
    /\ late = FALSE
-----------------------------------------------------------------------------
(* What is in files.                                                       *)

Nonces == Salts \cup {NULL}
BoxKeys == {"encrypt"} \X Passwords \X Nonces
HashKeys == {"hash"} \X Passwords \X Nonces
HexKeys == Legacy \X Passwords \X Nonces
Parts == {"hole", "len", "nonce", "salt", "params", "cipher", "hash", "version", "hex", "begin", "body", "end"}

\* The lines of writes of the texts up to n: the message of gpg, another line
\* with a text, or one that no decryption takes a text from.
BodyLines(n) == [part : {"body"}, key : Keys, nonce : Nonces, text : 1..n, whole : BOOLEAN]
TextLines(n) ==
    [part : Parts \ {"body"}, key : {NULL} \cup BoxKeys \cup HexKeys, nonce : Nonces, text : 1..n, whole : BOOLEAN]
BareLines ==
    [part : Parts \ {"hex", "body"}, key : {NULL} \cup HashKeys, nonce : Nonces, text : {NULL}, whole : BOOLEAN]
Lines(n) == BodyLines(n) \cup TextLines(n) \cup BareLines

Content(n) == {NULL} \cup Seq(Lines(n))

Procs == {"p", "g"}

\* What oidcp, oidc-gen and a write hold when the texts up to n were made.
ProcOK(x, n) == DOMAIN x = {"at", "read", "tries"} /\ x.read \in Content(n)

GenOK(x, n) ==
    /\ DOMAIN x = {"at", "read", "tries", "text", "opt"}
    /\ x.read \in Content(n)
    /\ x.at = "save" => x.text \in 1..n
    /\ x.at = "open" => x.read \in Seq(Lines(n))
    /\ x.at \in {"save", "open"} => x.opt \in GenOptions

WriteOK(x, f, n) ==
    /\ DOMAIN x = {"lines", "done", "linked", "chosen"}
    /\ x.lines \in Content(n)
    /\ x.done \in {NULL} \cup 0..6
    /\ x.chosen \in Passwords \cup Keys \cup {NULL}
    /\ x.done # NULL => x.lines \in Seq(Lines(n))
    /\ x.done # NULL /\ x.linked => f \in Seq(Lines(n))

LinesInv ==
    /\ token \in 1..MaxToken /\ file \in Content(token)
    /\ ProcOK(p, token) /\ GenOK(g, token)
    /\ DOMAIN w = Procs
    /\ \A i \in Procs : WriteOK(w[i], file, token)
-----------------------------------------------------------------------------
(* Files that were written in peace.                                       *)

\* The lines f are a whole file of the text t that opens with l.
Whole(f, l, t) ==
    \/ /\ l \in Keys
       /\ \E k \in Keys : f = encryptPGPWithVersionLine(t, k)
    \/ /\ l \in Passwords
       /\ \E s \in Salts : \/ f = encryptWithVersionLine(t, l, s)
                           \/ \E v \in Legacy : f = crypt_encrypt_hex(t, l, s, v)

\* f, if there is one, is a whole file of one of n texts, and of the last if
\* that is sure.
Rested(f, l, n, sure) == f # NULL => \E t \in 1..n : Whole(f, l, t) /\ (sure => t = n)

\* What the write x, which has begun, left of its lines in f.
Begun(f, x) ==
    IF x.linked THEN Len(f) = x.done /\ x.done <= Len(x.lines) /\ \A j \in 1 .. x.done - 1 : f[j] = x.lines[j]
    ELSE f = NULL

\* The write x is of a whole file, for the lock the user then has.
Carried(x, f, l, n, sure) ==
    /\ \E t \in 1..n : Whole(x.lines, FirstOf(x.chosen, l), t) /\ (sure => t = n)
    /\ x.done # NULL => FirstOf(x.chosen, l) = l /\ Begun(f, x)

BusyStates == {"update", "rewrite", "write"}

\* The account when no two wrote at once and no write was cut off: f is the
\* file with the lock l, n the last text, a and b what oidcp and oidc-gen do,
\* x and y their writes; st tells that the last text was not saved.
Calm(f, n, l, a, b, x, y, st) ==
    /\ a.at \in BusyStates => b.at = "idle"
    /\ a.at = "update" => Rested(a.read, l, n, FALSE)
    /\ b.at = "open" => b.read # NULL /\ Rested(b.read, l, n, ~st)
    /\ b.at = "save" => b.text = n /\ b.read = NULL
    /\ a.at = "write" => Carried(x, f, l, n, TRUE)
    /\ b.at = "write" => Carried(y, f, l, n, b.read = NULL \/ ~st)
    /\ x.done = NULL /\ y.done = NULL =>
         Rested(f, l, n, ~st /\ a.at \notin BusyStates /\ ~(b.at \in {"save", "write"} /\ b.read = NULL))

\* Who is not writing has no write.
Quiet(x, at) ==
    /\ at # "write" => x.lines = NULL /\ x.done = NULL
    /\ x.done = NULL => x.linked

\* No key is taken from the store.
NoKey(e) == e # NULL /\ "MEM" \in e.type => e.gpg_key = NULL

PeaceInv ==
    /\ Quiet(w["p"], p.at) /\ Quiet(w["g"], g.at)
    /\ NoKey(entry)
    /\ ~hurt => Calm(file, token, lock, p, g, w["p"], w["g"], stale)
-----------------------------------------------------------------------------
(* The password store: what its operations leave.                          *)

LEMMA Secrets ==
    ASSUME NEW S
    PROVE  /\ \A x \in S \cup {NULL} : encryptPassword(x) \in Secret(S)
           /\ \A c \in Secret(S) : decryptPassword(c) \in S \cup {NULL}
<1>1. ASSUME NEW x \in S \cup {NULL} PROVE encryptPassword(x) \in Secret(S)
  BY Zenon DEF Secret, encryptPassword
<1>2. ASSUME NEW c \in Secret(S) PROVE decryptPassword(c) \in S \cup {NULL}
  <2>1. CASE c = NULL
    BY <2>1 DEF decryptPassword
  <2>2. CASE c # NULL
    <3>1. PICK x \in S : c = [sealed |-> x]
      BY <2>2 DEF Secret, Seal
    <3> QED
      BY <2>2, <3>1 DEF decryptPassword
  <2> QED
    BY <2>1, <2>2
<1> QED
  BY <1>1, <1>2

LEMMA SetPassword ==
    ASSUME NEW e, IsEntry(e), NEW x \in Secret(Passwords), NEW n \in Nat
    PROVE  LET s == pwe_setPassword(e, x, n) IN
           /\ IsEntry(s) /\ s.password = x /\ s.expires_after = e.expires_after
           /\ s.type = e.type /\ s.gpg_key = e.gpg_key
           /\ s.expires_at = IF x # e.password /\ e.expires_at = 0 /\ e.expires_after # 0
                             THEN n + e.expires_after ELSE e.expires_at
BY DEF pwe_setPassword, IsEntry, EntryFields

\* An entry as a client sends it: nothing in it is sealed yet.
IsRequest(e) ==
    /\ DOMAIN e = EntryFields
    /\ e.password \in Passwords \cup {NULL} /\ e.command \in Passwords \cup {NULL}
    /\ e.filepath \in Passwords \cup {NULL} /\ e.gpg_key \in Keys \cup {NULL}
    /\ e.expires_at \in Nat /\ e.expires_after \in Nat

LEMMA AddEntry ==
    ASSUME NEW o \in AddOptions, NEW x \in Passwords \cup {NULL}, NEW n \in Nat
    PROVE  LET e == add_passwordEntry(o, x, n) IN
           IsRequest(e) /\ Dies(e, n) /\ e.gpg_key = NULL
<1> DEFINE life == getPWExpiresInDependingOn(o)
           held == storePW(o) /\ x # NULL
           env == o.pw_env # NULL /\ ~held
           timed == IF held THEN pwe_setExpiresIn([EmptyEntry EXCEPT !.password = x], life, n)
                    ELSE IF env THEN [EmptyEntry EXCEPT !.password = x] ELSE EmptyEntry
<1>1. /\ life \in Nat
      /\ o.pw_cmd \in Passwords \cup {NULL} /\ o.pw_file \in Passwords \cup {NULL}
  BY OptionsAssumption DEF getPWExpiresInDependingOn
<1>2. IsRequest(timed) /\ Dies(timed, n) /\ timed.gpg_key = NULL
  <2> HIDE DEF life
  <2> QED
    BY <1>1 DEF IsRequest, Dies, pwe_setExpiresIn, EmptyEntry, EntryFields
<1> HIDE DEF timed, env, held
<1>3. add_passwordEntry(o, x, n) =
        [timed EXCEPT !.command = o.pw_cmd, !.filepath = o.pw_file,
                      !.type = {"PRMT"} \cup (IF o.pw_cmd # NULL THEN {"CMD"} ELSE {})
                                        \cup (IF held \/ env THEN {"MEM"} ELSE {})
                                        \cup (IF o.pw_file # NULL THEN {"FILE"} ELSE {})]
  BY Zenon DEF add_passwordEntry, timed, env, held, life
<1> QED
  BY <1>1, <1>2, <1>3 DEF IsRequest, Dies, EntryFields

LEMMA GenEntry ==
    ASSUME NEW o \in GenOptions
    PROVE  LET e == gen_passwordEntry(o) IN
           /\ IsRequest(e) /\ e.expires_after = 0
           /\ NoStoredKey /\ "MEM" \in e.type => e.gpg_key = NULL
BY OptionsAssumption DEF gen_passwordEntry, IsRequest, EmptyEntry, EntryFields, NoStoredKey

LEMMA AutoloadEntry ==
    ASSUME NEW x \in Passwords
    PROVE  LET e == autoload_passwordEntry(x) IN
           IsRequest(e) /\ e.expires_after = 0 /\ e.gpg_key = NULL
BY DEF autoload_passwordEntry, IsRequest, EmptyEntry, EntryFields

LEMMA SavedEntry ==
    ASSUME NEW e, IsRequest(e), NEW n \in Nat, Dies(e, n)
    PROVE  LET s == savePassword(e, n) IN
           /\ IsEntry(s) /\ Dies(s, n) /\ s.expires_after = e.expires_after
           /\ s.type = e.type /\ (e.gpg_key = NULL => s.gpg_key = NULL)
<1> DEFINE sealed == IF e.password = NULL THEN e
                     ELSE pwe_setPassword(e, encryptPassword(e.password), n)
<1>1. /\ DOMAIN sealed = EntryFields /\ sealed.password \in Secret(Passwords)
      /\ sealed.command = e.command /\ sealed.filepath = e.filepath /\ sealed.gpg_key = e.gpg_key
      /\ sealed.expires_at \in Nat /\ sealed.expires_after = e.expires_after
      /\ sealed.type = e.type /\ Dies(sealed, n)
  <2>1. CASE e.password = NULL
    BY <2>1 DEF IsRequest, Secret
  <2>2. CASE e.password # NULL
    <3>1. encryptPassword(e.password) \in Secret(Passwords)
      BY Secrets DEF IsRequest
    <3> QED
      BY <2>2, <3>1 DEF IsRequest, pwe_setPassword, Dies, EntryFields
  <2> QED
    BY <2>1, <2>2
<1>2. /\ encryptPassword(e.command) \in Secret(Passwords)
      /\ encryptPassword(e.filepath) \in Secret(Passwords)
      /\ encryptPassword(e.gpg_key) \in Secret(Keys)
      /\ e.gpg_key = NULL => encryptPassword(e.gpg_key) = NULL
  BY Secrets DEF IsRequest, encryptPassword
<1>3. savePassword(e, n) = [sealed EXCEPT !.command = encryptPassword(@), !.filepath = encryptPassword(@),
                                          !.gpg_key = encryptPassword(@)]
  BY Zenon DEF savePassword
<1> HIDE DEF sealed
<1> QED
  BY <1>1, <1>2, <1>3 DEF IsRequest, IsEntry, Dies, EntryFields

\* The entry e, not older than now, in the place of the account's entry.
LEMMA NewEntry ==
    ASSUME StoreInv, NEW e, e # NULL => IsEntry(e) /\ Dies(e, now)
    PROVE  EntryOK(e, Given(e)) /\ Given(e) \in 0..now
<1>1. CASE e = entry
  BY <1>1 DEF StoreInv, Given
<1>2. CASE e # entry
  BY <1>2 DEF StoreInv, Given, EntryOK, IsEntry, Dies
<1> QED
  BY <1>1, <1>2

\* What was given earlier could have been given now.
LEMMA DiesLater ==
    ASSUME StoreInv, entry # NULL
    PROVE  IsEntry(entry) /\ Dies(entry, now)
BY DEF StoreInv, EntryOK, Dies, IsEntry

LEMMA HandledSave ==
    ASSUME StoreInv, NEW e, IsRequest(e), Dies(e, now)
    PROVE  LET s == pw_handleSave(entry, e, now)
           IN  EntryOK(s, Given(s)) /\ Given(s) \in 0..now
<1>1. now \in Nat
  BY DEF StoreInv
<1> DEFINE s == savePassword(e, now)
<1>2. EntryOK(s, Given(s)) /\ Given(s) \in 0..now
  <2>1. IsEntry(s) /\ Dies(s, now)
    BY <1>1, SavedEntry
  <2> HIDE DEF s
  <2> QED
    BY <2>1, NewEntry
<1>3. EntryOK(entry, Given(entry)) /\ Given(entry) \in 0..now
  BY DEF StoreInv, Given
<1>4. pw_handleSave(entry, e, now) \in {entry, s}
  BY DEF pw_handleSave
<1> QED
  BY <1>2, <1>3, <1>4

LEMMA Swept ==
    ASSUME StoreInv
    PROVE  LET s == removeDeathPasswords(entry, now) IN
           /\ EntryOK(s, given)
           /\ s # NULL => entry # NULL /\ s.type = entry.type /\ s.gpg_key = entry.gpg_key
<1>1. CASE ~getDeathPasswordEntry(entry, now)
  BY <1>1 DEF StoreInv, removeDeathPasswords
<1>2. CASE getDeathPasswordEntry(entry, now)
  <2> DEFINE s == pwe_setPassword(entry, NULL, now)
  <2>1. entry # NULL /\ IsEntry(entry) /\ now \in Nat /\ given \in Nat
    BY <1>2 DEF getDeathPasswordEntry, StoreInv, EntryOK
  <2>2. /\ IsEntry(s) /\ s.password = NULL /\ s.expires_after = entry.expires_after
        /\ s.type = entry.type /\ s.gpg_key = entry.gpg_key
    <3>1. NULL \in Secret(Passwords)
      BY DEF Secret
    <3> QED
      BY <2>1, <3>1, SetPassword
  <2>3. removeDeathPasswords(entry, now) = [s EXCEPT !.expires_at = 0]
    BY <1>2, <2>1 DEF removeDeathPasswords, expirePasswordFor
  <2> HIDE DEF s
  <2> QED
    BY <2>1, <2>2, <2>3 DEF EntryOK, IsEntry, Dies, EntryFields
<1> QED
  BY <1>1, <1>2

\* A password is taken from memory only within its lifetime, and what a
\* prompt puts there starts a new one.
LEMMA Asked ==
    ASSUME StoreInv, NEW answer \in Passwords \cup {NULL}
    PROVE  LET res == getPasswordFor(entry, answer, now) IN
           /\ ~(res.from = "MEM" /\ entry.expires_after # 0 /\ now - given > entry.expires_after)
           /\ res.pw \in Passwords \cup {NULL}
           /\ EntryOK(res.entry, Given(res.entry)) /\ Given(res.entry) \in 0..now
           /\ res.entry # NULL => /\ entry # NULL /\ res.entry.type = entry.type
                                  /\ res.entry.gpg_key = entry.gpg_key
<1> DEFINE res == getPasswordFor(entry, answer, now)
           st == Stored(entry, now)
           new == pwe_setPassword(entry, encryptPassword(answer), now)
<1> SUFFICES
           /\ ~(res.from = "MEM" /\ entry.expires_after # 0 /\ now - given > entry.expires_after)
           /\ res.pw \in Passwords \cup {NULL}
           /\ EntryOK(res.entry, Given(res.entry)) /\ Given(res.entry) \in 0..now
           /\ res.entry # NULL => /\ entry # NULL /\ res.entry.type = entry.type
                                  /\ res.entry.gpg_key = entry.gpg_key
  OBVIOUS
<1>1. EntryOK(entry, Given(entry)) /\ Given(entry) \in 0..now
  BY DEF StoreInv, Given
<1>2. CASE entry = NULL
  <2>1. res = [from |-> "PRMT", pw |-> answer, entry |-> NULL]
    BY <1>2 DEF getPasswordFor
  <2> HIDE DEF res
  <2> QED
    BY <1>1, <1>2, <2>1
<1>3. CASE entry # NULL
  <2>1. IsEntry(entry) /\ Dies(entry, given) /\ now \in Nat /\ given \in 0..now
    BY <1>3 DEF StoreInv, EntryOK
  <2>2. /\ st.pw \in Passwords \cup {NULL}
        /\ st.from = "MEM" => memory_getPasswordFor(entry, now) # NULL
    <3>1. memory_getPasswordFor(entry, now) \in Secret(Passwords)
      BY <2>1 DEF memory_getPasswordFor, IsEntry, Secret
    <3>2. /\ decryptPassword(memory_getPasswordFor(entry, now)) \in Passwords \cup {NULL}
          /\ decryptPassword(entry.command) \in Passwords \cup {NULL}
          /\ decryptPassword(entry.filepath) \in Passwords \cup {NULL}
      BY <2>1, <3>1, Secrets DEF IsEntry
    <3> QED
      BY <3>2 DEF Stored
  <2>3. st.from = "MEM" /\ entry.expires_after # 0 => now - given <= entry.expires_after
    BY <2>1, <2>2 DEF memory_getPasswordFor, Dies, IsEntry
  <2>4. EntryOK(new, Given(new)) /\ Given(new) \in 0..now /\ new.type = entry.type /\ new.gpg_key = entry.gpg_key
    <3>1. encryptPassword(answer) \in Secret(Passwords)
      BY Secrets
    <3>2. IsEntry(new) /\ Dies(new, now) /\ new.type = entry.type /\ new.gpg_key = entry.gpg_key
      <4>1. /\ IsEntry(new) /\ new.password = encryptPassword(answer)
            /\ new.expires_after = entry.expires_after
            /\ new.type = entry.type /\ new.gpg_key = entry.gpg_key
            /\ new.expires_at = IF encryptPassword(answer) # entry.password /\ entry.expires_at = 0
                                       /\ entry.expires_after # 0
                                THEN now + entry.expires_after ELSE entry.expires_at
        BY <2>1, <3>1, SetPassword
      <4> HIDE DEF new
      <4> QED
        BY <2>1, <4>1 DEF Dies, IsEntry
    <3> HIDE DEF new
    <3> QED
      BY <3>2, NewEntry
  <2>5. \/ res = [from |-> st.from, pw |-> st.pw, entry |-> entry]
        \/ res = [from |-> "PRMT", pw |-> NULL, entry |-> entry]
        \/ res = [from |-> "PRMT", pw |-> answer, entry |-> entry]
        \/ res = [from |-> "PRMT", pw |-> answer, entry |-> new]
    BY <1>3 DEF getPasswordFor
  <2> HIDE DEF st, new, res
  <2>6. now - given \in Int /\ entry.expires_after \in Nat
    BY <2>1 DEF IsEntry
  <2>7. CASE res = [from |-> st.from, pw |-> st.pw, entry |-> entry]
    BY <1>1, <1>3, <2>2, <2>3, <2>6, <2>7
  <2>8. CASE res = [from |-> "PRMT", pw |-> NULL, entry |-> entry]
    BY <1>1, <1>3, <2>8
  <2>9. CASE res = [from |-> "PRMT", pw |-> answer, entry |-> entry]
    BY <1>1, <1>3, <2>9
  <2>10. CASE res = [from |-> "PRMT", pw |-> answer, entry |-> new]
    BY <1>3, <2>4, <2>10
  <2> QED
    BY <2>5, <2>7, <2>8, <2>9, <2>10
<1> QED
  BY <1>2, <1>3
-----------------------------------------------------------------------------
(* Lines: what writes put into files, and what decrypting takes out.       *)

Errors == {ECRYPM, EPASS, EDECRYPT, ENULL, Crash}

LEMMA KeysApart ==
    /\ NULL \notin BoxKeys
    /\ HashKeys \cap BoxKeys = {}
<1>1. NULL \notin BoxKeys
  BY NullAssumption DEF BoxKeys, Nonces
<1>2. HashKeys \cap BoxKeys = {}
  BY DEF HashKeys, BoxKeys
<1> QED
  BY <1>1, <1>2

LEMMA LineFacts ==
    ASSUME NEW n \in Nat, NEW x \in Lines(n)
    PROVE  /\ DOMAIN x = {"part", "key", "nonce", "text", "whole"}
           /\ x.nonce \in Nonces
           /\ \/ x.text \in 1..n
              \/ x.part \notin {"hex", "body"} /\ x.key \notin BoxKeys
           /\ x.part = "body" => x.key \in Keys
<1>1. CASE x \in BodyLines(n)
  BY <1>1 DEF BodyLines
<1>2. CASE x \in TextLines(n)
  BY <1>2 DEF TextLines
<1>3. CASE x \in BareLines
  <2>1. x.key \in {NULL} \cup HashKeys /\ x.part \in Parts \ {"hex", "body"} /\ x.nonce \in Nonces
    BY <1>3 DEF BareLines
  <2>2. DOMAIN x = {"part", "key", "nonce", "text", "whole"}
    BY <1>3 DEF BareLines
  <2> QED
    BY <2>1, <2>2, KeysApart
<1> QED
  BY <1>1, <1>2, <1>3 DEF Lines

\* A line that is cut is still a line.
LEMMA CutLine ==
    ASSUME NEW n \in Nat, NEW x \in Lines(n), NEW b \in BOOLEAN
    PROVE  [x EXCEPT !.whole = b] \in Lines(n)
<1>1. x \in BodyLines(n) => [x EXCEPT !.whole = b] \in BodyLines(n)
  BY DEF BodyLines
<1>2. x \in TextLines(n) => [x EXCEPT !.whole = b] \in TextLines(n)
  BY DEF TextLines
<1>3. x \in BareLines => [x EXCEPT !.whole = b] \in BareLines
  BY DEF BareLines
<1> QED
  BY <1>1, <1>2, <1>3 DEF Lines

\* The lines with a text, and those without.
LEMMA BodyLine ==
    ASSUME NEW n \in Nat, NEW t \in 1..n, NEW k \in Keys
    PROVE  Line("body", k, NULL, t) \in Lines(n)
BY Zenon DEF Line, Lines, BodyLines, Nonces

LEMMA TextLine ==
    ASSUME NEW n \in Nat, NEW t \in 1..n, NEW a \in Parts \ {"body"},
           NEW k \in {NULL} \cup BoxKeys \cup HexKeys, NEW s \in Nonces
    PROVE  Line(a, k, s, t) \in Lines(n)
BY Zenon DEF Line, Lines, TextLines

LEMMA BareLine ==
    ASSUME NEW n \in Nat, NEW a \in Parts \ {"hex", "body"},
           NEW k \in {NULL} \cup HashKeys, NEW s \in Nonces
    PROVE  Line(a, k, s, NULL) \in Lines(n)
BY Zenon DEF Line, Lines, BareLines

LEMMA LinesGrow ==
    ASSUME NEW n \in Nat, NEW m \in Nat, n <= m
    PROVE  Seq(Lines(n)) \subseteq Seq(Lines(m)) /\ Content(n) \subseteq Content(m)
<1>1. Lines(n) \subseteq Lines(m)
  <2>1. 1..n \subseteq 1..m
    OBVIOUS
  <2> QED
    BY <2>1, Zenon DEF Lines, BodyLines, TextLines
<1>2. Seq(Lines(n)) \subseteq Seq(Lines(m))
  BY <1>1
<1> QED
  BY <1>2 DEF Content

\* What encryption makes of a text is lines of that text.
LEMMA LockedLines ==
    ASSUME NEW n \in 1..MaxToken, NEW t \in 1..n, NEW i \in Procs, NEW l \in Passwords \cup Keys
    PROVE  Locked(i, t, l) \in Seq(Lines(n))
<1>1. n \in Nat /\ t \in 1..MaxToken /\ Passwords \cap Keys = {}
  BY AccountFileAssumption
<1>2. NULL \in Nonces
  BY DEF Nonces
<1>3. simpleVersionToVersionLine \in Lines(n)
  BY <1>1, <1>2, BareLine DEF Parts, simpleVersionToVersionLine
<1>4. CASE l \in Keys
  <2>1. Line("begin", NULL, NULL, NULL) \in Lines(n) /\ Line("end", NULL, NULL, NULL) \in Lines(n)
    BY <1>1, <1>2, BareLine DEF Parts
  <2>2. Line("body", l, NULL, t) \in Lines(n)
    BY <1>1, <1>4, BodyLine
  <2> QED
    BY <1>3, <1>4, <2>1, <2>2 DEF Locked, encryptPGPWithVersionLine
<1>5. CASE l \notin Keys
  <2> DEFINE s == Salt(i, t, l)
             box == <<"encrypt", l, s>>
             hash == <<"hash", l, s>>
  <2>1. l \in Passwords /\ s \in Salts /\ s \in Nonces
    BY <1>1, <1>5 DEF Salt, Salts, Nonces, Procs
  <2>2. box \in BoxKeys /\ hash \in HashKeys
    <3> HIDE DEF s
    <3> QED
      BY <2>1 DEF BoxKeys, HashKeys
  <2>3. Locked(i, t, l) =
          Append(<< Line("len", NULL, NULL, t), Line("nonce", NULL, s, NULL), Line("salt", NULL, s, NULL),
                    Line("params", NULL, NULL, NULL), Line("cipher", box, s, t), Line("hash", hash, NULL, NULL) >>,
                 simpleVersionToVersionLine)
    BY <1>5 DEF Locked, encryptWithVersionLine, crypt_encrypt, crypt_keyDerivation_base64, crypt_encryptWithKey
  <2> HIDE DEF s, box, hash
  <2>4. /\ Line("len", NULL, NULL, t) \in Lines(n)
        /\ Line("cipher", box, s, t) \in Lines(n)
    BY <1>1, <1>2, <2>1, <2>2, TextLine DEF Parts
  <2>5. /\ Line("nonce", NULL, s, NULL) \in Lines(n)
        /\ Line("salt", NULL, s, NULL) \in Lines(n)
        /\ Line("params", NULL, NULL, NULL) \in Lines(n)
        /\ Line("hash", hash, NULL, NULL) \in Lines(n)
    BY <1>1, <1>2, <2>1, <2>2, BareLine DEF Parts
  <2> QED
    BY <1>3, <2>3, <2>4, <2>5
<1> QED
  BY <1>4, <1>5

LEMMA HexLines ==
    ASSUME NEW l \in Passwords, NEW v \in Legacy
    PROVE  crypt_encrypt_hex(1, l, Salt("g", 1, l), v) \in Seq(Lines(1))
<1> DEFINE s == Salt("g", 1, l)
           k == <<v, l, s>>
<1>1. s \in Nonces /\ s \in Salts
  BY AccountFileAssumption DEF Salt, Salts, Nonces
<1>2. k \in HexKeys
  <2> HIDE DEF s
  <2> QED
    BY <1>1 DEF HexKeys
<1>3. crypt_encrypt_hex(1, l, s, v) = <<Line("hex", k, s, 1)>>
  BY DEF crypt_encrypt_hex, crypt_keyDerivation_hex
<1> HIDE DEF s, k
<1>4. Line("hex", k, s, 1) \in Lines(1)
  BY <1>1, <1>2, TextLine DEF Parts
<1>5. <<Line("hex", k, s, 1)>> \in Seq(Lines(1))
  BY <1>4
<1>6. crypt_encrypt_hex(1, l, s, v) \in Seq(Lines(1))
  BY <1>3, <1>5, Zenon
<1> QED
  BY <1>6, Zenon DEF s

\* A box gives its own text, of a line that has one.
LEMMA BoxTexts ==
    ASSUME NEW n \in Nat, NEW f \in Seq(Lines(n)), NEW x \in Passwords \cup {NULL}
    PROVE  crypt_decryptFromList(f, x) \subseteq 1..n \cup Errors
<1>1. CASE x = NULL
  BY <1>1 DEF crypt_decryptFromList, Errors
<1>2. CASE x # NULL /\ Len(f) < 6
  BY <1>2 DEF crypt_decryptFromList, Errors
<1>3. CASE x # NULL /\ ~(Len(f) < 6)
  <2> DEFINE h == IF Len(f) > 6 /\ ~f[6].whole THEN [f[6] EXCEPT !.key = NULL] ELSE f[6]
             info == [len |-> f[1], nonce |-> f[2], salt |-> f[3], cipher |-> f[5], hash |-> h]
             key == crypt_keyDerivation_base64(x, info.salt.nonce).encryption_key
  <2>1. f[3] \in Lines(n) /\ f[5] \in Lines(n)
    BY <1>3
  <2>2. crypt_decryptFromList(f, x) = crypt_decrypt_base64(info, x)
    BY <1>3 DEF crypt_decryptFromList
  <2>3. info.cipher = f[5] /\ info.salt = f[3]
    OBVIOUS
  <2> HIDE DEF info
  <2>4. crypt_decrypt_base64(info, x) \subseteq {EPASS} \cup crypt_decryptWithKey(info, key)
    BY DEF crypt_decrypt_base64
  <2>5. key = <<"encrypt", x, f[3].nonce>>
    BY <2>3 DEF crypt_keyDerivation_base64
  <2>6. key \in BoxKeys
    <3>1. f[3].nonce \in Nonces
      BY <2>1, LineFacts
    <3> QED
      BY <1>3, <2>5, <3>1 DEF BoxKeys
  <2>7. f[5].key = key => f[5].text \in 1..n
    BY <2>1, <2>6, LineFacts
  <2> HIDE DEF key
  <2>8. crypt_decryptWithKey(info, key) \subseteq 1..n \cup {EDECRYPT}
    BY <2>3, <2>7 DEF crypt_decryptWithKey
  <2> QED
    BY <2>2, <2>4, <2>8 DEF Errors
<1> QED
  BY <1>1, <1>2, <1>3

LEMMA HexTexts ==
    ASSUME NEW n \in Nat, NEW f \in Seq(Lines(n)), NEW x
    PROVE  decryptHexFileContent(f, x) \subseteq 1..n \cup Errors
<1>1. CASE f = <<>> \/ f[1].part # "hex" \/ x = NULL
  BY <1>1 DEF decryptHexFileContent, Errors
<1>2. CASE f # <<>> /\ f[1].part = "hex" /\ x # NULL
  <2>1. f[1] \in Lines(n)
    BY <1>2
  <2>2. f[1].text \in 1..n
    BY <1>2, <2>1, LineFacts
  <2>3. crypt_decrypt_hex(f[1], x) \subseteq {f[1].text, EPASS}
    BY DEF crypt_decrypt_hex, crypt_decrypt_hex_withParams
  <2>4. decryptHexFileContent(f, x) \subseteq crypt_decrypt_hex(f[1], x) \cup {ECRYPM}
    BY <1>2 DEF decryptHexFileContent
  <2> QED
    BY <2>2, <2>3, <2>4 DEF Errors
<1> QED
  BY <1>1, <1>2

\* Decrypting gives a text that was written, or an error.
LEMMA Texts ==
    ASSUME NEW n \in Nat, NEW f \in Content(n), NEW x \in Passwords \cup {NULL}
    PROVE  decryptFileContent(f, x) \subseteq 1..n \cup Errors
<1>1. CASE f = NULL
  BY <1>1 DEF decryptFileContent, Errors
<1>2. CASE f # NULL
  <2>1. f \in Seq(Lines(n))
    BY <1>2 DEF Content
  <2>2. /\ crypt_decryptFromList(f, x) \subseteq 1..n \cup Errors
        /\ decryptHexFileContent(f, x) \subseteq 1..n \cup Errors
    BY <2>1, BoxTexts, HexTexts
  <2>3. decryptLinesList(f, x) \subseteq 1..n \cup Errors
    BY <2>2, Zenon DEF decryptLinesList
  <2> QED
    BY <1>2, <2>3 DEF decryptFileContent
<1> QED
  BY <1>1, <1>2

LEMMA PGPTexts ==
    ASSUME NEW n \in Nat, NEW f \in Seq(Lines(n))
    PROVE  decryptPGPFileContent(f) \subseteq 1..n \cup Errors
<1>1. gpg_d(f) \subseteq 1..n \cup Errors
  <2>1. CASE Len(f) > 2 /\ f[2].part = "body"
    <3>1. f[2] \in Lines(n)
      BY <2>1
    <3>2. f[2].text \in 1..n
      BY <2>1, <3>1, LineFacts
    <3> QED
      BY <3>2 DEF gpg_d, Errors
  <2>2. CASE ~(Len(f) > 2 /\ f[2].part = "body")
    BY <2>2 DEF gpg_d, Errors
  <2> QED
    BY <2>1, <2>2
<1>2. decryptPGPFileContent(f) \subseteq {Crash} \cup gpg_d(f)
  BY Zenon DEF decryptPGPFileContent
<1> QED
  BY <1>1, <1>2 DEF Errors

LEMMA Listed ==
    ASSUME NEW S, NEW n \in Nat, NEW f \in [1..n -> S]
    PROVE  f \in Seq(S) /\ Len(f) = n
OBVIOUS

LEMMA Shortest ==
    ASSUME NEW T \in SUBSET Nat, T # {}
    PROVE  \E i \in T : \A j \in T : i <= j
<1>1. PICK i \in T : \A j \in T : ~(<<j, i>> \in OpToRel(<, Nat))
  BY WFMin, NatLessThanWellFounded
<1>2. \A j \in T : ~(j < i)
  BY <1>1 DEF OpToRel
<1> QED
  BY <1>2

LEMMA ReadLines ==
    ASSUME NEW S, NEW f \in Seq(S)
    PROVE  /\ readFile(f) \in Seq(S)
           /\ (\A i \in 1..Len(f) : f[i].part # "hole") => readFile(f) = f
<1> DEFINE holes == {i \in DOMAIN f : f[i].part = "hole"}
           m == CHOOSE i \in holes : \A j \in holes : i <= j
<1>1. CASE holes = {}
  BY <1>1 DEF readFile
<1>2. CASE holes # {}
  <2>1. holes \in SUBSET Nat /\ holes \subseteq 1..Len(f)
    OBVIOUS
  <2>2. m \in holes
    <3> HIDE DEF holes
    <3> QED
      BY <1>2, <2>1, Shortest
  <2>3. readFile(f) = SubSeq(f, 1, m - 1)
    BY <1>2 DEF readFile
  <2>4. m \in 1..Len(f) /\ f[m].part = "hole"
    BY <2>1, <2>2
  <2> HIDE DEF m, holes
  <2>5. SubSeq(f, 1, m - 1) \in Seq(S)
    <3>1. \A i \in 1..(m - 1) : f[i] \in S
      BY <2>4
    <3>2. m - 1 \in Int /\ 1 \in Int
      BY <2>4
    <3> QED
      BY <3>1, <3>2, SubSeqProperties
  <2> QED
    BY <2>3, <2>4, <2>5
<1> QED
  BY <1>1, <1>2

LEMMA ReadFile ==
    ASSUME NEW n \in Nat, file \in Content(n)
    PROVE  readOidcFile \in Content(n)
BY ReadLines DEF Content, readOidcFile

LEMMA OverlaidLines ==
    ASSUME NEW n \in Nat, file \in Seq(Lines(n)), NEW new \in Seq(Lines(n)),
           NEW from \in Nat, NEW k \in 0..Len(new)
    PROVE  Overlay(new, from, k) \in Seq(Lines(n))
<1> DEFINE len == IF Len(file) > k THEN Len(file) ELSE k
           h == [i \in 1..len |-> IF from <= i /\ i <= k THEN new[i]
                                  ELSE IF i <= Len(file) THEN file[i] ELSE Hole]
<1>1. Hole \in Lines(n)
  BY BareLine DEF Hole, Parts, Nonces
<1>2. len \in Nat
  OBVIOUS
<1>3. ASSUME NEW i \in 1..len
      PROVE  (IF from <= i /\ i <= k THEN new[i] ELSE IF i <= Len(file) THEN file[i] ELSE Hole) \in Lines(n)
  <2>1. from <= i /\ i <= k => new[i] \in Lines(n)
    BY <1>2
  <2>2. i <= Len(file) => file[i] \in Lines(n)
    BY <1>2
  <2> QED
    BY <1>1, <2>1, <2>2, Zenon
<1>4. h \in [1..len -> Lines(n)]
  BY <1>3
<1>5. Overlay(new, from, k) = h
  BY DEF Overlay
<1> HIDE DEF h, len
<1> QED
  BY <1>2, <1>4, <1>5, Listed
-----------------------------------------------------------------------------
(* A step of oidcp with a password or key: it gives up, tries again, dies, *)
(* or begins to write under what it found.                                 *)

\* What the file held when oidcp looked at it for this step.
Read == IF p.at = "update" THEN p.read ELSE readOidcFile

\* How oidcp came to write under l: with the stored key, with the key of the
\* file it read, or with a password that opened that file.
Found(l) ==
    \/ getGPGKeyFor(entry) # NULL
    \/ l \in Keys /\ Read # NULL /\ isPGPMessage(Read)
    \/ l \in Passwords /\ \E r \in decryptFileContent(Read, l) : r >= 0

Died ==
    /\ p' = Idle /\ w' = [w EXCEPT !["p"] = NoWrite]
    /\ stale' = (stale \/ p.at \in {"update", "rewrite", "write"})
    /\ hurt' = (hurt \/ w["p"].done # NULL)

GaveUp == p' = Idle /\ w' = w /\ stale' = TRUE /\ hurt' = hurt

Retried == p' = [p EXCEPT !.tries = @ + 1] /\ w' = w /\ stale' = stale /\ hurt' = hurt

Wrote(l, c) ==
    /\ w' = [w EXCEPT !["p"] = [lines |-> Locked("p", token, l), done |-> NULL, linked |-> TRUE, chosen |-> c]]
    /\ p' = [Idle EXCEPT !.at = "write"]
    /\ stale' = stale /\ hurt' = hurt

PasswordStep ==
    \/ Died \/ GaveUp \/ Retried
    \/ \E l \in Passwords \cup Keys : Wrote(l, NULL) /\ Found(l)
    \/ \E l \in Passwords \cup Keys : file = NULL /\ Wrote(l, l)

\* The entry after a step of oidcp; only the time it was given may differ.
EntryStep ==
    /\ EntryOK(entry', given') /\ given' \in 0..now
    /\ entry' # NULL => entry # NULL /\ entry'.type = entry.type /\ entry'.gpg_key = entry.gpg_key
    /\ late' = late

LEMMA StoredKey ==
    ASSUME StoreInv
    PROVE  getGPGKeyFor(entry) \in Keys \cup {NULL}
<1>1. CASE entry # NULL /\ "MEM" \in entry.type
  <2>1. entry.gpg_key \in Secret(Keys)
    BY <1>1 DEF StoreInv, EntryOK, IsEntry
  <2> QED
    BY <1>1, <2>1, Secrets DEF getGPGKeyFor
<1>2. CASE ~(entry # NULL /\ "MEM" \in entry.type)
  BY <1>2 DEF getGPGKeyFor
<1> QED
  BY <1>1, <1>2

LEMMA FileKey ==
    ASSUME NEW n \in Nat, NEW f \in Content(n), f # NULL
    PROVE  extractPGPKeyID(f) \in Keys \cup {NULL}
<1>1. f \in Seq(Lines(n))
  BY DEF Content
<1>2. CASE Len(f) > 2 /\ f[2].part = "body"
  <2>1. f[2] \in Lines(n)
    BY <1>1, <1>2
  <2>2. f[2].key \in Keys
    BY <1>2, <2>1, LineFacts
  <2> QED
    BY <2>2 DEF extractPGPKeyID
<1>3. CASE ~(Len(f) > 2 /\ f[2].part = "body")
  BY <1>3 DEF extractPGPKeyID
<1> QED
  BY <1>2, <1>3

LEMMA KeptEntry ==
    ASSUME StoreInv, UNCHANGED <<late, given>>, entry' \in {entry, NULL}
    PROVE  EntryStep
BY DEF StoreInv, EntryStep, EntryOK

LEMMA Tried ==
    ASSUME StoreInv, LinesInv, NEW a \in Answers, TryPassword(Read, a)
    PROVE  PasswordStep /\ EntryStep
<1> DEFINE res == getPasswordFor(entry, a, now)
<1>1. /\ ~(res.from = "MEM" /\ entry.expires_after # 0 /\ now - given > entry.expires_after)
      /\ res.pw \in Passwords \cup {NULL}
      /\ EntryOK(res.entry, Given(res.entry)) /\ Given(res.entry) \in 0..now
      /\ res.entry # NULL => /\ entry # NULL /\ res.entry.type = entry.type
                             /\ res.entry.gpg_key = entry.gpg_key
  BY Asked DEF Answers
<1>2. token \in Nat /\ Read \in Content(token)
  BY ReadFile DEF LinesInv, ProcOK, Read
<1>3. /\ late' = (late \/ (res.from = "MEM" /\ entry.expires_after # 0 /\ now - given > entry.expires_after))
      /\ given' = Given(res.entry)
      /\ IF res.pw = NULL THEN Fail(res.entry)
         ELSE \E r \in decryptFileContent(Read, res.pw) : Decrypted(r, res.pw, res.entry)
  BY DEF TryPassword
<1> HIDE DEF res
<1>4. late' = late
  BY <1>1, <1>3 DEF StoreInv
<1>5. ASSUME entry' \in {res.entry, NULL} PROVE EntryStep
  <2>1. CASE entry' = NULL
    BY <1>1, <1>3, <1>4, <2>1 DEF EntryStep, EntryOK
  <2>2. CASE entry' = res.entry
    BY <1>1, <1>3, <1>4, <2>2 DEF EntryStep
  <2> QED
    BY <1>5, <2>1, <2>2
<1>6. ASSUME Fail(res.entry) PROVE GaveUp /\ entry' = res.entry
  BY <1>6 DEF Fail, Done, GaveUp
<1>7. CASE res.pw = NULL
  BY <1>3, <1>5, <1>6, <1>7 DEF PasswordStep
<1>8. CASE res.pw # NULL
  <2>1. PICK r \in decryptFileContent(Read, res.pw) : Decrypted(r, res.pw, res.entry)
    BY <1>3, <1>8
  <2>2. res.pw \in Passwords
    BY <1>1, <1>8
  <2>3. r \in Int
    <3>1. decryptFileContent(Read, res.pw) \subseteq 1..token \cup Errors
      BY <1>1, <1>2, Texts
    <3> QED
      BY <2>1, <3>1 DEF Errors, ECRYPM, EPASS, EDECRYPT, ENULL, Crash
  <2>4. CASE r = Crash
    <3>1. Die
      BY <2>1, <2>4 DEF Decrypted, Crash
    <3> QED
      BY <1>5, <3>1 DEF Die, PasswordStep, Died
  <2>5. CASE r # Crash /\ r >= 0
    <3>1. updateRT(res.pw, NULL, res.entry)
      BY <2>1, <2>5 DEF Decrypted
    <3>2. Wrote(res.pw, NULL) /\ entry' = res.entry
      BY <3>1 DEF updateRT, encryptAndWriteToOidcFile, Wrote
    <3>3. Found(res.pw)
      BY <2>1, <2>2, <2>5 DEF Found
    <3> QED
      BY <1>5, <2>2, <3>2, <3>3 DEF PasswordStep
  <2>6. CASE r # Crash /\ ~(r >= 0)
    <3>1. Again(res.entry)
      BY <2>1, <2>6 DEF Decrypted
    <3>2. (Retried \/ GaveUp) /\ entry' = res.entry
      BY <1>6, <3>1 DEF Again, Retried
    <3> QED
      BY <1>5, <3>2 DEF PasswordStep
  <2> QED
    BY <2>3, <2>4, <2>5, <2>6
<1> QED
  BY <1>7, <1>8

LEMMA KeyWritten ==
    ASSUME StoreInv, UNCHANGED <<late, given>>, NEW l \in Passwords \cup Keys, Found(l), updateRT(l, NULL, entry)
    PROVE  PasswordStep /\ EntryStep
<1>1. Wrote(l, NULL) /\ entry' = entry
  BY DEF updateRT, encryptAndWriteToOidcFile, Wrote
<1> QED
  BY <1>1, KeptEntry DEF PasswordStep

LEMMA UpdateTried ==
    ASSUME StoreInv, LinesInv, NEW a \in Answers, updateRefreshTokenTry(a)
    PROVE  PasswordStep /\ EntryStep
<1>1. p.at = "update" /\ Read = p.read
  BY DEF updateRefreshTokenTry, Read
<1>2. CASE ~(p.read # NULL /\ isPGPMessage(p.read))
  <2>1. TryPassword(Read, a)
    BY <1>1, <1>2 DEF updateRefreshTokenTry
  <2> QED
    BY <2>1, Tried
<1>3. CASE p.read # NULL /\ isPGPMessage(p.read)
  <2> DEFINE key == IF getGPGKeyFor(entry) # NULL THEN getGPGKeyFor(entry) ELSE extractPGPKeyID(p.read)
  <2>1. UNCHANGED <<late, given>> /\ updateRefreshTokenUsingGPG
    BY <1>3 DEF updateRefreshTokenTry
  <2>2. token \in Nat /\ p.read \in Content(token)
    BY DEF LinesInv, ProcOK
  <2>3. key \in Keys \cup {NULL}
    BY <1>3, <2>2, StoredKey, FileKey
  <2>4. key # NULL => key \in Passwords \cup Keys /\ Found(key)
    <3> HIDE DEF key
    <3> QED
      BY <1>1, <1>3, <2>3 DEF Found
  <2>5. \/ key = NULL /\ Fail(entry)
        \/ key # NULL /\ \E r \in decryptPGPFileContent(p.read) :
              CASE r = Crash -> Die
                [] r >= 0 -> updateRT(key, NULL, entry)
                [] OTHER -> Fail(entry)
    BY <2>1 DEF updateRefreshTokenUsingGPG
  <2> HIDE DEF key
  <2>6. decryptPGPFileContent(p.read) \subseteq Int
    <3>1. p.read \in Seq(Lines(token))
      BY <1>3, <2>2 DEF Content
    <3>2. decryptPGPFileContent(p.read) \subseteq 1..token \cup Errors
      BY <2>2, <3>1, PGPTexts
    <3> QED
      BY <2>2, <3>2 DEF Errors, ECRYPM, EPASS, EDECRYPT, ENULL, Crash
  <2>7. Fail(entry) \/ Die \/ (key # NULL /\ updateRT(key, NULL, entry))
    BY <2>5, <2>6 DEF Crash
  <2>8. CASE Fail(entry)
    <3>1. GaveUp /\ entry' = entry
      BY <2>8 DEF Fail, Done, GaveUp
    <3> QED
      BY <2>1, <3>1, KeptEntry DEF PasswordStep
  <2>9. CASE Die
    <3>1. Died /\ entry' = NULL
      BY <2>9 DEF Die, Died
    <3> QED
      BY <2>1, <3>1, KeptEntry DEF PasswordStep
  <2>10. CASE key # NULL /\ updateRT(key, NULL, entry)
    BY <2>1, <2>4, <2>10, KeyWritten
  <2> QED
    BY <2>7, <2>8, <2>9, <2>10
<1> QED
  BY <1>2, <1>3

LEMMA RewriteTried ==
    ASSUME StoreInv, LinesInv, NEW a \in Answers, writeOIDCFile(a)
    PROVE  PasswordStep /\ EntryStep
<1> DEFINE key == IF getGPGKeyFor(entry) # NULL THEN getGPGKeyFor(entry) ELSE extractPGPKeyIDFromOIDCFile
<1>1. Read = readOidcFile
  BY DEF writeOIDCFile, Read
<1>2. token \in Nat /\ readOidcFile \in Content(token)
  BY ReadFile DEF LinesInv
<1>3. extractPGPKeyIDFromOIDCFile # NULL => readOidcFile # NULL /\ isPGPMessage(readOidcFile)
  BY DEF extractPGPKeyIDFromOIDCFile
<1>4. extractPGPKeyIDFromOIDCFile \in Keys \cup {NULL}
  BY <1>2, FileKey DEF extractPGPKeyIDFromOIDCFile
<1>5. key # NULL => key \in Passwords \cup Keys /\ Found(key)
  <2>1. key \in Keys \cup {NULL}
    BY <1>4, StoredKey
  <2>2. key # NULL => getGPGKeyFor(entry) # NULL \/ (Read # NULL /\ isPGPMessage(Read))
    BY <1>1, <1>3
  <2> HIDE DEF key
  <2> QED
    BY <2>1, <2>2 DEF Found
<1>6. \/ key # NULL /\ updateRT(key, NULL, entry) /\ UNCHANGED <<late, given>>
      \/ \E l \in Passwords \cup Keys : file = NULL /\ updateRT(l, l, entry) /\ UNCHANGED <<late, given>>
      \/ TryPassword(readOidcFile, a)
  BY AccountFileAssumption DEF writeOIDCFile, Answers
<1> HIDE DEF key
<1>7. CASE key # NULL /\ updateRT(key, NULL, entry) /\ UNCHANGED <<late, given>>
  BY <1>5, <1>7, KeyWritten
<1>8. ASSUME NEW l \in Passwords \cup Keys, file = NULL, updateRT(l, l, entry), UNCHANGED <<late, given>>
      PROVE  PasswordStep /\ EntryStep
  <2>1. Wrote(l, l) /\ entry' = entry
    BY <1>8 DEF updateRT, encryptAndWriteToOidcFile, Wrote
  <2> QED
    BY <1>8, <2>1, KeptEntry DEF PasswordStep
<1>9. CASE TryPassword(readOidcFile, a)
  BY <1>1, <1>9, Tried
<1> QED
  BY <1>6, <1>7, <1>8, <1>9
-----------------------------------------------------------------------------
(* The steps keep the password store and the lines of files in order.      *)

LEMMA StoreSame ==
    ASSUME StoreInv, UNCHANGED <<now, entry, given, late>>, lock' \in Passwords \cup Keys
    PROVE  StoreInv'
BY DEF StoreInv

LEMMA StoreMoved ==
    ASSUME StoreInv, UNCHANGED <<now, lock, late>>, EntryOK(entry', given'), given' \in 0..now
    PROVE  StoreInv'
BY DEF StoreInv

LEMMA LinesSame ==
    ASSUME LinesInv, UNCHANGED <<file, token, p, g, w>>
    PROVE  LinesInv'
BY DEF LinesInv

LEMMA NoWriteOK ==
    ASSUME NEW f, NEW n
    PROVE  WriteOK(NoWrite, f, n)
BY DEF WriteOK, NoWrite, Content

LEMMA OneWrite ==
    ASSUME LinesInv, NEW i \in Procs, NEW x, WriteOK(x, file, token), UNCHANGED <<token, file>>,
           w' = [w EXCEPT ![i] = x], ProcOK(p', token), GenOK(g', token)
    PROVE  LinesInv'
<1>1. DOMAIN w' = Procs /\ \A j \in Procs : w'[j] \in {w[j], x} /\ (w'[j] = x => WriteOK(w'[j], file, token))
  BY DEF LinesInv
<1>2. \A j \in Procs : WriteOK(w'[j], file, token)
  BY <1>1 DEF LinesInv
<1>3. token \in 1..MaxToken /\ file \in Content(token)
  BY DEF LinesInv
<1> QED
  BY <1>1, <1>2, <1>3 DEF LinesInv

LEMMA IdleOK ==
    ASSUME NEW n
    PROVE  ProcOK(Idle, n) /\ GenOK(GenIdle, n) /\ ProcOK([Idle EXCEPT !.at = "write"], n)
BY DEF ProcOK, GenOK, Idle, GenIdle, Content

LEMMA NewWriteOK ==
    ASSUME NEW f, NEW n \in 1..MaxToken, NEW t \in 1..n, NEW i \in Procs, NEW l \in Passwords \cup Keys,
           NEW c \in Passwords \cup Keys \cup {NULL}
    PROVE  WriteOK([lines |-> Locked(i, t, l), done |-> NULL, linked |-> TRUE, chosen |-> c], f, n)
<1>1. Locked(i, t, l) \in Content(n)
  BY LockedLines DEF Content
<1> QED
  BY <1>1 DEF WriteOK

BaseInv == StoreInv /\ LinesInv

LEMMA TickBase == BaseInv /\ Tick => BaseInv'
<1> SUFFICES ASSUME BaseInv, Tick PROVE BaseInv'
  OBVIOUS
<1>1. LinesInv'
  BY LinesSame DEF BaseInv, Tick
<1>2. StoreInv'
  BY DEF BaseInv, Tick, StoreInv
<1> QED
  BY <1>1, <1>2 DEF BaseInv

\* A step that puts lines into the file.
LEMMA Filled ==
    ASSUME LinesInv, token' = token, file' \in Seq(Lines(token)), ProcOK(p', token), GenOK(g', token),
           DOMAIN w' = Procs, \A i \in Procs : WriteOK(w'[i], file', token)
    PROVE  LinesInv'
<1>1. token \in 1..MaxToken /\ file' \in Content(token)
  BY DEF LinesInv, Content
<1> QED
  BY <1>1 DEF LinesInv

LEMMA AnyFile ==
    ASSUME NEW x, NEW f, NEW n, WriteOK(x, f, n), NEW f2 \in Seq(Lines(n))
    PROVE  WriteOK(x, f2, n)
BY DEF WriteOK

LEMMA FopenBase == \A i \in Procs : BaseInv /\ fopen_w(i) => BaseInv'
<1> SUFFICES ASSUME NEW i \in Procs, BaseInv, fopen_w(i) PROVE BaseInv'
  OBVIOUS
<1>1. /\ w[i].lines # NULL /\ w[i].done = NULL
      /\ file' = <<>> /\ w' = [w EXCEPT ![i].done = 0]
      /\ lock' = IF w[i].chosen # NULL THEN w[i].chosen ELSE lock
      /\ UNCHANGED <<now, token, entry, p, g, late, given>>
  BY DEF fopen_w
<1>2. DOMAIN w = Procs /\ \A j \in Procs : WriteOK(w[j], file, token)
  BY DEF BaseInv, LinesInv
<1>3. file' \in Seq(Lines(token))
  BY <1>1
<1>4. DOMAIN w' = Procs /\ w'[i] = [w[i] EXCEPT !.done = 0] /\ \A j \in Procs \ {i} : w'[j] = w[j]
  BY <1>1, <1>2
<1>5. WriteOK(w'[i], file', token)
  <2> DEFINE x == w[i]
  <2>1. WriteOK(x, file, token) /\ x.lines # NULL
    BY <1>1, <1>2
  <2>2. x.lines \in Seq(Lines(token))
    BY <2>1 DEF WriteOK, Content
  <2>3. w'[i] = [x EXCEPT !.done = 0]
    BY <1>4
  <2> HIDE DEF x
  <2> QED
    BY <1>3, <2>1, <2>2, <2>3 DEF WriteOK
<1>6. \A j \in Procs : WriteOK(w'[j], file', token)
  BY <1>2, <1>3, <1>4, <1>5, AnyFile
<1>7. ProcOK(p', token) /\ GenOK(g', token)
  BY <1>1 DEF BaseInv, LinesInv
<1>8. LinesInv'
  BY <1>1, <1>3, <1>4, <1>6, <1>7, Filled DEF BaseInv
<1>9. lock' \in Passwords \cup Keys
  BY <1>1, <1>2 DEF WriteOK, BaseInv, StoreInv
<1> QED
  BY <1>1, <1>8, <1>9, StoreSame DEF BaseInv

LEMMA FprintfBase == \A i \in Procs, c \in Cuts : BaseInv /\ fprintf(i, c[1], c[2]) => BaseInv'
<1> SUFFICES ASSUME NEW i \in Procs, NEW c \in Cuts, BaseInv, fprintf(i, c[1], c[2]) PROVE BaseInv'
  OBVIOUS
<1> DEFINE k == c[1]
           cut == [w[i].lines EXCEPT ![k].whole = ~c[2]]
<1>1. /\ w[i].done = 0 /\ k < Len(w[i].lines)
      /\ file' = IF w[i].linked THEN Overlay(cut, 1, k) ELSE file
      /\ w' = [w EXCEPT ![i].done = k]
      /\ UNCHANGED <<now, token, lock, entry, p, g, late, given>>
  BY DEF fprintf
<1>2. k \in 1..6 /\ c[2] \in BOOLEAN
  BY AccountFileAssumption
<1>3. 0 # NULL /\ token \in Nat /\ DOMAIN w = Procs /\ \A j \in Procs : WriteOK(w[j], file, token)
  BY NullAssumption DEF BaseInv, LinesInv
<1>4. w[i].lines \in Seq(Lines(token)) /\ (w[i].linked => file \in Seq(Lines(token)))
  BY <1>1, <1>3 DEF WriteOK
<1>5. w[i].linked => file' \in Seq(Lines(token))
  <2> SUFFICES ASSUME w[i].linked PROVE Overlay(cut, 1, k) \in Seq(Lines(token))
    BY <1>1
  <2> DEFINE lines == w[i].lines
             y == [lines[k] EXCEPT !.whole = ~c[2]]
  <2>1. k \in 1..Len(lines) /\ lines[k] \in Lines(token)
    BY <1>1, <1>2, <1>4
  <2>2. y \in Lines(token)
    BY <1>2, <1>3, <2>1, CutLine
  <2>3. cut = [lines EXCEPT ![k] = y]
    BY <2>1
  <2> HIDE DEF y
  <2>4. cut \in Seq(Lines(token)) /\ Len(cut) = Len(lines)
    <3>1. lines \in Seq(Lines(token))
      BY <1>4
    <3> HIDE DEF cut, lines, k
    <3> QED
      BY <2>1, <2>2, <2>3, <3>1, ExceptSeq
  <2> HIDE DEF cut
  <2>5. file \in Seq(Lines(token)) /\ k \in 0..Len(cut) /\ 1 \in Nat
    BY <1>4, <2>1, <2>4
  <2> HIDE DEF k
  <2> QED
    BY <1>3, <2>4, <2>5, OverlaidLines
<1> HIDE DEF cut
<1>6. DOMAIN w' = Procs /\ w'[i] = [w[i] EXCEPT !.done = k] /\ \A j \in Procs \ {i} : w'[j] = w[j]
  BY <1>1, <1>3
<1>7. WriteOK(w'[i], file', token)
  <2> DEFINE x == w[i]
  <2>1. /\ WriteOK(x, file, token) /\ x.lines \in Seq(Lines(token))
        /\ x.linked => file' \in Seq(Lines(token))
    BY <1>3, <1>4, <1>5
  <2>2. w'[i] = [x EXCEPT !.done = k]
    BY <1>6
  <2> HIDE DEF x
  <2> QED
    BY <1>2, <2>1, <2>2 DEF WriteOK
<1>8. \A j \in Procs : WriteOK(w'[j], file', token)
  <2>1. CASE w[i].linked
    BY <1>3, <1>5, <1>6, <1>7, <2>1, AnyFile
  <2>2. CASE ~w[i].linked
    BY <1>1, <1>3, <1>6, <1>7, <2>2
  <2> QED
    BY <2>1, <2>2
<1>9. file' \in Content(token)
  BY <1>1, <1>5 DEF Content, BaseInv, LinesInv
<1>10. LinesInv'
  BY <1>1, <1>6, <1>8, <1>9 DEF BaseInv, LinesInv
<1> QED
  BY <1>1, <1>10, StoreSame DEF BaseInv, StoreInv

\* The end of a write.
LEMMA EndWriteBase ==
    ASSUME NEW i \in Procs, BaseInv, EndWrite(i), file' \in Seq(Lines(token)) \/ file' = file
    PROVE  BaseInv'
<1>1. /\ w' = [w EXCEPT ![i] = NoWrite]
      /\ p' \in {p, Idle} /\ g' \in {g, GenIdle} /\ entry' = entry
      /\ UNCHANGED <<now, token, lock, late, given>>
  BY DEF EndWrite, Done
<1>2. DOMAIN w = Procs /\ \A j \in Procs : WriteOK(w[j], file, token)
  BY DEF BaseInv, LinesInv
<1>3. DOMAIN w' = Procs /\ \A j \in Procs : w'[j] \in {w[j], NoWrite}
  BY <1>1, <1>2
<1>4. \A j \in Procs : WriteOK(w'[j], file', token)
  BY <1>2, <1>3, NoWriteOK, AnyFile
<1>5. ProcOK(p', token) /\ GenOK(g', token)
  BY <1>1, IdleOK DEF BaseInv, LinesInv
<1>6. file' \in Content(token)
  BY DEF Content, BaseInv, LinesInv
<1>7. LinesInv'
  BY <1>1, <1>3, <1>4, <1>5, <1>6 DEF BaseInv, LinesInv
<1> QED
  BY <1>1, <1>7, StoreSame DEF BaseInv, StoreInv

LEMMA FcloseBase == \A i \in Procs : BaseInv /\ (fclose(i) \/ writeFails(i)) => BaseInv'
<1> SUFFICES ASSUME NEW i \in Procs, BaseInv, fclose(i) \/ writeFails(i) PROVE BaseInv'
  OBVIOUS
<1>1. CASE writeFails(i)
  BY <1>1, EndWriteBase DEF writeFails
<1>2. CASE fclose(i)
  <2> DEFINE from == IF w[i].done = 0 THEN 1 ELSE w[i].done
  <2>1. /\ w[i].done # NULL /\ EndWrite(i)
        /\ file' = IF w[i].linked THEN Overlay(w[i].lines, from, Len(w[i].lines)) ELSE file
    BY <1>2 DEF fclose
  <2>2. WriteOK(w[i], file, token) /\ token \in Nat
    BY DEF BaseInv, LinesInv
  <2>3. from \in Nat /\ w[i].lines \in Seq(Lines(token)) /\ (w[i].linked => file \in Seq(Lines(token)))
    BY <2>1, <2>2 DEF WriteOK
  <2> HIDE DEF from
  <2>4. w[i].linked => Overlay(w[i].lines, from, Len(w[i].lines)) \in Seq(Lines(token))
    <3>1. Len(w[i].lines) \in 0..Len(w[i].lines)
      BY <2>3
    <3> QED
      BY <2>2, <2>3, <3>1, OverlaidLines
  <2> QED
    BY <2>1, <2>4, EndWriteBase
<1> QED
  BY <1>1, <1>2

LEMMA PasswordBase ==
    ASSUME BaseInv, UNCHANGED <<now, file, token, lock, g>>, PasswordStep, EntryStep
    PROVE  BaseInv'
<1>1. StoreInv'
  BY StoreMoved DEF BaseInv, EntryStep
<1>2. /\ token \in 1..MaxToken /\ token \in 1..token /\ "p" \in Procs
      /\ ProcOK(p, token) /\ GenOK(g, token)
  BY DEF BaseInv, LinesInv, Procs
<1>3. CASE Died
  BY <1>1, <1>2, <1>3, OneWrite, NoWriteOK, IdleOK DEF Died, BaseInv
<1>4. CASE GaveUp \/ Retried
  <2>1. w' = w /\ ProcOK(p', token)
    BY <1>2, <1>4, IdleOK DEF GaveUp, Retried, ProcOK
  <2> QED
    BY <1>1, <2>1 DEF BaseInv, LinesInv
<1>5. ASSUME NEW l \in Passwords \cup Keys, NEW c \in {NULL, l}, Wrote(l, c)
      PROVE  LinesInv'
  <2> DEFINE x == [lines |-> Locked("p", token, l), done |-> NULL, linked |-> TRUE, chosen |-> c]
  <2>1. WriteOK(x, file, token)
    BY <1>2, <1>5, NewWriteOK
  <2>2. w' = [w EXCEPT !["p"] = x] /\ ProcOK(p', token)
    BY <1>5, IdleOK DEF Wrote
  <2> HIDE DEF x
  <2> QED
    BY <1>2, <2>1, <2>2, OneWrite DEF BaseInv
<1>6. LinesInv' \/ Died \/ GaveUp \/ Retried
  BY <1>5 DEF PasswordStep
<1> QED
  BY <1>1, <1>3, <1>4, <1>6 DEF BaseInv

LEMMA AutoloadBase ==
    ASSUME BaseInv, NEW a \in Answers, NEW s \in BOOLEAN, autoload(a, s)
    PROVE  /\ BaseInv'
           /\ entry' = entry \/ entry' = NULL \/ (entry' # NULL => entry'.gpg_key = NULL)
           /\ Died \/ (p' \in {Idle, [p EXCEPT !.tries = @ + 1]} /\ UNCHANGED <<w, stale, hurt>>)
           /\ UNCHANGED <<now, file, token, lock, g>>
<1> DEFINE e == savePassword(autoload_passwordEntry(a), now)
<1>1. UNCHANGED <<now, file, token, lock, g, late>>
  BY DEF autoload
<1>2. \/ Die /\ UNCHANGED given
      \/ a \in Passwords /\ Done(e) /\ given' = 0 /\ UNCHANGED <<w, stale, hurt>>
      \/ Done(entry) /\ UNCHANGED <<w, given, stale, hurt>>
      \/ p' = [p EXCEPT !.tries = @ + 1] /\ UNCHANGED <<entry, w, given, stale, hurt>>
  <2>1. ENULL # Crash /\ ~(ENULL >= 0) /\ a \in Passwords \cup {NULL}
    BY DEF ENULL, Crash, Answers
  <2> DEFINE from == IF isPGPMessage(p.read) THEN decryptPGPFileContent(p.read)
                     ELSE IF a = NULL THEN {ENULL} ELSE decryptFileContent(p.read, a)
  <2>2. PICK r \in from :
          CASE r = Crash -> Die /\ UNCHANGED given
            [] r >= 0 \/ isPGPMessage(p.read) \/ a = NULL ->
                  /\ IF s /\ r >= 0 /\ ~isPGPMessage(p.read)
                     THEN Done(e) /\ given' = 0
                     ELSE Done(entry) /\ UNCHANGED given
                  /\ UNCHANGED <<w, stale, hurt>>
            [] OTHER ->
                  /\ IF p.tries + 1 < MaxTries
                     THEN p' = [p EXCEPT !.tries = @ + 1] /\ UNCHANGED <<entry, deadline>>
                     ELSE Done(entry)
                  /\ UNCHANGED <<w, given, stale, hurt>>
    BY DEF autoload
  <2>3. ~isPGPMessage(p.read) /\ a = NULL => r = ENULL
    BY <2>2
  <2> HIDE DEF from, e
  <2>4. r = Crash /\ (r >= 0 \/ isPGPMessage(p.read) \/ a = NULL) =>
          ~(s /\ r >= 0 /\ ~isPGPMessage(p.read))
    BY DEF Crash
  <2> QED
    BY <2>1, <2>2, <2>3, <2>4
<1>3. /\ token \in 1..MaxToken /\ "p" \in Procs /\ ProcOK(p, token) /\ GenOK(g, token)
  BY DEF BaseInv, LinesInv, Procs
<1>4. CASE Die /\ UNCHANGED given
  <2>1. Died /\ entry' = NULL
    BY <1>4 DEF Die, Died
  <2>2. LinesInv'
    BY <1>1, <1>3, <2>1, OneWrite, NoWriteOK, IdleOK DEF Died, BaseInv
  <2>3. StoreInv'
    BY <1>1, <1>4, <2>1, StoreMoved DEF BaseInv, StoreInv, EntryOK
  <2> QED
    BY <1>1, <2>1, <2>2, <2>3 DEF BaseInv
<1>5. ASSUME p' \in {Idle, [p EXCEPT !.tries = @ + 1]}, UNCHANGED <<w, stale, hurt>> PROVE LinesInv'
  <2>1. ProcOK(p', token)
    BY <1>3, <1>5, IdleOK DEF ProcOK
  <2> QED
    BY <1>1, <1>5, <2>1 DEF BaseInv, LinesInv
<1>6. CASE a \in Passwords /\ Done(e) /\ given' = 0 /\ UNCHANGED <<w, stale, hurt>>
  <2>1. IsEntry(e) /\ e.expires_after = 0 /\ e.gpg_key = NULL
    <3> DEFINE q == autoload_passwordEntry(a)
    <3>1. IsRequest(q) /\ q.expires_after = 0 /\ q.gpg_key = NULL
      BY <1>6, AutoloadEntry
    <3> HIDE DEF q
    <3>2. Dies(q, now) /\ now \in Nat
      BY <3>1 DEF Dies, BaseInv, StoreInv
    <3>3. IsEntry(savePassword(q, now)) /\ savePassword(q, now).expires_after = 0 /\ savePassword(q, now).gpg_key = NULL
      BY <3>1, <3>2, SavedEntry
    <3> QED
      BY <3>3 DEF q
  <2>2. entry' = e /\ p' = Idle
    BY <1>6 DEF Done
  <2> HIDE DEF e
  <2>3. StoreInv'
    BY <1>1, <1>6, <2>1, <2>2, StoreMoved DEF BaseInv, StoreInv, EntryOK, Dies
  <2> QED
    BY <1>1, <1>5, <1>6, <2>1, <2>2, <2>3 DEF BaseInv
<1> HIDE DEF e
<1>7. CASE Done(entry) /\ UNCHANGED <<w, given, stale, hurt>>
  <2>1. entry' = entry /\ p' = Idle
    BY <1>7 DEF Done
  <2>2. StoreInv'
    BY <1>1, <1>7, <2>1, StoreMoved DEF BaseInv, StoreInv
  <2> QED
    BY <1>1, <1>5, <1>7, <2>1, <2>2 DEF BaseInv
<1>8. CASE p' = [p EXCEPT !.tries = @ + 1] /\ UNCHANGED <<entry, w, given, stale, hurt>>
  <2>1. StoreInv'
    BY <1>1, <1>8, StoreMoved DEF BaseInv, StoreInv
  <2> QED
    BY <1>1, <1>5, <1>8, <2>1 DEF BaseInv
<1> QED
  BY <1>2, <1>4, <1>6, <1>7, <1>8

LEMMA AgentDiesBase == BaseInv /\ AgentDies => BaseInv'
<1> SUFFICES ASSUME BaseInv, AgentDies PROVE BaseInv'
  OBVIOUS
<1>1. Died /\ entry' = NULL /\ UNCHANGED <<now, file, token, lock, g, late, given>>
  BY DEF AgentDies, Die, Died
<1>2. PasswordStep /\ EntryStep
  BY <1>1, KeptEntry DEF PasswordStep, BaseInv
<1> QED
  BY <1>1, <1>2, PasswordBase

LEMMA RequestBase ==
    ASSUME BaseInv, NEW e, IsRequest(e), Dies(e, now), entry' = pw_handleSave(entry, e, now),
           given' = Given(entry'), UNCHANGED <<now, file, token, lock, p, g, w, late>>
    PROVE  BaseInv'
<1>1. EntryOK(entry', given') /\ given' \in 0..now
  BY HandledSave DEF BaseInv
<1> QED
  BY <1>1, StoreMoved, LinesSame DEF BaseInv

LEMMA AddRequestBase ==
    \A o \in AddOptions : BaseInv /\ AddRequest(o, IF lock \in Keys THEN NULL ELSE lock) => BaseInv'
<1> SUFFICES ASSUME NEW o \in AddOptions, BaseInv, AddRequest(o, IF lock \in Keys THEN NULL ELSE lock)
             PROVE  BaseInv'
  OBVIOUS
<1> DEFINE x == IF lock \in Keys THEN NULL ELSE lock
           e == add_passwordEntry(o, x, now)
<1>1. x \in Passwords \cup {NULL} /\ now \in Nat
  BY DEF BaseInv, StoreInv
<1>2. /\ entry' = pw_handleSave(entry, e, now) /\ given' = Given(entry')
      /\ UNCHANGED <<now, file, token, lock, p, g, w, late>>
  BY DEF AddRequest
<1> HIDE DEF x
<1>3. IsRequest(e) /\ Dies(e, now)
  BY <1>1, AddEntry
<1> HIDE DEF e
<1> QED
  BY <1>2, <1>3, RequestBase

LEMMA GenRequestBase == \A o \in GenOptions : BaseInv /\ GenRequest(o) => BaseInv'
<1> SUFFICES ASSUME NEW o \in GenOptions, BaseInv, GenRequest(o) PROVE BaseInv'
  OBVIOUS
<1> DEFINE e == gen_passwordEntry(o)
<1>1. IsRequest(e) /\ e.expires_after = 0
  BY GenEntry
<1>2. /\ entry' = pw_handleSave(entry, e, now) /\ given' = Given(entry')
      /\ UNCHANGED <<now, file, token, lock, p, g, w, late>>
  BY DEF GenRequest
<1> HIDE DEF e
<1>3. Dies(e, now)
  BY <1>1 DEF Dies
<1> QED
  BY <1>1, <1>2, <1>3, RequestBase

LEMMA SweepBase == BaseInv /\ (removePasswordFor \/ Timeout) => BaseInv'
<1> SUFFICES ASSUME BaseInv, removePasswordFor \/ Timeout PROVE BaseInv'
  OBVIOUS
<1>1. /\ entry' = NULL \/ entry' = removeDeathPasswords(entry, now)
      /\ UNCHANGED <<now, file, token, lock, p, g, w, late, given>>
  BY DEF removePasswordFor, Timeout
<1>2. EntryOK(entry', given') /\ given' \in 0..now
  <2>1. EntryOK(NULL, given)
    BY DEF EntryOK
  <2> QED
    BY <1>1, <2>1, Swept DEF BaseInv, StoreInv
<1> QED
  BY <1>1, <1>2, StoreMoved, LinesSame DEF BaseInv

\* The steps that make a new token.
LEMMA TokenBase ==
    ASSUME BaseInv, token' = token + 1, token < MaxToken, UNCHANGED <<now, file, lock, entry, w, late, given>>,
           ProcOK(p', token + 1), GenOK(g', token + 1)
    PROVE  BaseInv'
<1>1. token \in 1..MaxToken /\ token \in Nat /\ token + 1 \in Nat /\ token <= token + 1 /\ token' \in 1..MaxToken
  BY AccountFileAssumption DEF BaseInv, LinesInv
<1>2. Seq(Lines(token)) \subseteq Seq(Lines(token + 1)) /\ Content(token) \subseteq Content(token + 1)
  BY <1>1, LinesGrow
<1>3. ASSUME NEW i \in Procs PROVE WriteOK(w[i], file, token + 1)
  <2>1. WriteOK(w[i], file, token)
    BY DEF BaseInv, LinesInv
  <2> QED
    BY <1>2, <2>1 DEF WriteOK
<1>4. DOMAIN w = Procs /\ file \in Content(token + 1)
  BY <1>2 DEF BaseInv, LinesInv
<1>5. LinesInv'
  BY <1>1, <1>3, <1>4 DEF LinesInv
<1> QED
  BY <1>5, StoreSame DEF BaseInv, StoreInv

LEMMA GrownOK ==
    ASSUME LinesInv, token < MaxToken
    PROVE  ProcOK(p, token + 1) /\ GenOK(g, token + 1) /\ readOidcFile \in Content(token + 1)
<1>1. token \in Nat /\ token + 1 \in Nat /\ token <= token + 1
  BY DEF LinesInv
<1>2. Content(token) \subseteq Content(token + 1)
  BY <1>1, LinesGrow
<1>3. readOidcFile \in Content(token)
  BY <1>1, ReadFile DEF LinesInv
<1>4. 1..token \subseteq 1..(token + 1) /\ Seq(Lines(token)) \subseteq Seq(Lines(token + 1))
  BY <1>1, LinesGrow
<1> QED
  BY <1>2, <1>3, <1>4 DEF LinesInv, ProcOK, GenOK

LEMMA StartBase ==
    BaseInv /\ (updateRefreshToken \/ reauthenticated \/ getAutoloadConfig) => BaseInv'
<1> SUFFICES ASSUME BaseInv, updateRefreshToken \/ reauthenticated \/ getAutoloadConfig PROVE BaseInv'
  OBVIOUS
<1>1. CASE updateRefreshToken
  <2>1. ProcOK(p', token + 1)
    BY <1>1, GrownOK DEF updateRefreshToken, ProcOK, BaseInv
  <2> QED
    BY <1>1, <2>1, GrownOK, TokenBase DEF updateRefreshToken, BaseInv
<1>2. CASE reauthenticated
  <2>1. ProcOK(p', token + 1)
    BY <1>2 DEF reauthenticated, ProcOK, Content
  <2> QED
    BY <1>2, <2>1, GrownOK, TokenBase DEF reauthenticated, BaseInv
<1>3. CASE getAutoloadConfig
  <2>1. readOidcFile \in Content(token)
    BY ReadFile DEF BaseInv, LinesInv
  <2>2. ProcOK(p', token)
    BY <1>3, <2>1 DEF getAutoloadConfig, ProcOK
  <2>3. LinesInv'
    BY <1>3, <2>2 DEF getAutoloadConfig, BaseInv, LinesInv
  <2> QED
    BY <1>3, <2>3, StoreSame DEF getAutoloadConfig, BaseInv, StoreInv
<1> QED
  BY <1>1, <1>2, <1>3

LEMMA GenStartBase ==
    \A o \in GenOptions : BaseInv /\ (gen_saveAccountConfig(o) \/ gen_handleUpdateConfigFile(o)) => BaseInv'
<1> SUFFICES ASSUME NEW o \in GenOptions, BaseInv, gen_saveAccountConfig(o) \/ gen_handleUpdateConfigFile(o)
             PROVE  BaseInv'
  OBVIOUS
<1>1. CASE gen_saveAccountConfig(o)
  <2>1. token \in Nat
    BY DEF BaseInv, LinesInv
  <2>2. GenOK(g', token + 1)
    BY <1>1, <2>1 DEF gen_saveAccountConfig, GenOK, GenIdle, Content
  <2> QED
    BY <1>1, <2>2, GrownOK, TokenBase DEF gen_saveAccountConfig, BaseInv
<1>2. CASE gen_handleUpdateConfigFile(o)
  <2>1. readOidcFile \in Content(token) /\ readOidcFile \in Seq(Lines(token))
    <3>1. file # NULL /\ file \in Content(token) /\ token \in Nat
      BY <1>2 DEF gen_handleUpdateConfigFile, BaseInv, LinesInv
    <3>2. file \in Seq(Lines(token))
      BY <3>1 DEF Content
    <3> QED
      BY <3>1, <3>2, ReadLines DEF readOidcFile, Content
  <2>2. GenOK(g', token)
    BY <1>2, <2>1 DEF gen_handleUpdateConfigFile, GenOK, GenIdle
  <2>3. LinesInv'
    BY <1>2, <2>2 DEF gen_handleUpdateConfigFile, BaseInv, LinesInv
  <2> QED
    BY <1>2, <2>3, StoreSame DEF gen_handleUpdateConfigFile, BaseInv, StoreInv
<1> QED
  BY <1>1, <1>2

\* oidc-gen begins to write the text t under l.
GenWrote(t, l) ==
    /\ w' = [w EXCEPT !["g"] = [lines |-> Locked("g", t, l), done |-> NULL, linked |-> TRUE, chosen |-> l]]
    /\ g' = [g EXCEPT !.at = "write"]

LEMMA GenWroteBase ==
    ASSUME BaseInv, NEW t \in 1..token, NEW l \in Passwords \cup Keys, GenWrote(t, l),
           UNCHANGED <<now, file, token, lock, entry, p, late, given>>
    PROVE  BaseInv'
<1> DEFINE x == [lines |-> Locked("g", t, l), done |-> NULL, linked |-> TRUE, chosen |-> l]
<1>1. token \in 1..MaxToken /\ "g" \in Procs /\ ProcOK(p', token) /\ GenOK(g, token)
  BY DEF BaseInv, LinesInv, Procs
<1>2. WriteOK(x, file, token)
  BY <1>1, NewWriteOK
<1>3. w' = [w EXCEPT !["g"] = x] /\ GenOK(g', token)
  BY <1>1 DEF GenWrote, GenOK
<1> HIDE DEF x
<1>4. LinesInv'
  BY <1>1, <1>2, <1>3, OneWrite DEF BaseInv
<1> QED
  BY <1>4, StoreSame DEF BaseInv, StoreInv

LEMMA Saved ==
    ASSUME BaseInv, NEW a \in Passwords, promptEncryptAndWriteToOidcFile(a)
    PROVE  /\ \E l \in Passwords \cup Keys : GenWrote(g.text, l)
           /\ g.at = "save" /\ g.text \in 1..token
           /\ UNCHANGED <<now, file, token, lock, entry, p, late, given, stale, hurt>>
<1> DEFINE l == IF g.opt.pw_gpg # NULL THEN g.opt.pw_gpg ELSE getEncryptionPasswordFor(Src(g.opt), a)
<1>1. g.at = "save" /\ g.opt \in GenOptions /\ g.text \in 1..token
  BY DEF promptEncryptAndWriteToOidcFile, BaseInv, LinesInv, GenOK
<1>2. l \in Passwords \cup Keys
  BY <1>1, OptionsAssumption DEF getEncryptionPasswordFor, Src, FirstOf
<1>3. GenWrote(g.text, l)
  BY DEF promptEncryptAndWriteToOidcFile, encryptAndWriteToOidcFile, GenWrote
<1> HIDE DEF l
<1> QED
  BY <1>1, <1>2, <1>3 DEF promptEncryptAndWriteToOidcFile

\* A text that oidc-gen --update got out of the file it read.
GenFound(t) ==
    \/ isPGPMessage(g.read) /\ t \in decryptPGPFileContent(g.read)
    \/ ~isPGPMessage(g.read) /\ \E x \in Passwords \cup {NULL} : t \in decryptFileContent(g.read, x)

LEMMA Updated ==
    ASSUME BaseInv, NEW a \in Answers, getDecryptedTextAndPasswordWithPromptFor(a)
    PROVE  /\ \/ w' = w /\ g' = GenIdle
              \/ w' = w /\ \E k : g' = [g EXCEPT !.tries = k]
              \/ \E t \in 1..token, l \in Passwords \cup Keys : GenWrote(t, l) /\ GenFound(t)
           /\ g.at = "open"
           /\ UNCHANGED <<now, file, token, lock, entry, p, late, given, stale, hurt>>
<1>1. /\ g.at = "open" /\ g.opt \in GenOptions /\ token \in Nat
      /\ UNCHANGED <<now, file, token, lock, entry, p, late, given, stale, hurt>>
  BY DEF getDecryptedTextAndPasswordWithPromptFor, BaseInv, LinesInv, GenOK
<1>2. g.read \in Content(token) /\ g.read \in Seq(Lines(token))
  BY <1>1 DEF BaseInv, LinesInv, GenOK
<1>3. ASSUME NEW t \in 1..token \cup Errors, t >= 0, GenFound(t), NEW x \in Passwords \cup {NULL},
             UpdateConfigFile(t, x)
      PROVE  \/ w' = w /\ g' = GenIdle
             \/ \E l \in Passwords \cup Keys : t \in 1..token /\ GenWrote(t, l) /\ GenFound(t)
  <2> DEFINE l == IF g.opt.pw_gpg # NULL THEN g.opt.pw_gpg ELSE x
  <2>1. l \in Passwords \cup Keys \cup {NULL}
    BY <1>1, OptionsAssumption
  <2>2. t \in 1..token
    BY <1>3 DEF Errors, ECRYPM, EPASS, EDECRYPT, ENULL, Crash
  <2>3. IF l = NULL THEN g' = GenIdle /\ w' = w
        ELSE encryptAndWriteToOidcFile("g", t, l, l) /\ g' = [g EXCEPT !.at = "write"]
    BY <1>3 DEF UpdateConfigFile
  <2> HIDE DEF l
  <2> QED
    BY <1>3, <2>1, <2>2, <2>3 DEF encryptAndWriteToOidcFile, GenWrote
<1>4. CASE isPGPMessage(g.read)
  <2>1. PICK r \in decryptPGPFileContent(g.read) :
          IF r >= 0 THEN UpdateConfigFile(r, NULL) ELSE g' = GenIdle /\ w' = w
    BY <1>4 DEF getDecryptedTextAndPasswordWithPromptFor
  <2>2. r \in 1..token \cup Errors /\ GenFound(r)
    BY <1>1, <1>2, <1>4, <2>1, PGPTexts DEF GenFound
  <2> QED
    BY <1>1, <1>3, <2>1, <2>2
<1>5. CASE ~isPGPMessage(g.read)
  <2> DEFINE res == getDecryptionPasswordFor(Src(g.opt), a, g.tries, MaxTries)
  <2>1. res.pw \in Passwords \cup {NULL}
    BY <1>1, OptionsAssumption DEF getDecryptionPasswordFor, Src, FirstOf, Answers
  <2>2. PICK r \in IF res.err THEN {Crash} ELSE decryptFileContent(g.read, res.pw) :
          CASE r = Crash -> g' = GenIdle /\ w' = w
            [] r >= 0 -> UpdateConfigFile(r, res.pw)
            [] OTHER -> g' = [g EXCEPT !.tries = res.try] /\ w' = w
    BY <1>5 DEF getDecryptedTextAndPasswordWithPromptFor
  <2> HIDE DEF res
  <2>3. decryptFileContent(g.read, res.pw) \subseteq 1..token \cup Errors
    BY <1>1, <1>2, <2>1, Texts
  <2>4. r \in 1..token \cup Errors
    BY <2>2, <2>3 DEF Errors
  <2>5. CASE r = Crash
    <3>1. g' = GenIdle /\ w' = w
      BY <2>2, <2>5 DEF Crash
    <3> QED
      BY <1>1, <3>1
  <2>6. CASE r # Crash /\ r >= 0
    <3>1. UpdateConfigFile(r, res.pw) /\ GenFound(r)
      BY <1>5, <2>1, <2>2, <2>6 DEF GenFound
    <3> QED
      BY <1>1, <1>3, <2>1, <2>4, <2>6, <3>1
  <2>7. CASE r # Crash /\ ~(r >= 0)
    <3>1. g' = [g EXCEPT !.tries = res.try] /\ w' = w
      BY <2>2, <2>7
    <3> QED
      BY <1>1, <3>1
  <2> QED
    BY <2>5, <2>6, <2>7
<1> QED
  BY <1>4, <1>5

LEMMA GenStepBase ==
    /\ \A a \in Passwords : BaseInv /\ promptEncryptAndWriteToOidcFile(a) => BaseInv'
    /\ \A a \in Answers : BaseInv /\ getDecryptedTextAndPasswordWithPromptFor(a) => BaseInv'
    /\ BaseInv /\ GenDies => BaseInv'
<1>1. ASSUME NEW a \in Passwords, BaseInv, promptEncryptAndWriteToOidcFile(a) PROVE BaseInv'
  BY <1>1, Saved, GenWroteBase
<1>2. ASSUME NEW a \in Answers, BaseInv, getDecryptedTextAndPasswordWithPromptFor(a) PROVE BaseInv'
  <2>1. /\ \/ w' = w /\ g' = GenIdle
           \/ w' = w /\ \E k : g' = [g EXCEPT !.tries = k]
           \/ \E t \in 1..token, l \in Passwords \cup Keys : GenWrote(t, l)
        /\ UNCHANGED <<now, file, token, lock, entry, p, late, given>>
    BY <1>2, Updated
  <2>2. CASE \E t \in 1..token, l \in Passwords \cup Keys : GenWrote(t, l)
    BY <1>2, <2>1, <2>2, GenWroteBase
  <2>3. ASSUME w' = w, GenOK(g', token) PROVE BaseInv'
    <3>1. LinesInv'
      BY <1>2, <2>1, <2>3 DEF BaseInv, LinesInv
    <3> QED
      BY <1>2, <2>1, <3>1, StoreSame DEF BaseInv, StoreInv
  <2>4. GenOK(GenIdle, token) /\ \A k : GenOK([g EXCEPT !.tries = k], token)
    <3>1. GenOK(g, token)
      BY <1>2 DEF BaseInv, LinesInv
    <3> QED
      BY <3>1, IdleOK DEF GenOK
  <2> QED
    BY <2>1, <2>2, <2>3, <2>4
<1>3. ASSUME BaseInv, GenDies PROVE BaseInv'
  <2>1. /\ g' = GenIdle /\ w' = [w EXCEPT !["g"] = NoWrite]
        /\ UNCHANGED <<now, file, token, lock, entry, p, late, given>>
    BY <1>3 DEF GenDies
  <2>2. "g" \in Procs /\ ProcOK(p', token)
    BY <1>3, <2>1 DEF BaseInv, LinesInv, Procs
  <2>3. LinesInv'
    BY <1>3, <2>1, <2>2, OneWrite, NoWriteOK, IdleOK DEF BaseInv
  <2> QED
    BY <1>3, <2>1, <2>3, StoreSame DEF BaseInv, StoreInv
<1> QED
  BY <1>1, <1>2, <1>3

LEMMA RemoveBase == BaseInv /\ removeOidcFile => BaseInv'
<1> SUFFICES ASSUME BaseInv, removeOidcFile PROVE BaseInv'
  OBVIOUS
<1>1. /\ file' = NULL /\ w' = [i \in {"p", "g"} |-> [w[i] EXCEPT !.linked = w[i].done = NULL]]
      /\ UNCHANGED <<now, token, lock, entry, p, g, late, given>>
  BY DEF removeOidcFile
<1>2. ASSUME NEW i \in Procs PROVE WriteOK(w'[i], file', token)
  <2> DEFINE x == w[i]
             b == x.done = NULL
  <2>1. w'[i] = [x EXCEPT !.linked = b]
    BY <1>1 DEF Procs
  <2>2. WriteOK(x, file, token)
    BY DEF BaseInv, LinesInv
  <2> HIDE DEF x
  <2> QED
    BY <2>1, <2>2 DEF WriteOK
<1>3. DOMAIN w' = Procs /\ file' \in Content(token)
  BY <1>1 DEF Procs, Content
<1>4. LinesInv'
  BY <1>1, <1>2, <1>3 DEF BaseInv, LinesInv
<1> QED
  BY <1>1, <1>4, StoreSame DEF BaseInv, StoreInv

LEMMA InitBase == Init => BaseInv
<1> SUFFICES ASSUME Init PROVE BaseInv
  OBVIOUS
<1>1. StoreInv
  BY DEF Init, StoreInv, EntryOK
<1>2. token = 1 /\ 1 \in 1..MaxToken /\ lock \in Passwords \cup Keys
  BY AccountFileAssumption DEF Init
<1>3. file \in Seq(Lines(1))
  <2>1. CASE file = Locked("g", 1, lock)
    BY <1>2, <2>1, LockedLines DEF Procs
  <2>2. CASE \E l \in Passwords, v \in Legacy : file = crypt_encrypt_hex(1, l, Salt("g", 1, l), v)
    BY <2>2, HexLines
  <2>3. \/ file = Locked("g", 1, lock)
        \/ \E l \in Passwords, v \in Legacy : file = crypt_encrypt_hex(1, l, Salt("g", 1, l), v)
    BY DEF Init
  <2> QED
    BY <2>1, <2>2, <2>3
<1>4. ProcOK(p, 1) /\ GenOK(g, 1)
  BY IdleOK DEF Init
<1>5. DOMAIN w = Procs /\ \A i \in Procs : WriteOK(w[i], file, 1)
  BY NoWriteOK DEF Init, Procs
<1> QED
  BY <1>1, <1>2, <1>3, <1>4, <1>5 DEF BaseInv, LinesInv, Content

LEMMA BaseStep == BaseInv /\ [Next]_vars => BaseInv'
<1> SUFFICES ASSUME BaseInv, [Next]_vars PROVE BaseInv'
  OBVIOUS
<1>1. CASE UNCHANGED vars
  BY <1>1 DEF vars, BaseInv, StoreInv, LinesInv
<1>2. ASSUME NEW i \in Procs, Write(i) PROVE BaseInv'
  BY <1>2, FopenBase, FprintfBase, FcloseBase DEF Write
<1>3. ASSUME NEW a \in Answers, updateRefreshTokenTry(a) \/ writeOIDCFile(a) PROVE BaseInv'
  <2>1. PasswordStep /\ EntryStep
    BY <1>3, UpdateTried, RewriteTried DEF BaseInv
  <2>2. UNCHANGED <<now, file, token, lock, g>>
    BY <1>3 DEF updateRefreshTokenTry, writeOIDCFile
  <2> QED
    BY <2>1, <2>2, PasswordBase
<1>4. AgentStep => BaseInv'
  BY <1>2, <1>3, AutoloadBase DEF AgentStep, Procs
<1>5. GenStep => BaseInv'
  BY <1>2, GenStepBase DEF GenStep, Procs
<1> QED
  BY <1>1, <1>4, <1>5, TickBase, GenStepBase, AgentDiesBase, AddRequestBase, GenRequestBase, GenStartBase,
     SweepBase, StartBase, RemoveBase DEF Next

\* Whatever is left of the file by writes that were cut off or overlapped,
\* decrypting it gives one of the configurations there were, or fails: pieces
\* of several writes never make up a text (decryptLinesList).
THEOREM SavedTexts == Spec => []OnlySavedTexts
<1>1. BaseInv => OnlySavedTexts
  <2> SUFFICES ASSUME BaseInv, file # NULL, NEW l \in Passwords \cup Keys, NEW r \in Opened(l)
               PROVE  r \in 1..token \cup {ECRYPM, EPASS, EDECRYPT, ENULL, Crash}
    BY DEF OnlySavedTexts
  <2>1. token \in Nat /\ file \in Seq(Lines(token))
    BY DEF BaseInv, LinesInv, Content
  <2>2. readFile(file) \in Seq(Lines(token)) /\ readFile(file) \in Content(token)
    BY <2>1, ReadLines DEF Content
  <2>3. decryptPGPFileContent(readFile(file)) \subseteq 1..token \cup Errors
    BY <2>1, <2>2, PGPTexts
  <2>4. l \notin Keys => decryptFileContent(readFile(file), l) \subseteq 1..token \cup Errors
    BY <2>1, <2>2, Texts
  <2> QED
    BY <2>3, <2>4 DEF Opened, Errors
<1> QED
  BY <1>1, InitBase, BaseStep, PTL DEF Spec

\* The passwords in oidcp's store are used only within the lifetime the user
\* gave them, whatever order requests, timeouts, prompts and crashes come in.
THEOREM Lifetimes == Spec => []NoExpiredPassword
<1>1. BaseInv => NoExpiredPassword
  BY DEF BaseInv, StoreInv, NoExpiredPassword
<1> QED
  BY <1>1, InitBase, BaseStep, PTL DEF Spec
-----------------------------------------------------------------------------
(* Whole files: what they open with, and what they give.                   *)

LEMMA PGPFile ==
    ASSUME NEW k \in Keys, NEW t \in Nat, NEW f, f = encryptPGPWithVersionLine(t, k), f # NULL
    PROVE  /\ readFile(f) = f /\ isPGPMessage(f)
           /\ decryptPGPFileContent(f) = {t} /\ extractPGPKeyID(f) \in Keys
           /\ \A x \in Passwords : decryptFileContent(f, x) = {Crash}
<1>1. /\ Len(f) = 4 /\ f \in Seq({f[1], f[2], f[3], f[4]}) /\ f # <<>>
      /\ f[1].part = "begin" /\ f[1].whole
      /\ f[2].part = "body" /\ f[2].text = t /\ f[2].key = k
      /\ f[3].part = "end" /\ f[3].whole
      /\ f[4].part = "version" /\ f[4].whole = TRUE /\ f[4] = simpleVersionToVersionLine
  BY DEF encryptPGPWithVersionLine, simpleVersionToVersionLine, Line
<1>2. readFile(f) = f
  <2>1. \A i \in 1..Len(f) : f[i].part # "hole"
    BY <1>1
  <2> QED
    BY <1>1, <2>1, ReadLines
<1>3. isPGPMessage(f)
  BY <1>1 DEF isPGPMessage
<1>4. Ends(f)
  BY <1>1 DEF Ends
<1>5. decryptPGPFileContent(f) = {t} /\ extractPGPKeyID(f) \in Keys
  BY <1>1, <1>4 DEF decryptPGPFileContent, gpg_d, extractPGPKeyID
<1>6. ASSUME NEW x \in Passwords PROVE decryptFileContent(f, x) = {Crash}
  <2>1. versionLineToSimpleVersion(f) = f[4] /\ f[4] # NULL
    BY <1>1, NullAssumption DEF versionLineToSimpleVersion
  <2>2. versionAtLeast(f[4]) = {TRUE}
    BY <1>1, <2>1 DEF versionAtLeast
  <2>3. decryptLinesList(f, x) = crypt_decryptFromList(f, x)
    BY <2>1, <2>2 DEF decryptLinesList
  <2>4. crypt_decryptFromList(f, x) = {Crash}
    BY <1>1, AccountFileAssumption DEF crypt_decryptFromList
  <2> QED
    BY <2>3, <2>4 DEF decryptFileContent
<1> QED
  BY <1>2, <1>3, <1>5, <1>6

LEMMA PasswordFile ==
    ASSUME NEW l \in Passwords, NEW s, NEW t \in Nat, NEW f, f = encryptWithVersionLine(t, l, s), f # NULL
    PROVE  /\ readFile(f) = f /\ ~isPGPMessage(f)
           /\ decryptFileContent(f, l) = {t}
           /\ \A x \in Passwords \ {l} : decryptFileContent(f, x) = {EPASS}
           /\ decryptFileContent(f, NULL) = {ENULL}
<1>1. /\ Len(f) = 7 /\ f \in Seq({f[1], f[2], f[3], f[4], f[5], f[6], f[7]})
      /\ f[1].part = "len" /\ f[1].text = t
      /\ f[2].part = "nonce" /\ f[2].nonce = s /\ f[2].whole = TRUE
      /\ f[3].part = "salt" /\ f[3].nonce = s /\ f[3].whole = TRUE
      /\ f[4].part = "params"
      /\ f[5].part = "cipher" /\ f[5].key = <<"encrypt", l, s>> /\ f[5].nonce = s /\ f[5].text = t
      /\ f[5].whole = TRUE
      /\ f[6].part = "hash" /\ f[6].key = <<"hash", l, s>> /\ f[6].whole = TRUE
      /\ f[7].part = "version" /\ f[7].whole = TRUE /\ f[7] = simpleVersionToVersionLine
  BY DEF encryptWithVersionLine, crypt_encrypt, crypt_keyDerivation_base64, crypt_encryptWithKey,
         simpleVersionToVersionLine, Line
<1>2. readFile(f) = f
  <2>1. \A i \in 1..Len(f) : f[i].part # "hole"
    BY <1>1
  <2> QED
    BY <1>1, <2>1, ReadLines
<1>3. ~isPGPMessage(f)
  BY <1>1 DEF isPGPMessage
<1>4. ASSUME NEW x PROVE decryptFileContent(f, x) = crypt_decryptFromList(f, x)
  <2>1. versionLineToSimpleVersion(f) = f[7] /\ f[7] # NULL
    BY <1>1, NullAssumption DEF versionLineToSimpleVersion
  <2>2. versionAtLeast(f[7]) = {TRUE}
    BY <1>1, <2>1 DEF versionAtLeast
  <2> QED
    BY <2>1, <2>2 DEF decryptLinesList, decryptFileContent
<1> DEFINE info == [len |-> f[1], nonce |-> f[2], salt |-> f[3], cipher |-> f[5], hash |-> f[6]]
<1>5. ASSUME NEW x \in Passwords PROVE crypt_decryptFromList(f, x) = crypt_decrypt_base64(info, x)
  <2>1. x # NULL /\ ~(Len(f) < 6) /\ ~(Len(f) > 6 /\ ~f[6].whole)
    BY <1>1, AccountFileAssumption
  <2> QED
    BY <2>1 DEF crypt_decryptFromList
<1>6. info.len = f[1] /\ info.nonce = f[2] /\ info.salt = f[3] /\ info.cipher = f[5] /\ info.hash = f[6]
  OBVIOUS
<1> HIDE DEF info
<1>7. ASSUME NEW x \in Passwords \ {l} PROVE crypt_decrypt_base64(info, x) = {EPASS}
  BY <1>1, <1>6 DEF crypt_decrypt_base64, crypt_keyDerivation_base64
<1>8. crypt_decrypt_base64(info, l) = {t}
  BY <1>1, <1>6 DEF crypt_decrypt_base64, crypt_keyDerivation_base64, crypt_decryptWithKey
<1>9. crypt_decryptFromList(f, NULL) = {ENULL}
  BY DEF crypt_decryptFromList
<1> QED
  BY <1>2, <1>3, <1>4, <1>5, <1>7, <1>8, <1>9

LEMMA HexFile ==
    ASSUME NEW l \in Passwords, NEW s, NEW v \in Legacy, NEW t \in Nat, NEW f,
           f = crypt_encrypt_hex(t, l, s, v), f # NULL
    PROVE  /\ readFile(f) = f /\ ~isPGPMessage(f)
           /\ decryptFileContent(f, l) = {t}
           /\ \A x \in Passwords \ {l} : decryptFileContent(f, x) = {EPASS}
           /\ decryptFileContent(f, NULL) = {Crash}
<1>1. /\ Len(f) = 1 /\ f \in Seq({f[1]}) /\ f # <<>>
      /\ f[1].part = "hex" /\ f[1].key = <<v, l, s>> /\ f[1].nonce = s /\ f[1].text = t /\ f[1].whole = TRUE
  BY DEF crypt_encrypt_hex, crypt_keyDerivation_hex, Line
<1>2. readFile(f) = f
  <2>1. \A i \in 1..Len(f) : f[i].part # "hole"
    BY <1>1
  <2> QED
    BY <1>1, <2>1, ReadLines
<1>3. ~isPGPMessage(f)
  BY <1>1 DEF isPGPMessage
<1>4. ASSUME NEW x PROVE decryptFileContent(f, x) = decryptHexFileContent(f, x)
  <2>1. versionLineToSimpleVersion(f) = NULL
    BY <1>1 DEF versionLineToSimpleVersion
  <2>2. versionAtLeast(NULL) = {FALSE}
    BY DEF versionAtLeast
  <2> QED
    BY <2>1, <2>2 DEF decryptLinesList, decryptFileContent
<1>5. ASSUME NEW x \in Passwords PROVE decryptHexFileContent(f, x) = crypt_decrypt_hex(f[1], x)
  <2>1. x # NULL
    BY AccountFileAssumption
  <2> QED
    BY <1>1, <2>1 DEF decryptHexFileContent
<1>6. ASSUME NEW x \in Passwords \ {l} PROVE crypt_decrypt_hex(f[1], x) = {EPASS}
  BY <1>1 DEF crypt_decrypt_hex, crypt_decrypt_hex_withParams, crypt_keyDerivation_hex
<1>7. crypt_decrypt_hex(f[1], l) = {t}
  <2>1. t # EPASS
    BY DEF EPASS
  <2>2. {t} # {EPASS}
    BY <2>1
  <2> QED
    BY <1>1, <2>2 DEF crypt_decrypt_hex, crypt_decrypt_hex_withParams, crypt_keyDerivation_hex, Legacy
<1>8. decryptHexFileContent(f, NULL) = {Crash}
  BY <1>1 DEF decryptHexFileContent
<1> QED
  BY <1>2, <1>3, <1>4, <1>5, <1>6, <1>7, <1>8

LEMMA WholeFile ==
    ASSUME NEW l \in Passwords \cup Keys, NEW t \in Nat, NEW f, Whole(f, l, t), f # NULL
    PROVE  /\ readFile(f) = f
           /\ l \in Keys => /\ isPGPMessage(f) /\ decryptPGPFileContent(f) = {t}
                            /\ \A x \in Passwords : decryptFileContent(f, x) = {Crash}
           /\ l \in Passwords => /\ ~isPGPMessage(f) /\ decryptFileContent(f, l) = {t}
                                 /\ \A x \in Passwords \ {l} : decryptFileContent(f, x) = {EPASS}
                                 /\ decryptFileContent(f, NULL) \in {{ENULL}, {Crash}}
<1>1. Passwords \cap Keys = {}
  BY AccountFileAssumption
<1>2. CASE l \in Keys
  <2>1. PICK k \in Keys : f = encryptPGPWithVersionLine(t, k)
    BY <1>1, <1>2 DEF Whole
  <2> QED
    BY <1>1, <1>2, <2>1, PGPFile
<1>3. CASE l \in Passwords
  <2>1. PICK s \in Salts : \/ f = encryptWithVersionLine(t, l, s)
                           \/ \E v \in Legacy : f = crypt_encrypt_hex(t, l, s, v)
    BY <1>1, <1>3 DEF Whole
  <2>2. CASE f = encryptWithVersionLine(t, l, s)
    BY <1>1, <1>3, <2>2, PasswordFile
  <2>3. CASE \E v \in Legacy : f = crypt_encrypt_hex(t, l, s, v)
    BY <1>1, <1>3, <2>3, HexFile
  <2> QED
    BY <2>1, <2>2, <2>3
<1> QED
  BY <1>2, <1>3

\* What is written under l opens with l; gpg opens what was written for any
\* of the user's keys.
LEMMA LockedWhole ==
    ASSUME NEW i \in Procs, NEW t \in 1..MaxToken, NEW l \in Passwords \cup Keys, NEW m \in Passwords \cup Keys,
           m = l \/ (l \in Keys /\ m \in Keys)
    PROVE  Whole(Locked(i, t, l), m, t)
<1>1. Passwords \cap Keys = {}
  BY AccountFileAssumption
<1>2. CASE l \in Keys
  <2>1. Locked(i, t, l) = encryptPGPWithVersionLine(t, l)
    BY <1>2 DEF Locked
  <2> QED
    BY <1>2, <2>1, Zenon DEF Whole
<1>3. CASE l \notin Keys
  <2>1. Locked(i, t, l) = encryptWithVersionLine(t, l, Salt(i, t, l)) /\ m = l /\ l \in Passwords
    BY <1>3 DEF Locked
  <2>2. Salt(i, t, l) \in Salts
    BY <2>1 DEF Salt, Salts, Procs
  <2> QED
    BY <2>1, <2>2, Zenon DEF Whole
<1> QED
  BY <1>2, <1>3

\* A whole file gives the same when oidcp or oidc-gen reads it.
LEMMA ReadRested ==
    ASSUME BaseInv, NEW sure, Rested(file, lock, token, sure)
    PROVE  /\ Rested(readOidcFile, lock, token, sure)
           /\ file # NULL => readOidcFile = file
<1>1. CASE file = NULL
  BY <1>1 DEF readOidcFile, Rested
<1>2. CASE file # NULL
  <2>1. PICK t \in 1..token : Whole(file, lock, t) /\ (sure => t = token)
    BY <1>2 DEF Rested
  <2>2. t \in Nat /\ lock \in Passwords \cup Keys
    BY DEF BaseInv, LinesInv, StoreInv
  <2>3. readOidcFile = file
    BY <1>2, <2>1, <2>2, WholeFile DEF readOidcFile
  <2> QED
    BY <2>3
<1> QED
  BY <1>1, <1>2

\* With no key in the store, oidcp writes under the user's lock, or, for gpg,
\* for another of the user's keys.
LEMMA FoundFits ==
    ASSUME BaseInv, NoKey(entry), Rested(Read, lock, token, FALSE), NEW l \in Passwords \cup Keys, Found(l)
    PROVE  lock = l \/ (l \in Keys /\ lock \in Keys)
<1>1. getGPGKeyFor(entry) = NULL
  BY DEF NoKey, getGPGKeyFor, decryptPassword
<1>2. Read # NULL
  BY <1>1 DEF Found, decryptFileContent, ENULL
<1>3. PICK t \in 1..token : Whole(Read, lock, t)
  BY <1>2 DEF Rested
<1>4. t \in Nat /\ lock \in Passwords \cup Keys
  BY DEF BaseInv, LinesInv, StoreInv
<1>5. CASE l \in Keys /\ isPGPMessage(Read)
  BY <1>2, <1>3, <1>4, <1>5, WholeFile
<1>6. CASE l \in Passwords /\ \E r \in decryptFileContent(Read, l) : r >= 0
  <2>1. /\ lock \in Keys => \A x \in Passwords : decryptFileContent(Read, x) = {Crash}
        /\ lock \in Passwords => \A x \in Passwords \ {lock} : decryptFileContent(Read, x) = {EPASS}
    BY <1>2, <1>3, <1>4, WholeFile
  <2>2. l # lock => decryptFileContent(Read, l) \in {{Crash}, {EPASS}}
    BY <1>4, <1>6, <2>1
  <2> QED
    BY <1>6, <2>2 DEF Crash, EPASS
<1> QED
  BY <1>1, <1>5, <1>6 DEF Found
-----------------------------------------------------------------------------
(* The steps keep the peace.                                               *)

LEMMA PeaceSame ==
    ASSUME PeaceInv, UNCHANGED <<file, token, lock, p, g, w, stale, hurt>>, NoKey(entry')
    PROVE  PeaceInv'
BY DEF PeaceInv

LEMMA NoWriteQuiet == \A at : Quiet(NoWrite, at) /\ NoWrite.done = NULL
BY DEF Quiet, NoWrite

LEMMA KeptNoKey ==
    ASSUME PeaceInv, EntryStep
    PROVE  NoKey(entry')
BY DEF PeaceInv, EntryStep, NoKey

LEMMA DiedPeace ==
    ASSUME BaseInv, PeaceInv, Died, NoKey(entry'), UNCHANGED <<file, token, lock, g>>
    PROVE  PeaceInv'
<1>1. DOMAIN w = {"p", "g"}
  BY DEF BaseInv, LinesInv, Procs
<1>2. p'.at = "idle" /\ w'["p"] = NoWrite /\ w'["g"] = w["g"]
  BY <1>1 DEF Died, Idle
<1>3. Quiet(w'["p"], p'.at) /\ Quiet(w'["g"], g'.at)
  BY <1>2, NoWriteQuiet DEF PeaceInv
<1>4. ASSUME ~hurt' PROVE Calm(file, token, lock, p', g, NoWrite, w["g"], stale')
  <2>1. ~hurt /\ w["p"].done = NULL
    BY <1>4 DEF Died
  <2>2. Calm(file, token, lock, p, g, w["p"], w["g"], stale)
    BY <2>1 DEF PeaceInv
  <2>3. stale' = (stale \/ p.at \in BusyStates)
    BY DEF Died, BusyStates
  <2> QED
    BY <1>2, <2>1, <2>2, <2>3, NoWriteQuiet DEF Calm, Rested, Carried, BusyStates
<1> QED
  BY <1>2, <1>3, <1>4 DEF PeaceInv

LEMMA GaveUpPeace ==
    ASSUME BaseInv, PeaceInv, GaveUp, p.at # "write", NoKey(entry'), UNCHANGED <<file, token, lock, g>>
    PROVE  PeaceInv'
<1>1. p'.at = "idle" /\ w' = w /\ stale' = TRUE /\ hurt' = hurt
  BY DEF GaveUp, Idle
<1>2. Quiet(w'["p"], p'.at) /\ Quiet(w'["g"], g'.at)
  BY <1>1 DEF PeaceInv, Quiet
<1>3. ASSUME ~hurt' PROVE Calm(file, token, lock, p', g, w["p"], w["g"], TRUE)
  <2>1. Calm(file, token, lock, p, g, w["p"], w["g"], stale)
    BY <1>1, <1>3 DEF PeaceInv
  <2>2. w["p"].done = NULL
    BY DEF PeaceInv, Quiet
  <2> QED
    BY <1>1, <2>1, <2>2 DEF Calm, Rested, Carried, BusyStates
<1> QED
  BY <1>1, <1>2, <1>3 DEF PeaceInv

\* Another try of oidcp, at a prompt of an update or of loading an account.
LEMMA RetriedPeace ==
    ASSUME BaseInv, PeaceInv, p' = [p EXCEPT !.tries = @ + 1], UNCHANGED <<file, token, lock, g, w, stale, hurt>>,
           NoKey(entry')
    PROVE  PeaceInv'
<1>1. p'.at = p.at /\ p'.read = p.read
  BY DEF BaseInv, LinesInv, ProcOK
<1> QED
  BY <1>1 DEF PeaceInv, Calm

LEMMA WrotePeace ==
    ASSUME BaseInv, PeaceInv, p.at \in {"update", "rewrite"}, UNCHANGED <<file, token, lock, g>>, NoKey(entry'),
           NEW l \in Passwords \cup Keys, NEW c, Wrote(l, c),
           (c = l /\ file = NULL) \/ (c = NULL /\ Found(l))
    PROVE  PeaceInv'
<1> DEFINE x == [lines |-> Locked("p", token, l), done |-> NULL, linked |-> TRUE, chosen |-> c]
<1>1. DOMAIN w = {"p", "g"} /\ token \in 1..MaxToken /\ token \in 1..token /\ lock \in Passwords \cup Keys
  BY DEF BaseInv, LinesInv, StoreInv, Procs
<1>2. p'.at = "write" /\ w'["p"] = x /\ w'["g"] = w["g"] /\ stale' = stale /\ hurt' = hurt
  BY <1>1 DEF Wrote, Idle
<1>3. x.lines = Locked("p", token, l) /\ x.done = NULL /\ x.linked /\ x.chosen = c
  OBVIOUS
<1> HIDE DEF x
<1>4. Quiet(w'["p"], p'.at) /\ Quiet(w'["g"], g'.at)
  BY <1>2, <1>3 DEF PeaceInv, Quiet
<1>5. ASSUME ~hurt' PROVE Calm(file, token, lock, p', g, x, w["g"], stale)
  <2>1. Calm(file, token, lock, p, g, w["p"], w["g"], stale)
    BY <1>2, <1>5 DEF PeaceInv
  <2>2. g.at = "idle" /\ w["p"].done = NULL /\ w["g"].done = NULL
    BY <2>1 DEF PeaceInv, Quiet, Calm, BusyStates
  <2>3. Rested(file, lock, token, FALSE) /\ (p.at = "update" => Rested(p.read, lock, token, FALSE))
    BY <2>1, <2>2 DEF Calm, Rested
  <2>4. Rested(Read, lock, token, FALSE)
    BY <2>3, ReadRested DEF Read
  <2>5. Whole(x.lines, FirstOf(x.chosen, lock), token)
    <3>1. CASE c = l /\ c # NULL
      <4>1. FirstOf(x.chosen, lock) = l
        BY <1>3, <3>1 DEF FirstOf
      <4> QED
        BY <1>1, <1>3, <4>1, LockedWhole DEF Procs
    <3>2. CASE c = NULL
      <4>1. l # NULL
        BY AccountFileAssumption
      <4>2. lock = l \/ (l \in Keys /\ lock \in Keys)
        BY <2>4, <3>2, <4>1, FoundFits DEF PeaceInv
      <4>3. FirstOf(x.chosen, lock) = lock
        BY <1>3, <3>2 DEF FirstOf
      <4> QED
        BY <1>1, <1>3, <4>2, <4>3, LockedWhole DEF Procs
    <3> QED
      BY <3>1, <3>2
  <2>6. Carried(x, file, lock, token, TRUE)
    BY <1>1, <1>3, <2>5 DEF Carried
  <2> QED
    BY <1>2, <2>2, <2>3, <2>6 DEF Calm, BusyStates, Rested
<1> QED
  BY <1>2, <1>4, <1>5 DEF PeaceInv

LEMMA PasswordPeace ==
    ASSUME BaseInv, PeaceInv, p.at \in {"update", "rewrite"}, UNCHANGED <<now, file, token, lock, g>>,
           PasswordStep, EntryStep
    PROVE  PeaceInv'
<1>1. NoKey(entry')
  BY KeptNoKey
<1>2. CASE Died
  BY <1>1, <1>2, DiedPeace
<1>3. CASE GaveUp
  BY <1>1, <1>3, GaveUpPeace
<1>4. CASE Retried
  BY <1>1, <1>4, RetriedPeace DEF Retried
<1>5. CASE \E l \in Passwords \cup Keys : Wrote(l, NULL) /\ Found(l)
  BY <1>1, <1>5, WrotePeace
<1>6. CASE \E l \in Passwords \cup Keys : file = NULL /\ Wrote(l, l)
  <2>1. PICK l \in Passwords \cup Keys : file = NULL /\ Wrote(l, l)
    BY <1>6
  <2>2. l \in Passwords \cup Keys /\ UNCHANGED <<file, token, lock, g>>
    OBVIOUS
  <2>3. (l = l /\ file = NULL) \/ (l = NULL /\ Found(l))
    BY <2>1
  <2> QED
    BY <1>1, <2>1, <2>2, <2>3, WrotePeace
<1> QED
  BY <1>2, <1>3, <1>4, <1>5, <1>6 DEF PasswordStep

\* oidcp comes to rest without having had something to write.
LEMMA AutoloadPeace ==
    ASSUME BaseInv, PeaceInv, NEW a \in Answers, NEW s \in BOOLEAN, autoload(a, s)
    PROVE  PeaceInv'
<1>1. /\ entry' = entry \/ entry' = NULL \/ (entry' # NULL => entry'.gpg_key = NULL)
      /\ Died \/ (p' \in {Idle, [p EXCEPT !.tries = @ + 1]} /\ UNCHANGED <<w, stale, hurt>>)
      /\ UNCHANGED <<now, file, token, lock, g>>
  BY AutoloadBase
<1>2. NoKey(entry')
  BY <1>1 DEF PeaceInv, NoKey
<1>3. CASE Died
  BY <1>1, <1>2, <1>3, DiedPeace
<1>4. CASE p' = [p EXCEPT !.tries = @ + 1] /\ UNCHANGED <<w, stale, hurt>>
  BY <1>1, <1>2, <1>4, RetriedPeace
<1>5. CASE p' = Idle /\ UNCHANGED <<w, stale, hurt>>
  <2>1. p.at = "autoload" /\ p'.at = "idle"
    BY <1>5 DEF autoload, Idle
  <2>2. Quiet(w["p"], p'.at)
    BY <2>1 DEF PeaceInv, Quiet
  <2> QED
    BY <1>1, <1>2, <1>5, <2>1, <2>2 DEF PeaceInv, Calm, BusyStates
<1> QED
  BY <1>1, <1>3, <1>4, <1>5

LEMMA StartPeace ==
    ASSUME BaseInv, PeaceInv, updateRefreshToken \/ reauthenticated
    PROVE  PeaceInv'
<1>1. /\ p.at = "idle" /\ token' = token + 1 /\ hurt' = (hurt \/ g.at # "idle")
      /\ UNCHANGED <<file, lock, entry, g, w, stale>>
      /\ \/ p' = [at |-> "update", read |-> readOidcFile, tries |-> 0]
         \/ p' = [at |-> "rewrite", read |-> NULL, tries |-> 0]
  BY DEF updateRefreshToken, reauthenticated, Waiting, Overlap
<1>2. p'.at \in {"update", "rewrite"} /\ (p'.at = "update" => p'.read = readOidcFile)
  BY <1>1
<1>3. w["p"].done = NULL /\ w["p"].lines = NULL /\ Quiet(w["p"], p'.at) /\ Quiet(w["g"], g.at) /\ NoKey(entry)
  BY <1>1, <1>2 DEF PeaceInv, Quiet
<1>4. ASSUME ~hurt' PROVE Calm(file, token + 1, lock, p', g, w["p"], w["g"], stale)
  <2>1. Calm(file, token, lock, p, g, w["p"], w["g"], stale) /\ g.at = "idle" /\ w["g"].done = NULL
    BY <1>1, <1>4 DEF PeaceInv, Quiet
  <2>2. Rested(file, lock, token, FALSE)
    BY <1>3, <2>1 DEF Calm, Rested
  <2>3. Rested(readOidcFile, lock, token, FALSE)
    BY <2>2, ReadRested
  <2>4. token \in Nat
    BY DEF BaseInv, LinesInv
  <2>5. Rested(file, lock, token + 1, FALSE) /\ Rested(readOidcFile, lock, token + 1, FALSE)
    BY <2>2, <2>3, <2>4 DEF Rested
  <2> QED
    BY <1>2, <2>1, <2>5 DEF Calm, Rested, BusyStates
<1> QED
  BY <1>1, <1>3, <1>4 DEF PeaceInv

LEMMA LoadPeace ==
    ASSUME BaseInv, PeaceInv, getAutoloadConfig
    PROVE  PeaceInv'
<1>1. p.at = "idle" /\ p'.at = "autoload" /\ UNCHANGED <<file, token, lock, entry, g, w, stale, hurt>>
  BY DEF getAutoloadConfig, Waiting
<1>2. Quiet(w["p"], p'.at)
  BY <1>1 DEF PeaceInv, Quiet
<1> QED
  BY <1>1, <1>2 DEF PeaceInv, Calm, BusyStates

LEMMA GenStartPeace ==
    ASSUME BaseInv, PeaceInv, NEW o \in GenOptions, gen_saveAccountConfig(o) \/ gen_handleUpdateConfigFile(o)
    PROVE  PeaceInv'
<1>1. /\ g.at = "idle" /\ hurt' = (hurt \/ p.at \in BusyStates)
      /\ UNCHANGED <<file, lock, entry, p, w, stale>>
  BY DEF gen_saveAccountConfig, gen_handleUpdateConfigFile, GenOverlap, BusyStates
<1>2. \/ token' = token + 1 /\ g'.at = "save" /\ g'.text = token + 1 /\ g'.read = NULL
      \/ token' = token /\ file # NULL /\ g'.at = "open" /\ g'.read = readOidcFile
  BY DEF gen_saveAccountConfig, gen_handleUpdateConfigFile, GenIdle
<1>3. w["g"].done = NULL /\ Quiet(w["g"], g'.at) /\ Quiet(w["p"], p.at) /\ NoKey(entry)
  BY <1>1, <1>2 DEF PeaceInv, Quiet
<1>4. ASSUME ~hurt' PROVE Calm(file, token', lock, p, g', w["p"], w["g"], stale)
  <2>1. Calm(file, token, lock, p, g, w["p"], w["g"], stale) /\ p.at \notin BusyStates /\ w["p"].done = NULL
    BY <1>1, <1>4 DEF PeaceInv, Quiet, BusyStates
  <2>2. Rested(file, lock, token, ~stale)
    BY <1>1, <1>3, <2>1 DEF Calm, Rested
  <2>3. token \in Nat
    BY DEF BaseInv, LinesInv
  <2>4. CASE token' = token + 1 /\ g'.at = "save" /\ g'.text = token + 1 /\ g'.read = NULL
    <3>1. Rested(file, lock, token + 1, FALSE)
      BY <2>2, <2>3 DEF Rested
    <3> QED
      BY <2>1, <2>4, <3>1 DEF Calm, Rested, BusyStates
  <2>5. CASE token' = token /\ file # NULL /\ g'.at = "open" /\ g'.read = readOidcFile
    <3>1. readOidcFile = file
      BY <2>2, <2>5, ReadRested
    <3> QED
      BY <2>1, <2>2, <2>5, <3>1 DEF Calm, Rested, BusyStates
  <2> QED
    BY <1>2, <2>4, <2>5
<1> QED
  BY <1>1, <1>3, <1>4 DEF PeaceInv

LEMMA GenWrotePeace ==
    ASSUME BaseInv, PeaceInv, g.at \in {"save", "open"}, NEW t \in 1..token, NEW l \in Passwords \cup Keys,
           GenWrote(t, l), UNCHANGED <<file, token, lock, entry, p, stale, hurt>>,
           g.at = "save" => t = g.text, g.at = "open" => GenFound(t)
    PROVE  PeaceInv'
<1> DEFINE y == [lines |-> Locked("g", t, l), done |-> NULL, linked |-> TRUE, chosen |-> l]
<1>1. DOMAIN w = {"p", "g"} /\ token \in 1..MaxToken /\ t \in 1..MaxToken /\ t \in Nat /\ lock \in Passwords \cup Keys
  BY AccountFileAssumption DEF BaseInv, LinesInv, StoreInv, Procs
<1>2. GenOK(g, token)
  BY DEF BaseInv, LinesInv
<1>3. g'.at = "write" /\ g'.read = g.read /\ w'["g"] = y /\ w'["p"] = w["p"]
  BY <1>1, <1>2 DEF GenWrote, GenOK
<1>4. y.lines = Locked("g", t, l) /\ y.done = NULL /\ y.linked /\ y.chosen = l
  OBVIOUS
<1> HIDE DEF y
<1>5. Quiet(w'["p"], p'.at) /\ Quiet(w'["g"], g'.at)
  BY <1>3, <1>4 DEF PeaceInv, Quiet
<1>6. ASSUME ~hurt PROVE Calm(file, token, lock, p, g', w["p"], y, stale)
  <2>1. Calm(file, token, lock, p, g, w["p"], w["g"], stale)
    BY <1>6 DEF PeaceInv
  <2>2. p.at \notin BusyStates /\ w["p"].done = NULL /\ w["g"].done = NULL
    BY <2>1 DEF PeaceInv, Quiet, Calm, BusyStates
  <2>3. Whole(y.lines, FirstOf(y.chosen, lock), t)
    <3>1. FirstOf(y.chosen, lock) = l
      BY <1>4, AccountFileAssumption DEF FirstOf
    <3> QED
      BY <1>1, <1>4, <3>1, LockedWhole DEF Procs
  <2>4. g.read = NULL \/ ~stale => t = token
    <3>1. CASE g.at = "save"
      BY <2>1, <3>1 DEF Calm
    <3>2. CASE g.at = "open"
      <4>1. PICK t0 \in 1..token : Whole(g.read, lock, t0) /\ (~stale => t0 = token)
        BY <2>1, <3>2 DEF Calm, Rested
      <4>2. g.read # NULL /\ t0 \in Nat
        BY <1>1, <2>1, <3>2 DEF Calm
      <4>3. /\ lock \in Keys => isPGPMessage(g.read) /\ decryptPGPFileContent(g.read) = {t0}
            /\ lock \in Passwords => /\ ~isPGPMessage(g.read) /\ decryptFileContent(g.read, lock) = {t0}
                                     /\ \A x \in Passwords \ {lock} : decryptFileContent(g.read, x) = {EPASS}
                                     /\ decryptFileContent(g.read, NULL) \in {{ENULL}, {Crash}}
        BY <1>1, <4>1, <4>2, WholeFile
      <4>4. GenFound(t)
        BY <3>2
      <4>5. t # EPASS /\ t # ENULL /\ t # Crash
        BY <1>1 DEF EPASS, ENULL, Crash
      <4>6. t = t0
        BY <1>1, <4>3, <4>4, <4>5 DEF GenFound
      <4> QED
        BY <4>1, <4>2, <4>6
    <3> QED
      BY <3>1, <3>2
  <2>5. Carried(y, file, lock, token, g.read = NULL \/ ~stale)
    BY <1>4, <2>3, <2>4 DEF Carried
  <2>6. g.at = "save" => g.read = NULL
    BY <2>1 DEF Calm
  <2> QED
    BY <1>3, <2>1, <2>2, <2>5, <2>6 DEF Calm, Rested, Carried, BusyStates
<1> QED
  BY <1>3, <1>5, <1>6 DEF PeaceInv

LEMMA GenStepPeace ==
    ASSUME BaseInv, PeaceInv,
           \/ \E a \in Passwords : promptEncryptAndWriteToOidcFile(a)
           \/ \E a \in Answers : getDecryptedTextAndPasswordWithPromptFor(a)
    PROVE  PeaceInv'
<1>1. CASE \E a \in Passwords : promptEncryptAndWriteToOidcFile(a)
  <2>1. PICK l \in Passwords \cup Keys : GenWrote(g.text, l)
    BY <1>1, Saved
  <2>2. g.at = "save" /\ g.text \in 1..token /\ UNCHANGED <<file, token, lock, entry, p, stale, hurt>>
    BY <1>1, Saved
  <2> QED
    BY <2>1, <2>2, GenWrotePeace
<1>2. CASE \E a \in Answers : getDecryptedTextAndPasswordWithPromptFor(a)
  <2>1. /\ \/ w' = w /\ g' = GenIdle
           \/ w' = w /\ \E k : g' = [g EXCEPT !.tries = k]
           \/ \E t \in 1..token, l \in Passwords \cup Keys : GenWrote(t, l) /\ GenFound(t)
        /\ g.at = "open"
        /\ UNCHANGED <<file, token, lock, entry, p, stale, hurt>>
    BY <1>2, Updated
  <2>2. CASE \E t \in 1..token, l \in Passwords \cup Keys : GenWrote(t, l) /\ GenFound(t)
    BY <2>1, <2>2, GenWrotePeace
  <2>3. CASE w' = w /\ g' = GenIdle
    <3>1. g'.at = "idle"
      BY <2>3 DEF GenIdle
    <3>2. Quiet(w["g"], g'.at)
      BY <2>1, <3>1 DEF PeaceInv, Quiet
    <3> QED
      BY <2>1, <2>3, <3>1, <3>2 DEF PeaceInv, Calm, Rested
  <2>4. CASE w' = w /\ \E k : g' = [g EXCEPT !.tries = k]
    <3>1. g'.at = g.at /\ g'.read = g.read /\ g'.text = g.text
      BY <2>4 DEF BaseInv, LinesInv, GenOK
    <3> QED
      BY <2>1, <2>4, <3>1 DEF PeaceInv, Calm
  <2> QED
    BY <2>1, <2>2, <2>3, <2>4
<1> QED
  BY <1>1, <1>2

LEMMA GenDiesPeace ==
    ASSUME BaseInv, PeaceInv, GenDies
    PROVE  PeaceInv'
<1>1. DOMAIN w = {"p", "g"}
  BY DEF BaseInv, LinesInv, Procs
<1>2. /\ g'.at = "idle" /\ w'["g"] = NoWrite /\ w'["p"] = w["p"]
      /\ hurt' = (hurt \/ w["g"].done # NULL) /\ stale' = TRUE
      /\ UNCHANGED <<file, token, lock, entry, p>>
  BY <1>1 DEF GenDies, GenIdle
<1>3. Quiet(w'["p"], p'.at) /\ Quiet(w'["g"], g'.at)
  BY <1>2, NoWriteQuiet DEF PeaceInv
<1>4. ASSUME ~hurt' PROVE Calm(file, token, lock, p, g', w["p"], NoWrite, TRUE)
  <2>1. Calm(file, token, lock, p, g, w["p"], w["g"], stale) /\ w["g"].done = NULL
    BY <1>2, <1>4 DEF PeaceInv
  <2> QED
    BY <1>2, <2>1, NoWriteQuiet DEF Calm, Rested, Carried
<1> QED
  BY <1>2, <1>3, <1>4 DEF PeaceInv

LEMMA FopenPeace ==
    ASSUME BaseInv, PeaceInv, NEW i \in Procs, fopen_w(i)
    PROVE  PeaceInv'
<1>1. /\ w[i].lines # NULL /\ w[i].done = NULL
      /\ file' = <<>> /\ w' = [w EXCEPT ![i].done = 0]
      /\ lock' = FirstOf(w[i].chosen, lock)
      /\ UNCHANGED <<token, entry, p, g, stale, hurt>>
  BY DEF fopen_w, FirstOf
<1>2. DOMAIN w = Procs /\ WriteOK(w[i], file, token)
  BY DEF BaseInv, LinesInv
<1> DEFINE x == w[i]
           z == [x EXCEPT !.done = 0]
<1>3. w'[i] = z /\ \A j \in Procs \ {i} : w'[j] = w[j]
  BY <1>1, <1>2
<1>4. z.done = 0 /\ 0 # NULL /\ z.lines = x.lines /\ z.chosen = x.chosen /\ (z.linked <=> x.linked)
  <2> HIDE DEF x
  <2>1. DOMAIN x = {"lines", "done", "linked", "chosen"}
    BY <1>2 DEF WriteOK, x
  <2> QED
    BY <2>1, NullAssumption
<1>5. x.linked /\ FirstOf(x.chosen, FirstOf(x.chosen, lock)) = FirstOf(x.chosen, lock)
  BY <1>1 DEF PeaceInv, Quiet, FirstOf, Procs
<1>6. Begun(<<>>, z)
  <2>1. x.lines \in Seq(Lines(token))
    BY <1>1, <1>2 DEF WriteOK, Content
  <2>2. Len(<<>>) = 0 /\ 0 <= Len(x.lines)
    BY <2>1
  <2> HIDE DEF z, x
  <2> QED
    BY <1>4, <1>5, <2>2 DEF Begun
<1> HIDE DEF z
<1>7. \A n, sure : Carried(x, file, lock, n, sure) => Carried(z, <<>>, lock', n, sure)
  BY <1>1, <1>4, <1>5, <1>6 DEF Carried
<1>8. CASE i = "p"
  <2>1. p.at = "write" /\ w'["p"] = z /\ w'["g"] = w["g"]
    BY <1>1, <1>3, <1>8 DEF PeaceInv, Quiet, Procs
  <2>2. Quiet(w'["p"], p'.at) /\ Quiet(w'["g"], g'.at)
    BY <1>1, <1>4, <2>1 DEF PeaceInv, Quiet
  <2>3. ASSUME ~hurt PROVE Calm(<<>>, token, lock', p, g, z, w["g"], stale)
    <3>1. Calm(file, token, lock, p, g, x, w["g"], stale)
      BY <1>8, <2>3 DEF PeaceInv
    <3>2. Carried(z, <<>>, lock', token, TRUE)
      BY <1>7, <2>1, <3>1 DEF Calm
    <3> QED
      BY <1>4, <2>1, <3>1, <3>2 DEF Calm, BusyStates
  <2> QED
    BY <1>1, <2>1, <2>2, <2>3 DEF PeaceInv
<1>9. CASE i = "g"
  <2>1. g.at = "write" /\ w'["g"] = z /\ w'["p"] = w["p"]
    BY <1>1, <1>3, <1>9 DEF PeaceInv, Quiet, Procs
  <2>2. Quiet(w'["p"], p'.at) /\ Quiet(w'["g"], g'.at)
    BY <1>1, <1>4, <2>1 DEF PeaceInv, Quiet
  <2>3. ASSUME ~hurt PROVE Calm(<<>>, token, lock', p, g, w["p"], z, stale)
    <3>1. Calm(file, token, lock, p, g, w["p"], x, stale)
      BY <1>9, <2>3 DEF PeaceInv
    <3>2. Carried(z, <<>>, lock', token, g.read = NULL \/ ~stale)
      <4>1. Carried(x, file, lock, token, g.read = NULL \/ ~stale)
        BY <2>1, <3>1 DEF Calm
      <4> QED
        BY <1>1, <1>4, <1>5, <1>6, <4>1 DEF Carried
    <3> QED
      BY <1>4, <2>1, <3>1, <3>2 DEF Calm, BusyStates
  <2> QED
    BY <1>1, <2>1, <2>2, <2>3 DEF PeaceInv
<1> QED
  BY <1>8, <1>9 DEF Procs

\* The first k lines of a write in a file that was just truncated.
LEMMA FirstLines ==
    ASSUME Len(file) = 0, NEW lines, NEW new, NEW k \in Nat \ {0}, \A j \in 1 .. k - 1 : new[j] = lines[j]
    PROVE  Len(Overlay(new, 1, k)) = k /\ \A j \in 1 .. k - 1 : Overlay(new, 1, k)[j] = lines[j]
<1> DEFINE f == [i \in 1..k |-> IF 1 <= i /\ i <= k THEN new[i] ELSE IF i <= Len(file) THEN file[i] ELSE Hole]
<1>1. Overlay(new, 1, k) = f
  BY DEF Overlay
<1>2. Len(f) = k /\ \A j \in 1..k : f[j] = new[j]
  OBVIOUS
<1> HIDE DEF f
<1> QED
  BY <1>1, <1>2

\* All the lines, over what is there of the same write.
LEMMA AllLines ==
    ASSUME NEW n \in Nat, file \in Seq(Lines(n)), NEW lines \in Seq(Lines(n)), NEW d \in 0..Len(lines),
           Len(file) = d, \A j \in 1 .. d - 1 : file[j] = lines[j]
    PROVE  Overlay(lines, IF d = 0 THEN 1 ELSE d, Len(lines)) = lines
<1> DEFINE from == IF d = 0 THEN 1 ELSE d
           f == [i \in 1..Len(lines) |-> IF from <= i /\ i <= Len(lines) THEN lines[i]
                                         ELSE IF i <= Len(file) THEN file[i] ELSE Hole]
<1>1. Overlay(lines, from, Len(lines)) = f
  BY DEF Overlay
<1>2. ASSUME NEW i \in 1..Len(lines)
      PROVE  (IF from <= i /\ i <= Len(lines) THEN lines[i] ELSE IF i <= Len(file) THEN file[i] ELSE Hole) = lines[i]
  <2>1. i \in Nat /\ 1 <= i /\ i <= Len(lines) /\ d \in Nat
    OBVIOUS
  <2>2. CASE from <= i
    BY <2>1, <2>2
  <2>3. CASE ~(from <= i)
    <3>1. i \in 1 .. d - 1 /\ i <= Len(file)
      BY <2>1, <2>3
    <3> QED
      BY <2>3, <3>1
  <2> QED
    BY <2>2, <2>3
<1>3. f = [i \in 1..Len(lines) |-> lines[i]]
  BY <1>2
<1>4. lines = [i \in 1..Len(lines) |-> lines[i]]
  OBVIOUS
<1> QED
  BY <1>1, <1>3, <1>4, Zenon

LEMMA FprintfPeace ==
    ASSUME BaseInv, PeaceInv, NEW i \in Procs, NEW c \in Cuts, fprintf(i, c[1], c[2])
    PROVE  PeaceInv'
<1> DEFINE x == w[i]
           k == c[1]
           z == [x EXCEPT !.done = k]
<1>1. /\ x.done = 0 /\ k < Len(x.lines)
      /\ file' = IF x.linked THEN Overlay([x.lines EXCEPT ![k].whole = ~c[2]], 1, k) ELSE file
      /\ w' = [w EXCEPT ![i].done = k]
      /\ UNCHANGED <<token, lock, entry, p, g, stale, hurt>>
  BY DEF fprintf
<1>2. k \in 1..6 /\ 0 # NULL /\ k # NULL
  BY AccountFileAssumption, NullAssumption
<1>3. DOMAIN w = Procs /\ WriteOK(x, file, token) /\ token \in Nat
  BY DEF BaseInv, LinesInv
<1>4. w'[i] = z /\ \A j \in Procs \ {i} : w'[j] = w[j]
  BY <1>1, <1>3
<1>5. x.lines \in Seq(Lines(token)) /\ (x.linked => file \in Seq(Lines(token)))
  BY <1>1, <1>2, <1>3 DEF WriteOK
<1>6. z.done = k /\ z.lines = x.lines /\ z.chosen = x.chosen /\ (z.linked <=> x.linked)
  <2> HIDE DEF x, k
  <2>1. DOMAIN x = {"lines", "done", "linked", "chosen"}
    BY <1>3 DEF WriteOK
  <2> QED
    BY <2>1
<1> HIDE DEF z
<1>7. Begun(file, x) => Begun(file', z)
  <2> SUFFICES ASSUME Begun(file, x) PROVE Begun(file', z)
    OBVIOUS
  <2>1. CASE x.linked
    <3>1. Len(file) = 0 /\ file \in Seq(Lines(token)) /\ k \in 1..Len(x.lines)
      BY <1>1, <1>2, <1>5, <2>1 DEF Begun
    <3> DEFINE new == [x.lines EXCEPT ![k].whole = ~c[2]]
               f == Overlay(new, 1, k)
    <3>2. Len(f) = k /\ \A j \in 1 .. k - 1 : f[j] = x.lines[j]
      <4>1. \A j \in 1 .. k - 1 : new[j] = x.lines[j]
        <5> HIDE DEF x
        <5> QED
          BY <1>2, <1>5, <3>1
      <4> HIDE DEF k, x, new
      <4>2. k \in Nat \ {0} /\ Len(file) = 0
        BY <1>2, <3>1
      <4> QED
        BY <4>1, <4>2, FirstLines
    <3>3. file' = f
      BY <1>1, <2>1
    <3> HIDE DEF f, x, k
    <3> QED
      BY <1>6, <2>1, <3>1, <3>2, <3>3 DEF Begun
  <2>2. CASE ~x.linked
    BY <1>1, <1>6, <2>2 DEF Begun
  <2> QED
    BY <2>1, <2>2
<1> HIDE DEF k
<1>8. CASE i = "p"
  <2>1. p.at = "write" /\ w'["p"] = z /\ w'["g"] = w["g"]
    BY <1>1, <1>2, <1>4, <1>8 DEF PeaceInv, Quiet, Procs
  <2>2. Quiet(w'["p"], p'.at) /\ Quiet(w'["g"], g'.at)
    BY <1>1, <1>2, <1>6, <2>1 DEF PeaceInv, Quiet
  <2>3. ASSUME ~hurt PROVE Calm(file', token, lock, p, g, z, w["g"], stale)
    <3>1. Calm(file, token, lock, p, g, x, w["g"], stale)
      BY <1>8, <2>3 DEF PeaceInv
    <3>2. Carried(z, file', lock, token, TRUE)
      <4>1. Carried(x, file, lock, token, TRUE)
        BY <2>1, <3>1 DEF Calm
      <4> HIDE DEF x
      <4> QED
        BY <1>1, <1>2, <1>6, <1>7, <4>1 DEF Carried
    <3> QED
      BY <1>2, <1>6, <2>1, <3>1, <3>2 DEF Calm, BusyStates
  <2> QED
    BY <1>1, <2>1, <2>2, <2>3 DEF PeaceInv
<1>9. CASE i = "g"
  <2>1. g.at = "write" /\ w'["g"] = z /\ w'["p"] = w["p"]
    BY <1>1, <1>2, <1>4, <1>9 DEF PeaceInv, Quiet, Procs
  <2>2. Quiet(w'["p"], p'.at) /\ Quiet(w'["g"], g'.at)
    BY <1>1, <1>2, <1>6, <2>1 DEF PeaceInv, Quiet
  <2>3. ASSUME ~hurt PROVE Calm(file', token, lock, p, g, w["p"], z, stale)
    <3>1. Calm(file, token, lock, p, g, w["p"], x, stale)
      BY <1>9, <2>3 DEF PeaceInv
    <3>2. Carried(z, file', lock, token, g.read = NULL \/ ~stale)
      <4>1. Carried(x, file, lock, token, g.read = NULL \/ ~stale)
        BY <2>1, <3>1 DEF Calm
      <4> HIDE DEF x
      <4> QED
        BY <1>1, <1>2, <1>6, <1>7, <4>1 DEF Carried
    <3> QED
      BY <1>2, <1>6, <2>1, <3>1, <3>2 DEF Calm, BusyStates
  <2> QED
    BY <1>1, <2>1, <2>2, <2>3 DEF PeaceInv
<1> QED
  BY <1>8, <1>9 DEF Procs

LEMMA EndPeace ==
    ASSUME BaseInv, PeaceInv, NEW i \in Procs, fclose(i) \/ writeFails(i)
    PROVE  PeaceInv'
<1> DEFINE x == w[i]
<1>1. /\ x.lines # NULL /\ w' = [w EXCEPT ![i] = NoWrite] /\ entry' = entry
      /\ IF i = "p" THEN p' = Idle /\ g' = g ELSE g' = GenIdle /\ p' = p
      /\ UNCHANGED <<token, lock>>
  BY DEF fclose, writeFails, EndWrite, Done
<1>2. \/ /\ x.done # NULL /\ stale' = (stale /\ i = "g" /\ g.read # NULL) /\ hurt' = hurt
         /\ file' = IF x.linked THEN Overlay(x.lines, IF x.done = 0 THEN 1 ELSE x.done, Len(x.lines)) ELSE file
      \/ file' = file /\ stale' = TRUE /\ hurt' = (hurt \/ x.done # NULL)
  BY DEF fclose, writeFails
<1>3. DOMAIN w = Procs /\ WriteOK(x, file, token) /\ token \in Nat
  BY DEF BaseInv, LinesInv
<1>4. w'[i] = NoWrite /\ \A j \in Procs \ {i} : w'[j] = w[j]
  BY <1>1, <1>3
\* What the write leaves, if it was the only one.
<1>5. ASSUME ~hurt', NEW sure, Carried(x, file, lock, token, sure), x.done = NULL => Rested(file, lock, token, FALSE)
      PROVE  Rested(file', lock, token, sure /\ (stale' = (stale /\ i = "g" /\ g.read # NULL)) /\ ~stale')
  <2>1. CASE file' = file /\ stale' = TRUE /\ hurt' = (hurt \/ x.done # NULL)
    BY <1>5, <2>1 DEF Rested
  <2>2. CASE /\ x.done # NULL
             /\ file' = IF x.linked THEN Overlay(x.lines, IF x.done = 0 THEN 1 ELSE x.done, Len(x.lines)) ELSE file
    <3>1. CASE ~x.linked
      BY <1>5, <2>2, <3>1 DEF Carried, Begun, Rested
    <3>2. CASE x.linked
      <4>1. /\ x.done \in Nat /\ x.lines \in Seq(Lines(token)) /\ file \in Seq(Lines(token))
        BY <1>3, <2>2, <3>2 DEF WriteOK
      <4>2. Len(file) = x.done /\ x.done <= Len(x.lines) /\ \A j \in 1 .. x.done - 1 : file[j] = x.lines[j]
        BY <1>5, <2>2, <3>2 DEF Carried, Begun
      <4>3. x.done \in 0..Len(x.lines)
        BY <4>1, <4>2
      <4>4. file' = x.lines
        <5> HIDE DEF x
        <5>1. Overlay(x.lines, IF x.done = 0 THEN 1 ELSE x.done, Len(x.lines)) = x.lines
          BY <1>3, <4>1, <4>2, <4>3, AllLines
        <5> QED
          BY <2>2, <3>2, <5>1
      <4> HIDE DEF x
      <4> QED
        BY <1>5, <2>2, <4>4 DEF Carried, Rested
    <3> QED
      BY <3>1, <3>2
  <2> QED
    BY <1>2, <2>1, <2>2
<1>6. hurt' = hurt \/ hurt' = (hurt \/ x.done # NULL)
  BY <1>2
<1>7. CASE i = "p"
  <2>1. p.at = "write" /\ p'.at = "idle" /\ g' = g /\ w'["p"] = NoWrite /\ w'["g"] = w["g"]
    BY <1>1, <1>4, <1>7 DEF PeaceInv, Quiet, Procs, Idle
  <2>2. Quiet(w'["p"], p'.at) /\ Quiet(w'["g"], g'.at)
    BY <2>1, NoWriteQuiet DEF PeaceInv
  <2>3. ASSUME ~hurt' PROVE Calm(file', token, lock, p', g, NoWrite, w["g"], stale')
    <3>1. ~hurt
      BY <1>6, <2>3
    <3>2. Calm(file, token, lock, p, g, x, w["g"], stale)
      BY <1>7, <3>1 DEF PeaceInv
    <3>3. g.at = "idle" /\ w["g"].done = NULL
      BY <2>1, <3>2 DEF Calm, BusyStates, PeaceInv, Quiet
    <3>4. Carried(x, file, lock, token, TRUE) /\ (x.done = NULL => Rested(file, lock, token, FALSE))
      BY <2>1, <3>2, <3>3 DEF Calm, Rested
    <3>5. Rested(file', lock, token, TRUE /\ (stale' = (stale /\ i = "g" /\ g.read # NULL)) /\ ~stale')
      BY <1>5, <2>3, <3>4
    <3>6. ~stale' => stale' = (stale /\ i = "g" /\ g.read # NULL)
      BY <1>2
    <3> QED
      BY <2>1, <3>3, <3>5, <3>6 DEF Calm, Rested, BusyStates
  <2> QED
    BY <1>1, <2>1, <2>2, <2>3 DEF PeaceInv
<1>8. CASE i = "g"
  <2>1. g.at = "write" /\ g'.at = "idle" /\ p' = p /\ w'["g"] = NoWrite /\ w'["p"] = w["p"]
    BY <1>1, <1>4, <1>8 DEF PeaceInv, Quiet, Procs, GenIdle
  <2>2. Quiet(w'["p"], p'.at) /\ Quiet(w'["g"], g'.at)
    BY <2>1, NoWriteQuiet DEF PeaceInv
  <2>3. ASSUME ~hurt' PROVE Calm(file', token, lock, p, g', w["p"], NoWrite, stale')
    <3>1. ~hurt
      BY <1>6, <2>3
    <3>2. Calm(file, token, lock, p, g, w["p"], x, stale)
      BY <1>8, <3>1 DEF PeaceInv
    <3>3. p.at \notin BusyStates /\ w["p"].done = NULL
      BY <2>1, <3>2 DEF Calm, BusyStates, PeaceInv, Quiet
    <3> DEFINE sure == g.read = NULL \/ ~stale
    <3>4. /\ Carried(x, file, lock, token, FALSE) /\ (sure => Carried(x, file, lock, token, TRUE))
          /\ x.done = NULL => Rested(file, lock, token, FALSE)
      BY <2>1, <3>2, <3>3 DEF Calm, Rested, Carried
    <3>5. /\ sure => Rested(file', lock, token, TRUE /\ (stale' = (stale /\ i = "g" /\ g.read # NULL)) /\ ~stale')
          /\ Rested(file', lock, token, FALSE /\ (stale' = (stale /\ i = "g" /\ g.read # NULL)) /\ ~stale')
      <4> HIDE DEF sure
      <4> QED
        BY <1>5, <2>3, <3>4
    <3>6. ~stale' => stale' = (stale /\ i = "g" /\ g.read # NULL)
      BY <1>2
    <3>7. ~stale' => sure
      BY <1>8, <3>6
    <3> HIDE DEF sure
    <3> QED
      BY <2>1, <3>3, <3>5, <3>6, <3>7 DEF Calm, Rested, BusyStates
  <2> QED
    BY <1>1, <2>1, <2>2, <2>3 DEF PeaceInv
<1> QED
  BY <1>7, <1>8 DEF Procs
\* The file is removed: a write that has begun fills a file no more.
LEMMA RemovePeace ==
    ASSUME BaseInv, PeaceInv, removeOidcFile
    PROVE  PeaceInv'
<1>1. /\ g.at = "idle" /\ file' = NULL
      /\ w' = [i \in {"p", "g"} |-> [w[i] EXCEPT !.linked = w[i].done = NULL]]
      /\ UNCHANGED <<token, lock, entry, p, g, stale, hurt>>
  BY DEF removeOidcFile
<1>2. ASSUME NEW i \in Procs
      PROVE  /\ w'[i].lines = w[i].lines /\ w'[i].done = w[i].done /\ w'[i].chosen = w[i].chosen
             /\ w'[i].linked <=> w[i].done = NULL
  <2> DEFINE x == w[i]
             b == x.done = NULL
  <2>1. w'[i] = [x EXCEPT !.linked = b]
    BY <1>1 DEF Procs
  <2>2. DOMAIN x = {"lines", "done", "linked", "chosen"}
    BY DEF BaseInv, LinesInv, WriteOK
  <2> DEFINE z == [x EXCEPT !.linked = b]
  <2>3. z.lines = x.lines /\ z.done = x.done /\ z.chosen = x.chosen /\ (z.linked <=> b)
    <3> HIDE DEF x, b
    <3>1. CASE b
      BY <2>2, <3>1
    <3>2. CASE ~b
      BY <2>2, <3>2
    <3> QED
      BY <3>1, <3>2
  <2>4. w'[i] = z
    BY <2>1
  <2> HIDE DEF z
  <2> QED
    BY <2>3, <2>4
<1>3. "p" \in Procs /\ "g" \in Procs
  BY DEF Procs
<1>4. Quiet(w'["p"], p'.at) /\ Quiet(w'["g"], g'.at)
  BY <1>1, <1>2, <1>3 DEF PeaceInv, Quiet
<1>5. ASSUME ~hurt PROVE Calm(NULL, token, lock, p, g, w'["p"], w'["g"], stale)
  <2>1. Calm(file, token, lock, p, g, w["p"], w["g"], stale)
    BY <1>5 DEF PeaceInv
  <2>2. p.at = "write" => Carried(w'["p"], NULL, lock, token, TRUE)
    BY <1>2, <1>3, <2>1 DEF Calm, Carried, Begun
  <2> QED
    BY <1>1, <2>1, <2>2 DEF Calm, Rested
<1> QED
  BY <1>1, <1>4, <1>5 DEF PeaceInv

\* A request that stores an entry without a key.
LEMMA RequestPeace ==
    ASSUME BaseInv, PeaceInv, NEW e, IsRequest(e), Dies(e, now), "MEM" \in e.type => e.gpg_key = NULL,
           entry' = pw_handleSave(entry, e, now), UNCHANGED <<file, token, lock, p, g, w, stale, hurt>>
    PROVE  PeaceInv'
<1>1. CASE entry' = entry
  BY <1>1, PeaceSame DEF PeaceInv
<1>2. CASE entry' = savePassword(e, now)
  <2> DEFINE s == savePassword(e, now)
  <2>1. s.type = e.type /\ (e.gpg_key = NULL => s.gpg_key = NULL)
    BY SavedEntry DEF BaseInv, StoreInv
  <2> HIDE DEF s
  <2>2. NoKey(s)
    BY <2>1 DEF NoKey
  <2> QED
    BY <1>2, <2>2, PeaceSame DEF s
<1> QED
  BY <1>1, <1>2 DEF pw_handleSave

LEMMA AddRequestPeace ==
    ASSUME BaseInv, PeaceInv, NEW o \in AddOptions, AddRequest(o, IF lock \in Keys THEN NULL ELSE lock)
    PROVE  PeaceInv'
<1> DEFINE x == IF lock \in Keys THEN NULL ELSE lock
           e == add_passwordEntry(o, x, now)
<1>1. x \in Passwords \cup {NULL} /\ now \in Nat
  BY DEF BaseInv, StoreInv
<1>2. entry' = pw_handleSave(entry, e, now) /\ UNCHANGED <<file, token, lock, p, g, w, stale, hurt>>
  BY DEF AddRequest
<1> HIDE DEF x
<1>3. IsRequest(e) /\ Dies(e, now) /\ e.gpg_key = NULL
  BY <1>1, AddEntry
<1> HIDE DEF e
<1> QED
  BY <1>2, <1>3, RequestPeace

LEMMA GenRequestPeace ==
    ASSUME BaseInv, PeaceInv, NoStoredKey, NEW o \in GenOptions, GenRequest(o)
    PROVE  PeaceInv'
<1> DEFINE e == gen_passwordEntry(o)
<1>1. IsRequest(e) /\ e.expires_after = 0 /\ ("MEM" \in e.type => e.gpg_key = NULL)
  BY GenEntry
<1>2. entry' = pw_handleSave(entry, e, now) /\ UNCHANGED <<file, token, lock, p, g, w, stale, hurt>>
  BY DEF GenRequest
<1> HIDE DEF e
<1>3. Dies(e, now)
  BY <1>1 DEF Dies
<1> QED
  BY <1>1, <1>2, <1>3, RequestPeace

LEMMA SweepPeace ==
    ASSUME BaseInv, PeaceInv, removePasswordFor \/ Timeout
    PROVE  PeaceInv'
<1>1. /\ entry' = NULL \/ entry' = removeDeathPasswords(entry, now)
      /\ UNCHANGED <<file, token, lock, p, g, w, stale, hurt>>
  BY DEF removePasswordFor, Timeout
<1> DEFINE s == removeDeathPasswords(entry, now)
<1>2. s # NULL => entry # NULL /\ s.type = entry.type /\ s.gpg_key = entry.gpg_key
  BY Swept DEF BaseInv
<1> HIDE DEF s
<1>3. NoKey(NULL) /\ NoKey(s)
  BY <1>2 DEF PeaceInv, NoKey
<1>4. NoKey(entry')
  BY <1>1, <1>3 DEF s
<1> QED
  BY <1>1, <1>4, PeaceSame

LEMMA AgentDiesPeace ==
    ASSUME BaseInv, PeaceInv, AgentDies
    PROVE  PeaceInv'
<1>1. Died /\ entry' = NULL /\ UNCHANGED <<file, token, lock, g>>
  BY DEF AgentDies, Die, Died
<1>2. NoKey(entry')
  BY <1>1 DEF NoKey
<1> QED
  BY <1>1, <1>2, DiedPeace

LEMMA InitPeace == Init => PeaceInv
<1> SUFFICES ASSUME Init PROVE PeaceInv
  OBVIOUS
<1>1. /\ token = 1 /\ 1 \in 1..MaxToken /\ lock \in Passwords \cup Keys /\ entry = NULL
      /\ p.at = "idle" /\ g.at = "idle" /\ w["p"] = NoWrite /\ w["g"] = NoWrite
  BY AccountFileAssumption DEF Init, Idle, GenIdle
<1>2. Whole(file, lock, 1)
  <2>1. CASE file = Locked("g", 1, lock)
    BY <1>1, <2>1, LockedWhole DEF Procs
  <2>2. CASE \E l \in {lock} \cap Passwords, v \in Legacy : file = crypt_encrypt_hex(1, l, Salt("g", 1, l), v)
    <3>1. PICK l \in {lock} \cap Passwords, v \in Legacy : file = crypt_encrypt_hex(1, l, Salt("g", 1, l), v)
      BY <2>2
    <3>2. l = lock /\ lock \in Passwords /\ Salt("g", 1, lock) \in Salts
      BY <1>1 DEF Salt, Salts
    <3>3. file = crypt_encrypt_hex(1, lock, Salt("g", 1, lock), v)
      BY <3>1, <3>2
    <3> QED
      BY <3>2, <3>3, Zenon DEF Whole
  <2>3. \/ file = Locked("g", 1, lock)
        \/ \E l \in {lock} \cap Passwords, v \in Legacy : file = crypt_encrypt_hex(1, l, Salt("g", 1, l), v)
    BY DEF Init
  <2> QED
    BY <2>1, <2>2, <2>3
<1>3. Rested(file, lock, token, TRUE)
  BY <1>1, <1>2 DEF Rested
<1>4. Calm(file, token, lock, p, g, w["p"], w["g"], stale)
  BY <1>1, <1>3 DEF Calm, BusyStates, Rested
<1> QED
  BY <1>1, <1>4, NoWriteQuiet DEF PeaceInv, NoKey

LEMMA PeaceStep ==
    ASSUME NoStoredKey, BaseInv, PeaceInv, [Next]_vars
    PROVE  PeaceInv'
<1>1. CASE UNCHANGED vars
  BY <1>1, PeaceSame DEF vars, PeaceInv
<1>2. CASE Tick
  BY <1>2, PeaceSame DEF Tick, PeaceInv
<1>3. ASSUME NEW i \in Procs, Write(i) PROVE PeaceInv'
  BY <1>3, FopenPeace, FprintfPeace, EndPeace DEF Write
<1>4. ASSUME NEW a \in Answers, updateRefreshTokenTry(a) \/ writeOIDCFile(a) PROVE PeaceInv'
  <2>1. PasswordStep /\ EntryStep
    BY <1>4, UpdateTried, RewriteTried DEF BaseInv
  <2>2. p.at \in {"update", "rewrite"} /\ UNCHANGED <<now, file, token, lock, g>>
    BY <1>4 DEF updateRefreshTokenTry, writeOIDCFile
  <2> QED
    BY <2>1, <2>2, PasswordPeace
<1>5. CASE AgentStep
  BY <1>3, <1>4, <1>5, AutoloadPeace DEF AgentStep, Procs
<1>6. CASE GenStep
  BY <1>3, <1>6, GenStepPeace DEF GenStep, Procs
<1>7. CASE \E o \in AddOptions : AddRequest(o, IF lock \in Keys THEN NULL ELSE lock)
  BY <1>7, AddRequestPeace
<1>8. CASE \E o \in GenOptions : GenRequest(o) \/ gen_saveAccountConfig(o) \/ gen_handleUpdateConfigFile(o)
  BY <1>8, GenRequestPeace, GenStartPeace
<1> QED
  BY <1>1, <1>2, <1>5, <1>6, <1>7, <1>8, AgentDiesPeace, GenDiesPeace, SweepPeace, StartPeace, LoadPeace,
     RemovePeace DEF Next

\* What the invariant says of a file at rest.
LEMMA RestedFile ==
    ASSUME BaseInv, PeaceInv, AtRest, file # NULL, ~hurt
    PROVE  \E t \in 1..token :
              /\ Opened(lock) = {t} /\ (~stale => t = token)
              /\ lock \in Passwords => \A l \in Passwords \ {lock} : Opened(l) = {EPASS}
<1>1. Calm(file, token, lock, p, g, w["p"], w["g"], stale)
  BY DEF PeaceInv
<1>2. w["p"].done = NULL /\ w["g"].done = NULL /\ p.at \notin BusyStates /\ g.at = "idle"
  BY DEF PeaceInv, Quiet, AtRest, BusyStates
<1>3. Rested(file, lock, token, ~stale)
  BY <1>1, <1>2 DEF Calm, Rested
<1>4. PICK t \in 1..token : Whole(file, lock, t) /\ (~stale => t = token)
  BY <1>3 DEF Rested
<1>5. t \in Nat /\ lock \in Passwords \cup Keys /\ Passwords \cap Keys = {}
  BY AccountFileAssumption DEF BaseInv, StoreInv, LinesInv
<1>6. /\ readFile(file) = file
      /\ lock \in Keys => isPGPMessage(file) /\ decryptPGPFileContent(file) = {t}
      /\ lock \in Passwords => /\ decryptFileContent(file, lock) = {t}
                               /\ \A l \in Passwords \ {lock} : decryptFileContent(file, l) = {EPASS}
  BY <1>4, <1>5, WholeFile
<1> QED
  BY <1>4, <1>5, <1>6 DEF Opened

\* What decrypting the file answers can be relied on: it is a text that was
\* saved, however the last writes ended, and, if none was cut off, a wrong
\* password is told from a damaged file.
THEOREM Decryption ==
    ASSUME NoStoredKey
    PROVE  Spec => []DecryptionTells
<1>1. BaseInv /\ PeaceInv => WrongPasswordTold
  BY RestedFile DEF WrongPasswordTold
<1>2. BaseInv /\ PeaceInv /\ [Next]_vars => PeaceInv'
  BY PeaceStep
<1> QED
  BY <1>1, <1>2, InitBase, BaseStep, InitPeace, SavedTexts, PTL DEF Spec, DecryptionTells

\* As long as every write came to its end alone, the file opens with the lock
\* the user chose and holds the refresh token the provider accepts, whatever
\* oidcp and oidc-gen did to it and in whatever order.
THEOREM KeepsUp ==
    ASSUME NoStoredKey
    PROVE  Spec => []FileKeepsUp
<1>1. BaseInv /\ PeaceInv => FileKeepsUp
  BY RestedFile DEF FileKeepsUp
<1>2. BaseInv /\ PeaceInv /\ [Next]_vars => PeaceInv'
  BY PeaceStep
<1> QED
  BY <1>1, <1>2, InitBase, BaseStep, InitPeace, PTL DEF Spec

\* An update that fails, for want of a password or of space, leaves a file
\* that opens with the lock the user chose.
THEOREM FailuresHarmless ==
    ASSUME NoStoredKey
    PROVE  Spec => []FailedUpdateHarmless
<1>1. BaseInv /\ PeaceInv => FailedUpdateHarmless
  BY RestedFile DEF FailedUpdateHarmless
<1>2. BaseInv /\ PeaceInv /\ [Next]_vars => PeaceInv'
  BY PeaceStep
<1> QED
  BY <1>1, <1>2, InitBase, BaseStep, InitPeace, PTL DEF Spec
=============================================================================
