--------------------------- MODULE PasswordEntry ---------------------------
(***************************************************************************)
(* The entry of an account in oidcp's password store: where the password   *)
(* of its file can be had from (type), and until when one is kept in       *)
(* memory.  Entries are made by oidc-gen and oidc-add from their options,  *)
(* and by the agent itself when it loads an account.  What the store keeps *)
(* is encrypted: Seal(x) stands for encryptPassword's result.              *)
(***************************************************************************)
EXTENDS Crypt

CONSTANT Passwords

Seal(x) == [sealed |-> x]
encryptPassword(x) == IF x = NULL THEN NULL ELSE Seal(x)

decryptPassword(c) == IF c = NULL THEN NULL ELSE c.sealed

Types == {"MEM", "CMD", "PRMT", "FILE", "GPG"}

\* command and filepath stand for the password that is had from them.
EmptyEntry == [type |-> {}, password |-> NULL, command |-> NULL, filepath |-> NULL,
               gpg_key |-> NULL, expires_at |-> 0, expires_after |-> 0]

pwe_setPassword(pw, password, now) ==
    [pw EXCEPT !.password = password,
               !.expires_at = IF password # pw.password /\ @ = 0 /\ pw.expires_after # 0
                              THEN now + pw.expires_after ELSE @]

pwe_setExpiresIn(pw, expires_in, now) ==
    [pw EXCEPT !.expires_at = IF expires_in # 0 THEN now + expires_in ELSE 0,
               !.expires_after = expires_in]
-----------------------------------------------------------------------------
(* The clients.  o holds the options; pw_lifetime and lifetime are pairs   *)
(* of argProvided, "default" for --pw-store without a time, and the time.  *)

getPWExpiresInDependingOn(o) ==
    IF o.pw_lifetime.argProvided = "default" /\ o.lifetime.argProvided # "no"
    THEN o.lifetime.lifetime ELSE o.pw_lifetime.lifetime

storePW(o) == o.pw_lifetime.argProvided # "no" \/ o.store_pw

\* oidc-add: the password is the one the file was decrypted with, NULL for
\* an OpenPGP file.
add_passwordEntry(o, password, now) ==
    LET held == storePW(o) /\ password # NULL
        env == o.pw_env # NULL /\ ~held
        timed == IF held THEN pwe_setExpiresIn([EmptyEntry EXCEPT !.password = password],
                                               getPWExpiresInDependingOn(o), now)
                 ELSE IF env THEN [EmptyEntry EXCEPT !.password = password] ELSE EmptyEntry
    IN  [timed EXCEPT !.command = o.pw_cmd, !.filepath = o.pw_file,
                      !.type = {"PRMT"} \cup (IF o.pw_cmd # NULL THEN {"CMD"} ELSE {})
                                        \cup (IF held \/ env THEN {"MEM"} ELSE {})
                                        \cup (IF o.pw_file # NULL THEN {"FILE"} ELSE {})]

\* oidc-gen; pw_env here is the content of the variable.
gen_passwordEntry(o) ==
    [EmptyEntry EXCEPT !.command = o.pw_cmd, !.filepath = o.pw_file, !.password = o.pw_env,
                       !.gpg_key = o.pw_gpg,
                       !.type = {"PRMT"} \cup (IF o.pw_cmd # NULL THEN {"CMD"} ELSE {})
                                         \cup (IF o.pw_file # NULL THEN {"FILE"} ELSE {})
                                         \cup (IF o.pw_env # NULL THEN {"MEM"} ELSE {})
                                         \cup (IF o.pw_gpg # NULL THEN {"GPG"} ELSE {})]

\* getAutoloadConfig and oidc-gen's gen_addAfterStoreForPW_callback.
autoload_passwordEntry(password) == [EmptyEntry EXCEPT !.password = password, !.type = {"PRMT", "MEM"}]
-----------------------------------------------------------------------------
(* The store, for one account: NULL when there is no entry.                *)

\* The setter sees expires_after, so a missing expires_at is filled in here.
savePassword(pw, now) ==
    LET sealed == IF pw.password = NULL THEN pw ELSE pwe_setPassword(pw, encryptPassword(pw.password), now)
    IN  [sealed EXCEPT !.command = encryptPassword(@), !.filepath = encryptPassword(@),
                       !.gpg_key = encryptPassword(@)]

\* A request whose entry is refused leaves the store alone.
pw_handleSave(entry, pw, now) ==
    IF pw.type = {} \/ (pw.password = NULL /\ "MEM" \in pw.type) THEN entry ELSE savePassword(pw, now)

expirePasswordFor(entry, now) ==
    IF entry = NULL THEN NULL
    ELSE [pwe_setPassword(entry, NULL, now) EXCEPT !.expires_at = 0]

getMinPasswordDeath(entry, now) ==
    IF entry # NULL /\ entry.expires_at > now THEN entry.expires_at ELSE 0

getDeathPasswordEntry(entry, now) == entry # NULL /\ entry.expires_at > 0 /\ entry.expires_at <= now

removeDeathPasswords(entry, now) ==
    IF getDeathPasswordEntry(entry, now) THEN expirePasswordFor(entry, now) ELSE entry

\* Mutant: the lifetime of a password is not looked at.
memory_getPasswordFor_any(entry, now) == entry.password

memory_getPasswordFor(entry, now) ==
    IF entry.expires_at # 0 /\ entry.expires_at < now THEN NULL ELSE entry.password

getGPGKeyFor(entry) ==
    IF entry # NULL /\ "MEM" \in entry.type THEN decryptPassword(entry.gpg_key) ELSE NULL

\* The password found without asking the user, and where.
Stored(entry, now) ==
    LET memory == memory_getPasswordFor(entry, now)
        Has(t, x) == t \in entry.type /\ x # NULL
        Take(t, x) == [from |-> t, pw |-> decryptPassword(x)]
    IN  IF Has("MEM", memory) THEN Take("MEM", memory)
        ELSE IF Has("CMD", entry.command) THEN Take("CMD", entry.command)
        ELSE IF Has("FILE", entry.filepath) THEN Take("FILE", entry.filepath)
        ELSE [from |-> "PRMT", pw |-> NULL]

\* getPasswordFor when the user answers the prompt with answer (NULL if
\* it is cancelled): what it returns, and the entry it leaves.
getPasswordFor(entry, answer, now) ==
    IF entry = NULL THEN [from |-> "PRMT", pw |-> answer, entry |-> NULL]
    ELSE LET s == Stored(entry, now) IN
         IF s.pw # NULL THEN [from |-> s.from, pw |-> s.pw, entry |-> entry]
         ELSE IF "PRMT" \notin entry.type THEN [from |-> "PRMT", pw |-> NULL, entry |-> entry]
         ELSE [from |-> "PRMT", pw |-> answer,
               entry |-> IF answer # NULL /\ "MEM" \in entry.type
                         THEN pwe_setPassword(entry, encryptPassword(answer), now) ELSE entry]
-----------------------------------------------------------------------------
(* The clients' own questions for a password.  src gives the content of    *)
(* the environment variable, the command's output and the file's line.     *)

FirstOf(x, y) == IF x # NULL THEN x ELSE y

\* Only the first try is for the variable and the command; the file comes
\* second when there is a command.
getDecryptionPasswordFor(src, answer, number_try, max_tries) ==
    LET first == number_try = 0
        second == number_try = 1 /\ src.cmd # NULL
        here == FirstOf(IF first THEN FirstOf(src.env, src.cmd) ELSE NULL,
                        IF first \/ second THEN src.file ELSE NULL)
    IN  IF here = NULL /\ number_try >= max_tries THEN [pw |-> NULL, try |-> number_try, err |-> TRUE]
        ELSE [pw |-> FirstOf(here, answer), try |-> number_try + 1, err |-> FALSE]

getEncryptionPasswordFor(src, answer) == FirstOf(src.env, FirstOf(src.cmd, FirstOf(src.file, answer)))
=============================================================================
