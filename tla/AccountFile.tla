---------------------------- MODULE AccountFile ----------------------------
(***************************************************************************)
(* The file of one account and the processes that write it.  oidcp writes  *)
(* it when the provider gave a new refresh token (updateRefreshToken) and  *)
(* after a re-authentication (writeOIDCFile); it needs the file's password *)
(* for that, from its password store or from the user.  oidc-gen writes it *)
(* at the same time as it likes.  A write truncates the file and fills it  *)
(* again, and may be cut off by a crash or a full disk.                    *)
(***************************************************************************)
EXTENDS PasswordEntry, FiniteSets

CONSTANTS
    Keys,            \* ids of OpenPGP keys
    DefaultKeys,     \* what an agent may find as default_gpg_key of oidc-gen's configuration
    AddOptions,      \* options of oidc-add
    GenOptions,      \* options of oidc-gen
    MaxTries,        \* MAX_PASS_TRIES
    ParentInterval,  \* seconds between two looks at the parent process; 0 is none
    Cuts,            \* how much of a write may be in the file: lines, and whether the last is cut
    MaxFaults,       \* bound on the crashes and failed writes
    MaxToken,        \* bound on the number of refresh tokens
    MaxTime          \* bound on the clock

ASSUME AccountFileAssumption ==
    /\ MaxTries \in Nat \ {0} /\ ParentInterval \in Nat
    /\ Cuts \subseteq (1..6) \X BOOLEAN /\ MaxFaults \in Nat
    /\ MaxToken \in Nat \ {0} /\ MaxTime \in Nat \ {0}
    /\ NULL \notin Passwords \cup Keys /\ Passwords \cap Keys = {}
    /\ DefaultKeys \subseteq Keys \cup {NULL}

\* Lifetimes are parsed as unsigned numbers; what else an option names is a
\* password or a key.
ASSUME OptionsAssumption ==
    /\ \A o \in AddOptions : o.pw_lifetime.lifetime \in Nat /\ o.lifetime.lifetime \in Nat
    /\ \A o \in AddOptions \cup GenOptions : {o.pw_cmd, o.pw_file} \subseteq Passwords \cup {NULL}
    /\ \A o \in GenOptions : o.pw_env \in Passwords \cup {NULL} /\ o.pw_gpg \in Keys \cup {NULL}

\* What names the random values of a write of the process i.
Salt(i, text, l) == <<i, text, l>>
Salts == {"p", "g"} \X (1..MaxToken) \X Passwords

\* NULL is none of the values it stands in for.
ASSUME NullAssumption ==
    /\ NULL \notin 0..6 /\ NULL # simpleVersionToVersionLine
    /\ NULL \notin {"encrypt"} \X Passwords \X (Salts \cup {NULL})

VARIABLES
    now,
    file,      \* its lines; NULL when there is none
    token,     \* the refresh token that is valid at the provider
    lock,      \* the password or key the user chose for the file as it is
    entry,     \* the account's entry of the password store
    deadline,  \* of oidcp's wait for clients; 0 is none
    p,         \* oidcp: what it is doing, the file as it read it, the tries made
    g,         \* oidc-gen: likewise, and the text it is to save
    w,         \* their writes to the file
    late,      \* a stored password was used after its lifetime
    given,     \* when the stored password was given to the agent
    faults,    \* crashes and failed writes so far
    stale,     \* a new configuration was not saved
    hurt       \* a write was cut off, or writes overlapped

vars == <<now, file, token, lock, entry, deadline, p, g, w, late, given, faults, stale, hurt>>

Fault == faults < MaxFaults /\ faults' = faults + 1

Idle == [at |-> "idle", read |-> NULL, tries |-> 0]
GenIdle == [at |-> "idle", read |-> NULL, tries |-> 0, text |-> 0, opt |-> NULL]
NoWrite == [lines |-> NULL, done |-> NULL, linked |-> TRUE, chosen |-> NULL]
Hole == Line("hole", NULL, NULL, NULL)

\* The start of one process id's write of text under l.
Locked(by, text, l) ==
    IF l \in Keys THEN encryptPGPWithVersionLine(text, l)
    ELSE encryptWithVersionLine(text, l, Salt(by, text, l))

Sealed == {NULL} \cup {Seal(x) : x \in Passwords \cup Keys}

\* The type invariant; every secret of the password store is sealed.
TypeOK ==
    /\ now \in 0..MaxTime /\ token \in 1..MaxToken /\ lock \in Passwords \cup Keys
    /\ file # NULL => Len(file) <= 7
    /\ entry # NULL => /\ {entry.password, entry.command, entry.filepath, entry.gpg_key} \subseteq Sealed
                       /\ entry.type \subseteq Types /\ entry.expires_at \in Nat
    /\ deadline \in Nat
    /\ p.at \in {"idle", "update", "rewrite", "autoload", "write"} /\ p.tries \in 0..MaxTries
    /\ g.at \in {"idle", "open", "save", "write"} /\ g.tries \in 0..MaxTries /\ g.text \in 0..MaxToken
    /\ \A i \in {"p", "g"} : (w[i].lines # NULL) = ((IF i = "p" THEN p.at ELSE g.at) = "write")
    /\ {late, stale, hurt} \subseteq BOOLEAN /\ given \in 0..now /\ faults \in 0..MaxFaults

\* A file of this version, of one before 2.1.0, or of gpg; no entry.
Init ==
    /\ now = 0 /\ token = 1 /\ lock \in Passwords \cup Keys
    /\ file \in {Locked("g", 1, lock)} \cup
                {crypt_encrypt_hex(1, l, Salt("g", 1, l), v) : l \in {lock} \cap Passwords, v \in Legacy}
    /\ entry = NULL /\ deadline = 0 /\ p = Idle /\ g = GenIdle
    /\ w = [i \in {"p", "g"} |-> NoWrite]
    /\ late = FALSE /\ given = 0 /\ faults = 0
    /\ stale = FALSE /\ hurt = FALSE
-----------------------------------------------------------------------------
(* Files.                                                                  *)

\* C strings end at the first zero byte.
readFile(f) ==
    LET holes == {i \in DOMAIN f : f[i].part = "hole"}
    IN  IF holes = {} THEN f ELSE SubSeq(f, 1, (CHOOSE i \in holes : \A j \in holes : i <= j) - 1)

readOidcFile == IF file = NULL THEN NULL ELSE readFile(file)

decryptFileContent(lines, password) ==
    IF lines = NULL THEN {ENULL} ELSE decryptLinesList(lines, password)

\* What the file as it is gives under a password or key.
Opened(l) ==
    IF l \in Keys THEN IF isPGPMessage(readFile(file)) THEN decryptPGPFileContent(readFile(file)) ELSE {ENULL}
    ELSE decryptFileContent(readFile(file), l)

\* The lines of `new' up to n, over what is there from the line `from' on.
Overlay(new, from, n) ==
    LET len == IF Len(file) > n THEN Len(file) ELSE n
    IN  [i \in 1..len |-> IF from <= i /\ i <= n THEN new[i]
                          ELSE IF i <= Len(file) THEN file[i] ELSE Hole]

\* fopen(path, "w"), or nothing at all: the result of writeFile is not used.
fopen_w(i) ==
    /\ w[i].lines # NULL /\ w[i].done = NULL
    /\ file' = <<>> /\ w' = [w EXCEPT ![i].done = 0]
    /\ lock' = IF w[i].chosen # NULL THEN w[i].chosen ELSE lock
    /\ UNCHANGED <<now, token, entry, deadline, p, g, late, given, faults, stale, hurt>>

\* A first part of the text reaches the file.
fprintf(i, k, cut) ==
    /\ w[i].done = 0 /\ k < Len(w[i].lines)
    /\ file' = IF w[i].linked
               THEN Overlay([w[i].lines EXCEPT ![k].whole = ~cut], 1, k) ELSE file
    /\ w' = [w EXCEPT ![i].done = k]
    /\ UNCHANGED <<now, token, lock, entry, deadline, p, g, late, given, faults, stale, hurt>>

Deadline(e) ==
    LET death == getMinPasswordDeath(e, now) IN
    IF ParentInterval > 0 /\ (death = 0 \/ death > now + ParentInterval)
    THEN now + ParentInterval ELSE death

\* When the password of e was given, if e takes the entry's place now.
\* Passwords without a lifetime need no date.
Given(e) ==
    IF e = entry THEN given ELSE IF e = NULL \/ e.expires_after = 0 THEN 0 ELSE now

\* The end of a handler of oidcp, which leaves the entry e.
Done(e) == p' = Idle /\ entry' = e /\ deadline' = Deadline(e)

EndWrite(i) ==
    /\ w' = [w EXCEPT ![i] = NoWrite]
    /\ IF i = "p" THEN Done(entry) /\ UNCHANGED g
       ELSE g' = GenIdle /\ UNCHANGED <<p, entry, deadline>>
    /\ UNCHANGED <<now, token, lock, late, given>>

\* The rest, and fclose.
fclose(i) ==
    /\ w[i].lines # NULL /\ w[i].done # NULL
    /\ file' = IF w[i].linked
               THEN Overlay(w[i].lines, IF w[i].done = 0 THEN 1 ELSE w[i].done, Len(w[i].lines)) ELSE file
    /\ stale' = (stale /\ i = "g" /\ g.read # NULL)
    /\ EndWrite(i) /\ UNCHANGED <<faults, hurt>>

\* The file cannot be opened, or the disk is full: nobody hears of it.
writeFails(i) ==
    /\ w[i].lines # NULL /\ Fault
    /\ stale' = TRUE /\ hurt' = (hurt \/ w[i].done # NULL)
    /\ EndWrite(i) /\ UNCHANGED file

\* Mutant: the file is written with some password.
encryptAndWriteToOidcFile_other(i, text, l, chosen) ==
    w' = [w EXCEPT ![i] = [lines |-> Locked(i, text, CHOOSE x \in Passwords : TRUE), done |-> NULL,
                           linked |-> TRUE, chosen |-> chosen]]

\* chosen is l when the user chose l for this write.
encryptAndWriteToOidcFile(i, text, l, chosen) ==
    w' = [w EXCEPT ![i] = [lines |-> Locked(i, text, l), done |-> NULL, linked |-> TRUE, chosen |-> chosen]]
-----------------------------------------------------------------------------
(* oidcp.  One request is handled at a time, prompts included.             *)

Waiting == p.at = "idle"
Overlap == hurt' = (hurt \/ g.at # "idle")

\* The death of oidcp takes the password store with it.
Die ==
    /\ p' = Idle /\ entry' = NULL /\ deadline' = 0
    /\ stale' = (stale \/ p.at \in {"update", "rewrite", "write"})
    /\ hurt' = (hurt \/ w["p"].done # NULL)
    /\ w' = [w EXCEPT !["p"] = NoWrite]

AgentDies ==
    /\ Die /\ Fault
    /\ UNCHANGED <<now, file, token, lock, g, late, given>>

\* A request of oidc-add.
AddRequest(o, password) ==
    /\ Waiting /\ file # NULL /\ \E r \in Opened(lock) : r >= 0
    /\ LET e == pw_handleSave(entry, add_passwordEntry(o, password, now), now)
       IN  entry' = e /\ deadline' = Deadline(e)
    /\ given' = Given(entry')
    /\ UNCHANGED <<now, file, token, lock, p, g, w, late, faults, stale, hurt>>

\* A request of oidc-gen.
GenRequest(o) ==
    /\ Waiting
    /\ LET e == pw_handleSave(entry, gen_passwordEntry(o), now)
       IN  entry' = e /\ deadline' = Deadline(e)
    /\ given' = Given(entry')
    /\ UNCHANGED <<now, file, token, lock, p, g, w, late, faults, stale, hurt>>

removePasswordFor ==
    /\ Waiting /\ entry # NULL
    /\ entry' = NULL /\ deadline' = Deadline(NULL)
    /\ UNCHANGED <<now, file, token, lock, p, g, w, late, given, faults, stale, hurt>>

\* The wait times out.
Timeout ==
    /\ Waiting /\ deadline # 0 /\ now >= deadline
    /\ LET e == removeDeathPasswords(entry, now) IN entry' = e /\ deadline' = Deadline(e)
    /\ UNCHANGED <<now, file, token, lock, p, g, w, late, given, faults, stale, hurt>>

\* The provider rotates the refresh token; oidcd has oidcp update the file.
updateRefreshToken ==
    /\ Waiting /\ token < MaxToken
    /\ token' = token + 1
    /\ p' = [at |-> "update", read |-> readOidcFile, tries |-> 0]
    /\ Overlap
    /\ UNCHANGED <<now, file, lock, entry, deadline, g, w, late, given, faults, stale>>

\* A re-authentication gives a new configuration to write.
reauthenticated ==
    /\ Waiting /\ token < MaxToken
    /\ token' = token + 1
    /\ p' = [at |-> "rewrite", read |-> NULL, tries |-> 0]
    /\ Overlap
    /\ UNCHANGED <<now, file, lock, entry, deadline, g, w, late, given, faults, stale>>

\* An update that fails is logged.
Fail(e) == Done(e) /\ stale' = TRUE /\ UNCHANGED <<w, hurt>>

\* The new token is put into what was read, and written under l.
updateRT(l, chosen, e) ==
    /\ encryptAndWriteToOidcFile("p", token, l, chosen)
    /\ p' = [Idle EXCEPT !.at = "write"] /\ entry' = e
    /\ UNCHANGED <<deadline, stale, hurt>>

Again(e) ==
    IF p.tries + 1 < MaxTries
    THEN p' = [p EXCEPT !.tries = @ + 1] /\ entry' = e /\ UNCHANGED <<deadline, w, stale, hurt>>
    ELSE Fail(e)

\* What decrypting gave, with a password the store leaves e behind.
Decrypted(r, l, e) ==
    CASE r = Crash -> Die
      [] r >= 0 -> updateRT(l, NULL, e)
      [] OTHER -> Again(e)

updateRefreshTokenUsingGPG ==
    LET key == IF getGPGKeyFor(entry) # NULL THEN getGPGKeyFor(entry) ELSE extractPGPKeyID(p.read)
    IN  IF key = NULL THEN Fail(entry)
        ELSE \E r \in decryptPGPFileContent(p.read) :
                CASE r = Crash -> Die
                  [] r >= 0 -> updateRT(key, NULL, entry)
                  [] OTHER -> Fail(entry)

\* One round with a password; cancelling the prompt ends it.
TryPassword(lines, answer) ==
    LET res == getPasswordFor(entry, answer, now)
    IN  /\ late' = (late \/ (res.from = "MEM" /\ entry.expires_after # 0 /\ now - given > entry.expires_after))
        /\ given' = Given(res.entry)
        /\ IF res.pw = NULL THEN Fail(res.entry)
           ELSE \E r \in decryptFileContent(lines, res.pw) : Decrypted(r, res.pw, res.entry)

updateRefreshTokenTry(answer) ==
    /\ p.at = "update"
    /\ IF p.read # NULL /\ isPGPMessage(p.read)
       THEN updateRefreshTokenUsingGPG /\ UNCHANGED <<late, given>>
       ELSE TryPassword(p.read, answer)
    /\ UNCHANGED <<now, file, token, lock, g, faults>>

extractPGPKeyIDFromOIDCFile ==
    LET lines == readOidcFile IN
    IF lines # NULL /\ isPGPMessage(lines) THEN extractPGPKeyID(lines) ELSE NULL

\* The file is looked at again for each password, to know that it is right.
\* Without a file the default key is taken, or the user chooses a password.
writeOIDCFile(answer) ==
    /\ p.at = "rewrite"
    /\ LET key == IF getGPGKeyFor(entry) # NULL THEN getGPGKeyFor(entry) ELSE extractPGPKeyIDFromOIDCFile
       IN  CASE key # NULL -> updateRT(key, NULL, entry) /\ UNCHANGED <<late, given>>
             [] key = NULL /\ file = NULL ->
                   /\ \E default_gpg_key \in DefaultKeys :
                        LET l == IF default_gpg_key # NULL THEN default_gpg_key ELSE answer
                        IN  l # NULL /\ updateRT(l, l, entry)
                   /\ UNCHANGED <<late, given>>
             [] OTHER -> TryPassword(readOidcFile, answer)
    /\ UNCHANGED <<now, file, token, lock, g, faults>>

\* A token is asked of an account that is not loaded.
getAutoloadConfig ==
    /\ Waiting /\ file # NULL
    /\ p' = [at |-> "autoload", read |-> readOidcFile, tries |-> 0]
    /\ UNCHANGED <<now, file, token, lock, entry, deadline, g, w, late, given, faults, stale, hurt>>

\* The user is always asked; the issuer's configuration may have the
\* password stored.
autoload(answer, store_pw) ==
    /\ p.at = "autoload"
    /\ \E r \in IF isPGPMessage(p.read) THEN decryptPGPFileContent(p.read)
                ELSE IF answer = NULL THEN {ENULL} ELSE decryptFileContent(p.read, answer) :
          CASE r = Crash -> Die /\ UNCHANGED given
            [] r >= 0 \/ isPGPMessage(p.read) \/ answer = NULL ->
                  /\ IF store_pw /\ r >= 0 /\ ~isPGPMessage(p.read)
                     THEN Done(savePassword(autoload_passwordEntry(answer), now)) /\ given' = 0
                     ELSE Done(entry) /\ UNCHANGED given
                  /\ UNCHANGED <<w, stale, hurt>>
            [] OTHER ->
                  /\ IF p.tries + 1 < MaxTries
                     THEN p' = [p EXCEPT !.tries = @ + 1] /\ UNCHANGED <<entry, deadline>>
                     ELSE Done(entry)
                  /\ UNCHANGED <<w, given, stale, hurt>>
    /\ UNCHANGED <<now, file, token, lock, g, late, faults>>
-----------------------------------------------------------------------------
(* oidc-gen, one at a time.  o are its options.                            *)

Src(o) == [env |-> o.pw_env, cmd |-> o.pw_cmd, file |-> o.pw_file]

GenOverlap == hurt' = (hurt \/ p.at \in {"update", "rewrite", "write"})

\* A generated configuration is to be saved.
gen_saveAccountConfig(o) ==
    /\ g.at = "idle" /\ token < MaxToken
    /\ token' = token + 1
    /\ g' = [GenIdle EXCEPT !.at = "save", !.text = token + 1, !.opt = o]
    /\ GenOverlap
    /\ UNCHANGED <<now, file, lock, entry, deadline, p, w, late, given, faults, stale>>

promptEncryptAndWriteToOidcFile(answer) ==
    /\ g.at = "save"
    /\ LET l == IF g.opt.pw_gpg # NULL THEN g.opt.pw_gpg ELSE getEncryptionPasswordFor(Src(g.opt), answer)
       IN  encryptAndWriteToOidcFile("g", g.text, l, l)
    /\ g' = [g EXCEPT !.at = "write"]
    /\ UNCHANGED <<now, file, token, lock, entry, deadline, p, late, given, faults, stale, hurt>>

\* --update: the file is decrypted and encrypted again.
gen_handleUpdateConfigFile(o) ==
    /\ g.at = "idle" /\ file # NULL
    /\ g' = [GenIdle EXCEPT !.at = "open", !.read = readOidcFile, !.opt = o]
    /\ GenOverlap
    /\ UNCHANGED <<now, file, token, lock, entry, deadline, p, w, late, given, faults, stale>>

\* With neither a password nor --pw-gpg nothing is written.
UpdateConfigFile(text, pw) ==
    LET l == IF g.opt.pw_gpg # NULL THEN g.opt.pw_gpg ELSE pw IN
    IF l = NULL THEN g' = GenIdle /\ UNCHANGED w
    ELSE encryptAndWriteToOidcFile("g", text, l, l) /\ g' = [g EXCEPT !.at = "write"]

getDecryptedTextAndPasswordWithPromptFor(answer) ==
    /\ g.at = "open"
    /\ IF isPGPMessage(g.read)
       THEN \E r \in decryptPGPFileContent(g.read) :
               IF r >= 0 THEN UpdateConfigFile(r, NULL) ELSE g' = GenIdle /\ UNCHANGED w
       ELSE LET res == getDecryptionPasswordFor(Src(g.opt), answer, g.tries, MaxTries) IN
            \E r \in IF res.err THEN {Crash} ELSE decryptFileContent(g.read, res.pw) :
               CASE r = Crash -> g' = GenIdle /\ UNCHANGED w
                 [] r >= 0 -> UpdateConfigFile(r, res.pw)
                 [] OTHER -> g' = [g EXCEPT !.tries = res.try] /\ UNCHANGED w
    /\ UNCHANGED <<now, file, token, lock, entry, deadline, p, late, given, faults, stale, hurt>>

removeOidcFile ==
    /\ g.at = "idle" /\ file # NULL
    /\ file' = NULL
    /\ w' = [i \in {"p", "g"} |-> [w[i] EXCEPT !.linked = w[i].done = NULL]]
    /\ UNCHANGED <<now, token, lock, entry, deadline, p, g, late, given, faults, stale, hurt>>

GenDies ==
    /\ g.at # "idle" /\ g' = GenIdle /\ Fault
    /\ w' = [w EXCEPT !["g"] = NoWrite]
    /\ hurt' = (hurt \/ w["g"].done # NULL) /\ stale' = TRUE
    /\ UNCHANGED <<now, file, token, lock, entry, deadline, p, late, given>>
-----------------------------------------------------------------------------
Tick ==
    /\ now < MaxTime /\ now' = now + 1
    /\ UNCHANGED <<file, token, lock, entry, deadline, p, g, w, late, given, faults, stale, hurt>>

Answers == Passwords \cup {NULL}

Write(i) ==
    \/ fopen_w(i) \/ fclose(i) \/ writeFails(i)
    \/ \E c \in Cuts : fprintf(i, c[1], c[2])

AgentStep ==
    \/ Write("p")
    \/ \E a \in Answers : updateRefreshTokenTry(a) \/ writeOIDCFile(a)
    \/ \E a \in Answers, s \in BOOLEAN : autoload(a, s)

GenStep ==
    \/ Write("g")
    \/ \E a \in Passwords : promptEncryptAndWriteToOidcFile(a)
    \/ \E a \in Answers : getDecryptedTextAndPasswordWithPromptFor(a)

Next ==
    \/ Tick \/ AgentStep \/ GenStep
    \/ AgentDies \/ GenDies
    \/ \E o \in AddOptions : AddRequest(o, IF lock \in Keys THEN NULL ELSE lock)
    \/ \E o \in GenOptions : GenRequest(o) \/ gen_saveAccountConfig(o) \/ gen_handleUpdateConfigFile(o)
    \/ removePasswordFor \/ Timeout \/ updateRefreshToken \/ reauthenticated \/ getAutoloadConfig
    \/ removeOidcFile

Spec == Init /\ [][Next]_vars
-----------------------------------------------------------------------------
(* Properties.                                                             *)

AtRest == p.at \in {"idle", "autoload"} /\ g.at = "idle"

\* Whatever was left of the file by writes that were cut off or overlapped,
\* decrypting it gives a configuration that was saved, or fails.
OnlySavedTexts ==
    file # NULL => \A l \in Passwords \cup Keys : \A r \in Opened(l) : r \in 1..token \cup {ECRYPM, EPASS, EDECRYPT, ENULL, Crash}

\* When all writes came to their end alone, the file opens with the lock the
\* user chose, and holds the refresh token the provider accepts: no update
\* takes another lock, or an older token (updateRefreshToken, _updateRT,
\* writeOIDCFile, oidc-gen --update).
FileKeepsUp == AtRest /\ file # NULL /\ ~stale /\ ~hurt => Opened(lock) = {token}

\* An update that fails -- a wrong or no password, a file that cannot be
\* opened -- leaves a file that still opens, with an earlier token.
FailedUpdateHarmless ==
    AtRest /\ file # NULL /\ ~hurt => \E t \in 1..token : Opened(lock) = {t}

\* A wrong password is told from a damaged file, for files of every version.
WrongPasswordTold ==
    AtRest /\ file # NULL /\ ~hurt /\ lock \in Passwords =>
        \A l \in Passwords \ {lock} : Opened(l) = {EPASS}

\* What decrypting a file answers can be relied on, whoever wrote it and
\* however its last write ended.
DecryptionTells == OnlySavedTexts /\ WrongPasswordTold

\* A password is used from the store only as long after it was given as the
\* user allowed, also when it was given again at a prompt after it expired.
NoExpiredPassword == ~late

=============================================================================
