# oidc-agent in TLA+

oidc-agent keeps OpenID Connect refresh tokens and hands access tokens to the
applications of a user. This directory holds TLA+ models of the agent and its
clients, translated from the C code under `src/src` and `src/lib`, the TLC
configurations that check them on small instances, and machine-checked proofs of
what matters most.

## The system

| Component | State | Operations | Interacts with |
|---|---|---|---|
| **oidcd** (`oidc-agent/oidcd`) | `accountDB`, `codeVerifierDB`, `deviceCodeDB`, `fileDB`: lists of pointers into the heap; the lock; the timer of the main loop | one handler per request: gen, re-authenticate, code exchange, state and device lookup, add, remove, delete, token (by name, by issuer), ID token, mytoken, lock, unlock | reads requests from a pipe, one at a time; inside a handler it writes *internal requests* to the same pipe and takes the next message for the answer |
| **oidcp** (`oidc-agent/oidcp`) | the connections, the stack `encryptionKeys`, the password store | accepts a client, forwards its request, answers internal requests (autoload, confirm, changed refresh token, issuer update, default account), runs autogen and automatic re-authentication | clients over a UNIX socket, oidcd over the pipes, the user through prompts, files |
| **agent lock** (`lock_state.c`, `dbCryptUtils.c`) | `locked`, the hash, the failure counter | lock, unlock | the credentials of all loaded accounts |
| **lifetime** (`deathUtils.c`, `oidcd.c`) | the death of each account | set by add, autoload and re-authentication; the timer removes the dead | handlers take time |
| **password store** (`oidcp/passwords`, `password_entry.c`) | encrypted passwords with an expiry, commands, files, GPG keys | save, get, expire, sweep | autoload, token rotation, prompts |
| **account files** (`cryptFileUtils.c`, `config_updater.c`, `proxy_handler.c`) | one encrypted file per account | read, decrypt, re-encrypt, write in place | oidcp, oidc-gen, GPG, the user's prompts |
| **encryption of files** (`utils/crypt`) | none | encrypt; decrypt files of every version | account files, password store |
| **redirect web server** (`oidc-agent/httpserver`) | one forked process per pending code flow | start, deliver the redirect, terminate | a client of oidcp |
| **oidc-gen** (`oidc-gen`) | none between calls | register, generate, poll, rename, re-authenticate, delete, update | agent, web server, account files, the provider, signals |
| **oidc-add, oidc-token, the C API** | none between calls | sequences of requests | clients of oidcp |
| **issuer configuration** (`issuerConfig.c`) | `issuer.config`, `issuer.config.d`, `/etc`; a cached list in every agent | read and merge, add and delete accounts, suggest issuers | oidcp, the user's editor |
| **program configuration** (`utils/config`) | none | the sections of two files, custom parameters, flows and grant types | all programs |
| **accounts** (`account.c`, `parse_oidp.c`, `openid_config.c`) | the fields of an account | to and from JSON, filled from the provider's document | oidcd, files |
| **path trust check** (`safefile`) | a stack of pending path parts | walk a path, follow links, judge every component | the file system and its other users |
| **lists, JSON, strings** (`lib/list`, `lib/cJSON`, `utils`) | linked nodes | insert, remove, replace; parse, print, merge, split, sort | everything |

Nothing runs concurrently *inside* a process. What is hard:

* **messages out of step**: both directions of the pipe carry requests and
  answers, nothing numbers them, and oidcp runs nested exchanges;
* **ownership**: an account object moves between three lists and is freed by
  hand on some twenty error paths;
* **encryption in place**: a handler decrypts a loaded account where it is and
  must encrypt it again on every way out; the lock adds a second layer;
* **files written in place** by several processes, cut off by crashes, and read
  long before they are written back;
* **time**: deaths and expiries are looked at before a wait, and handlers may
  outlive them;
* **other users** who change a directory between two looks at it;
* **text handled by hand**: JSON, id lists, scopes, urls, durations;
* **failure**: the provider, the user, a file or the other process may fail at
  every step.

## The modules

| Module | Models | Stands on |
|---|---|---|
| `AccountStore` | the heap of accounts, the three lists and all handlers of oidcd that change them | |
| `Reauthentication` | the same with `oidcd_handleReauthenticate` | `AccountStore` |
| `AgentService` | the abstract specification: what a client may expect of the agent | |
| `AgentPipe` | oidcp and oidcd, the pipes, the key stack; shown to implement `AgentService` | `AgentService` |
| `AgentLock` | lock and unlock | |
| `Lifetime` | the clock, the timer and the removal of dead accounts | |
| `Crypt` | encryption and decryption of account files, symbolically | |
| `PasswordEntry` | the entry of an account in the password store, and how the clients make it | `Crypt` |
| `AccountFile` | one account's file, and oidcp and oidc-gen that write it | `PasswordEntry` |
| `GenClient` | processes of oidc-gen with the agent, its web servers and the provider | |
| `IssuerConfig` | the issuer configuration, several agents and the user's editor | `Text` |
| `IdRangeList` | lists of trusted ids and the parser of their text | |
| `SafePath` | the path trust check against other users | `IdRangeList` |
| `OrderedForest` | the abstract specification of the pointer structures | |
| `LinkedList` | `lib/list` and `db.c` | `OrderedForest` |
| `CJsonTree` | the items of `lib/cJSON` and their links | `OrderedForest` |
| `JsonText` | the parser, printer and minifier of `lib/cJSON` | |
| `Json` | `json.c`: lookup, comparison, merge | `JsonText` |
| `ListUtils`, `Text` | `listUtils.c`; strings, durations, urls, ports, issuer urls | `Json` |
| `Configuration` | settings, custom parameters, grant types of a registration | `Text` |
| `AccountData` | what an account holds: saved, loaded, filled by its provider | `Text` |
| `Algorithms` | the calls of these functions and their reference definitions | the five above, `IdRangeList` |
| `MC*` | instances for TLC | |
| `AccountStoreProofs` | proofs: memory safety and ownership | `AccountStore` |
| `AccountResultProofs` | proofs: lookups, results of flows, encryption | `AccountStoreProofs` |
| `AgentPipeProofs` | proofs: the processes in step, keys, the refinement | `AgentPipe` |
| `AgentLockProofs`, `LifetimeProofs`, `GenClientProofs`, `AccountFileProofs` | proofs about these modules | `AgentLock`, `Lifetime`, `GenClient`, `AccountFile` |
| `StructuresProofs` | proofs: the links of both pointer structures, and that both refine `OrderedForest` | `MCStructures` (`LinkedList`, `CJsonTree`) |

### AccountStore and Reauthentication

`heap` maps addresses to account objects, so that a pointer to a freed object is
visible; `accountDB` is the set of loaded accounts and `codeVerifierDB` and
`deviceCodeDB` map a state or a device code to the account of a pending flow. A
handler is one action, because oidcd blocks inside it. Of an account the model keeps
the name (none for `--only-at`), the issuer, how many layers of memory encryption are
over the refresh token (`rt`) and over the client credentials (`cid`), whether it has
an access token, `usedState` and `usedStateChecked`, and the two confirmation flags.
`memoryDecrypt` of something that is not encrypted leaves it as it is, as in the code.
Provider, user and files answer nondeterministically. A list is a set: the code looks
up by name, by state or by issuer, and only the last lookup can have several matches,
any of which the model may take. An object that no list points to and that was never
freed stays allocated; the number of addresses therefore bounds how many leaks a
behaviour has. Random states are drawn without repetition.

`removeDeathAccounts` may remove any accounts at any time, which covers whatever
`Lifetime` allows. In `Reauthentication` a behaviour ends when a list points to a freed
object, because the C program is undefined from there.

### AgentPipe and AgentService

oidcp is a program counter (`p.at`: where it waits), the client it serves (`p.cur`)
and, during a nested wait, the client that brings the redirect (`p.sub`). oidcd is idle
or inside a handler and waiting for an answer. A handler is a *script*: the internal
requests it makes in order and its final response, taken from the handlers' code for
each request and each state of the one account; the scripts of `token` and `issuer`
contain autoload, refresh with or without a changed refresh token, confirmation and
failure. A read returns everything in the pipe, of which only the first object is
parsed, so a read empties the pipe. `SHUTDOWN_IF_D_DIED`, the nested
`_waitForCodeExchangeRequest`, `_pollDeviceCode`, `parseStateLookupRes` and the
recursive `_parseInternalGen` are actions of their own. `setting` holds how the agent
was started and is chosen in `Init`.

`AgentService` says: a client that asked gets one response, it answers that client's
own request, and it is a response. `ImplementsService` instantiates it with the
response given last.

Reduced: one account of one issuer, one pending flow; the requests of oidc-gen itself
are limited to the redirect it brings (`exchange`); ID token and mytoken requests make
the same kinds of internal requests as token requests. A redirect with another state
than the awaited one can only fail, because there is one flow.

### AgentLock

A credential is known by the passwords of the layers around it. `lockEncrypt` and
`lockDecrypt` treat the four credentials of every account in the order of the list and
stop at the first they cannot treat (`Reached`); the earlier ones stay treated. What
stops a lock is an access token or another credential that is absent, what stops an unlock
also an absent client secret, which a lock passes over; accounts have any of these shapes.
`torn` is history: the accounts that a lock or an unlock had begun to treat when it
stopped, of which nothing can be said. The gate in `oidcd_main` lets only unlock pass while
locked, but the timer still removes accounts.

### Lifetime

The main loop scans the deaths, waits until the earliest that is ahead, and only when
the wait times out removes what is dead. Requests occupy the loop while time passes.

### Crypt, PasswordEntry and AccountFile

Cryptography is symbolic: a derived key is its password and salt, a box opens under the
key and nonce it was sealed with. A file is the sequence of its lines (length, nonce,
salt, parameters, cipher text, hash, and the version), and a line may be cut; files of
the versions before the hash and the base64 format, and GPG messages, are among the
contents. Where the build does not define a result, decryption gives the set of the
possible ones.

`AccountFile` has oidcp and oidc-gen as two sequential processes. A write is two steps,
truncating and filling, as in `writeFile`; a crash or a full disk may come in between, and
the writes of both processes may overlap. oidcp reads the file, looks for a password in
the store, by command, in a file or at a prompt with up to `MaxTries` tries, decrypts,
exchanges the token and writes; the steps of a prompt are interleaved with everything
else. A file that is missing is written under the key of the store entry or under
`default_gpg_key`, as in `writeOIDCFile`. `stale`, `hurt`, `late`, `given` and `lock` are history: a configuration that was
not saved, a write that was cut off or overlapped, a stored password used after its
time, when it was given, and what the user chose to lock the file with.

### GenClient

The agent is reduced to what oidc-gen sees of it: loaded tokens, flows (waiting,
exchanged, handed out), the web servers and the agent's list of them. A process is at
the next of its calls; prompts may be cancelled, the provider may refuse, a signal may
come during polling, and a process may be killed. `owner` says under which name a token
was last known; a name is `loose` once a save for it was cancelled or cut off or two
processes worked on it at once.

### IssuerConfig

Files are JSON values, or lines in the old format and after a write that was cut off. An
agent merges all files when it starts (`readIssuerConfigs`), answers from that list, and
rewrites `issuer.config` in two steps. The user may edit the file. Several agents run at
once; `calm` says that none of this happened at the same time, which is when the files
can be expected to agree with the history. `known` and `mine` are that history.

### SafePath and IdRangeList

The walk is one action per system call: `lstat`, `readlink`, `chdir`, `open`, and the
stack of pending parts with its reuse of a part that is used up. Between any two of them
`interfere` lets another user create, rename or unlink what the modes and the sticky bit
permit. Version `cwd` changes directory, version `r` keeps the path as a text and falls back to
a child that runs version `cwd` when it is too long. `Resolve` is the reference: what the
kernel would find. Id lists are arrays of ranges; their text is parsed position by position
with the saturation of `strtoul` and the wrap-around of `id_t`.

### LinkedList, CJsonTree and OrderedForest

Both structures are sets of nodes with the fields of the C structs, and every public
operation that changes them is an action; freed nodes may be allocated again. Any item,
in a container or not, may be duplicated.
`OrderedForest` knows nodes with sequences of children; both refine it (`ListIsSequence`,
`ItemsAreForest`), so after any sequence of calls they hold what the calls say.

### The algorithms

`JsonText`, `Json`, `ListUtils`, `Text`, `Configuration` and `AccountData` define functions
on byte sequences and JSON values, with the C code's order of looking at the input. In
`Algorithms` a state is one call with one input, and each property compares the result
with a reference definition written from what the function is for: parsing undoes printing,
a merge patch is RFC 7396, merging keeps every key and fails just on a conflict, sorting is
stable, a scope is removed as a whole word, durations add up, a redirect gives the parameters
it was built from, an account comes back from its file, a provider's document is only trusted
for its own issuer and a refused one leaves nothing but what is listed. Where the code does
something else on some inputs (a parameter behind an empty one, an empty string that hides a
value, the freed issuer url) the reference says exactly what, so that no input is left out.

## Runs

| Run | Shows |
|---|---|
| `store` | Two names, three objects, an ordinary and an `--only-at` state, one device code, autoload on, ID tokens always allowed. No list points to a freed object; an account has one owner; one account per name and per state (`LookupsUnique`); loaded accounts have exactly one layer of encryption and pending ones none (`EncryptedAtRest`); the result of a code flow is handed over at most once, and until then its account stays loaded with the flow's state, unless a request or its lifetime unloads it or a load under its name replaces it (`ConfigHandedOver`); a pending account is left alone until its flow ends. |
| `pipe` | Two clients under four settings: re-authentication with autogen, re-authentication with `--no-autoload`, neither but `--confirm`, rotating refresh tokens, lifetimes and a client that does not encrypt, and re-authentication with an oidcd that may die anywhere. The exchange implements `AgentService` (after a death a printed null pointer may be the response), the processes stay in step, every response uses its own client's key, oidcp always comes back to its main loop, and once oidcd died the agent stops when the next request comes. |
| `lock` | Two accounts of any shapes, two passwords. Every credential is under one layer of the lock's password while locked and under none otherwise, except in accounts a stopped lock or unlock had treated (`SealedWhenLocked`); all an unlock with the right password can stop at is a public client's missing secret or such an account (`RightPasswordUnlocks`); while locked, a credential changes only by losing that layer to an unlock that stops later (`LockedIsFrozen`). |
| `lifetime` | Two accounts, lifetimes 0, 1 and 3, a clock up to 7: the timer covers every account alive when it was set, nothing is unloaded early, an idle agent unloads what dies next. |
| `account_file` | Two passwords, a GPG key, two tokens, one fault. Whatever a crash or an overlap leaves of the file, decrypting it gives a text that was saved or fails, and a wrong password is told from damage; an undisturbed file holds the token the provider accepts, under the lock the user chose; a failed update leaves a file that opens; no stored password is used after its time. |
| `gen` | Two processes, two names, one command of each kind. The newest token of an account stays in its file, in the agent or with a process; a process that got its result, gave up or was interrupted leaves no web server in the agent's list. |
| `issuer_config` | Two agents, an issuer in two spellings, two accounts, four files to start from. Accounts and suggestions are complete and without repetition; of the files the first wins for each key, of the accounts the oldest is the default; a restart reads what was answered before. |
| `safe_path` | Eighteen file systems, twelve questions, two changes by other users. A trusted path leads to the object the walk ended at and goes through no entry of another user, also after the verdict; the walk ends. |
| `structures` | A list over three nodes, cJSON over five items. Links are consistent in both directions, and both implement `OrderedForest`. |
| `algorithms` | 86,854 calls: id lists (up to four characters), JSON values, texts and escapes at every boundary, pairs of objects, lists, strings, durations, urls, configuration files, accounts and provider documents. |
| `approval` | *Violation.* With `--confirm`, a token request by issuer that loads the account gets its token without the user having been asked (`oidcd_handler.c:583`); `docs/docs/usage/oidc-agent/options.md:67` says that "every usage of every account configuration has to be approved by the user". |
| `reauth_dangling` | *Violation.* A failing re-authentication, or the end of an abandoned one, frees an account that is still loaded. |

**Bounds.** Two names with one issuer make autoload, replacement and the choice among
several accounts happen; three objects allow two loaded accounts and one in a flow, or
a replacement while a flow is pending. Two clients are one that waits and one that
comes in between; oidcp serves no third level. `MaxPolls` = 2 has a poll that is
repeated and one that expires. Two accounts give lock and unlock an earlier credential
of another account to have treated, and every shape is among them; `MaxLayers` bounds how often a failing lock may be
repeated. `MaxTime` = 7 leaves room for two lifetimes one after the other.
In `account_file` two tokens are an old and a new one, `Cuts` has a cut between lines and
one inside the last line, and one fault may hit any write; a second fault only adds to a
file already given up as `hurt`. Passwords are symmetric because no option names one. In
`gen` three process starts give two at once and one afterwards; `MAX_POLL` = 1 has one
poll and giving up. In `issuer_config` the file contents are chosen so that each rule
(old format, flags, strings, default account, client objects, several spellings) meets
each source. In `safe_path` `MAX_SYMLINK_DEPTH` = 3 and `PATH_MAX` = 3 are reached by
links in a circle and by long paths; two changes are an exchange and its undoing. Five
items give cJSON a container in a container with siblings on both sides. `IdMod` = 32
lets ids wrap, `ULongMod` = 128 lets `strtoul` saturate, `CJSON_NESTING_LIMIT` = 3 is reached and passed.

**Fairness.** Both processes keep running: weak fairness of oidcp and of oidcd. The
deadline of a prompt is computed once (`time(NULL) + AGENT_PROMPT_TIMEOUT`) and not
extended by the clients that are turned away meanwhile, so its timeout is taken even
though it is disabled whenever a redirect is being forwarded: strong fairness of
`redirectTimeout`. Clients, provider and user are not fair, except that a prompt is
answered (its answer is part of the action). In `Lifetime` time passes, a wait times
out and a handler comes to an end. In `SafePath` the walk goes on (weak fairness of
`walk`); the other users are not fair. The remaining modules state safety only.

**Deadlock** is not checked in `pipe` (a stopped agent is the end), `safe_path` (a walk ends), `account_file` and
`gen` (their counters are used up).

## Further observations

The properties of the passing runs are checked under the settings named there. They
fail under others, for reasons that lie in the code. The definitions in parentheses
replace a constant in the configuration and show it.

*oidcd, oidcp and the lock*

* `EncryptedAtRest`, if ID tokens have to be confirmed: a declined confirmation leaves the
  account decrypted in the list (`oidcd_handler.c:797`), where `dbCryptUtils.c:114` says
  "after usage the account has to be encrypted again".
* `ImplementsService`, with `--confirm` and re-authentication (`Settings <- Confirming`):
  the repeated request is answered with oidcd's confirmation question (`oidcp.c:515`). With
  autogen and `genRedirect`: oidc-gen gets oidcd's request to update the issuer
  configuration as its answer (`oidcp.c:416`). With rotating tokens and re-authentication: an
  update caused by the repeated request is forwarded to the client (`oidcp.c:515`), and never
  reaches the file.
* `InStep`, with lifetimes and re-authentication (`Settings <- Expiring`): if the account is
  unloaded just before its re-authentication, oidcd's autoload request is not served and the
  processes fall out of step (`oidcp.c:553`). With `--no-autoload` besides, oidcd writes two
  responses (`oidcd_handler.c:684`), the second of which answers a later request.
* With a public client loaded, unlocking with the right password fails on the absent secret
  (`dbCryptUtils.c:79`) and takes a layer off the credentials before it: the agent stays
  locked, they lack the lock's layer, and no later attempt gets past them.
* With an account that was loaded without access token, lock fails half way and leaves the
  credentials of earlier accounts encrypted in an unlocked agent (`dbCryptUtils.c:24`).
* An account that dies while a request is handled is not unloaded until another timer
  fires (`deathUtils.c:25`; `docs/docs/security/autounload.md:6`).
* `OwnKey`, with re-authentication and a plain client: the plain client that is turned
  away takes the key of the client that waits (`serveripc.c:407`), whose response is
  then sent without encryption.
* `ConfigHandedOver`, under `SpecR`: `usedStateChecked` is never reset, so the
  result of a second re-authentication cannot be looked up (`oidcd_handler.c:1076`).
* The results of two `--only-at` flows are accounts without a name, so that the second
  replaces the first before it was looked up; so does any load under the name of a result.
* The delay after wrong passwords reaches 62.5 seconds (`lock_state.c:28`), where
  `agent-locking.md` speaks of 10.
* The account of an `--only-at` flow whose redirect oidc-gen brought stays in the list
  (`oidcd_handler.c:973`); an account whose authorization URI cannot be built, or whose
  addition fails, is not freed (`oidcd_handler.c:79`, `:279`).

*Account files and passwords*

* `encryptAndWriteToFile` hides a failing write and `writeFile` truncates first, so
  `--rename` removes the old file though the new one was never written, as it does with
  `--no-save`.
* `updateRefreshToken` reads the file before it prompts and writes that content back.
* A wrong stored password is tried `MAX_PASS_TRIES` times without a prompt; with `pw_env` a
  wrong one, `pw_cmd` is never tried.
* A password that has expired and is entered again before it was swept keeps its old
  `expires_at`; it is never used, but has to be entered each time.
* A truncated file makes `crypt_decryptFromList` and `decryptPGPFileContent` dereference NULL
  (`Crash` in `OnlySavedTexts`); `versionAtLeast` compares uninitialised values.
* `FileKeepsUp`, with an oidc-gen that is given both `--pw-env` and `--pw-gpg`: the entry of
  the password store then has a key next to a password, `writeOIDCFile` takes that key
  without a look at the file (`config_updater.c:70`), and a file the user has
  protected by password since is encrypted with the key.
* `getGPGKeyFor` needs the memory type although oidc-gen sets only GPG;
  `gen_handleUpdateConfigFile` computes `gpg_key` but passes `arguments->pw_gpg`.
* oidc-add sends the account without its lifetime unless a password is stored
  (`add_handler.c:82`, `docs/docs/usage/oidc-add/options.md:141`).

*oidc-gen*

* Renaming, re-authenticating and manual generation drop `registration_access_token`.
* `gen_handler.c:1033` joins the temporary file's path in another way than it was written,
  so registration data is never merged (`docs/docs/usage/oidc-gen/options.md:90`).
* Deletion revokes the file's token, not a newer one in the agent.
* "Everything setup correctly!" is printed whatever the result of the save.
* An agent error or a signal during `sleep` between polls leaves the web server running
  until its redirect; a server that ended itself on an error redirect stays in the agent's
  list; device polling without `expires_in` has no end.

*Configuration*

* Two agents lose each other's accounts in `issuer.config`; a file cut off by a crash is
  taken for the old format. Rewriting loses `user_client`, `legacy_aud_mode` = false and JSON
  null, and freezes values of `/etc` into the user's file. A deleted account stays
  `default_account`.
* A broken global configuration is ignored if the user has none; a configuration without
  the program's section makes it exit; one that is just `null` counts as none.
* Custom parameters are sent twice when both issuer and account match.
* `getUsableGrantTypes` lists the device grant twice; with `device` before `code` the
  response types have no `code`.
* The provider's device endpoint overwrites one the user gave, also when the document is
  then refused for its missing scopes. A refused `authorization_endpoint` frees strings the
  issuer already holds, the issuer url among them (`parse_oidp.c:91`).

*Functions*

* `cJSON_Parse` ignores text after the value; `cJSON_Minify` does not know an escaped
  backslash before a quote. `mergeJSONObjects` puts the second object's value behind an empty
  string or null of the first as another member with the same key, where it is never read; the
  comment at `json.c:685` says that a key with an "empty value for (at least) one" is no
  conflict and is merged.
* `extractParameterValueFromUri` takes pairs with `strtok`, which skips the separator behind an
  empty value (`uriUtils.c:133`): in `?a=&code=x&state=y` the value of `a` is `code=x` and there
  is no code.
* A number too large for `id_t` but not for `unsigned long` is read as its low bits
  (`safe_id_range_list.c:465`).
* `strelim` leaves every second of adjacent characters, `strelimIfAfter` overruns on the
  empty string, `fillEnvVarsInPath` does not end on `\$`, `readBinaryFILE2` reads before its
  buffer for an empty file. `compIssuerUrls` is not transitive.
* `AlwaysTheSame` fails for version `r` on a relative path with two leading `..`
  (`Questions <- AskedUp`): the text of the path is shortened where the directory above has
  another name.

## Proofs

TLC checks small instances; the theorems hold for every value of the constants that
satisfies the named `ASSUME`s of the modules (sets of any size, any bound on counters and
clocks). Some have a hypothesis more, and each of these excludes a setting in which the
code breaks the property (see *Further observations*); the runs of these properties have it too,
but for the crash in `pipe`.

| Theorem | States | Hypothesis |
|---|---|---|
| `StoreTypes`, `MemorySafety`, `Ownership` | `TypeOK`, `NoDangling`, `SingleOwner` | |
| `UniqueLookups` | `LookupsUnique` | |
| `HandedOverOnce`, `FlowsUndisturbed` | the action properties `ConfigHandedOver` and `PendingUndisturbed` | |
| `Encryption` | `EncryptedAtRest` | `AlwaysAllowId`: a declined ID token leaves its account decrypted |
| `Synchronous`, `Encrypted` | `InStep`, `OwnKey` | `Sober` |
| `Implementation` | the refinement `ImplementsService` | `Sober` |
| `Sealed`, `Unlockable`, `Frozen` | `SealedWhenLocked`, `RightPasswordUnlocks`, the action property `LockedIsFrozen` | |
| `Covered`, `NotEarly` | `TimerCovers`, the action property `NeverUnloadedEarly` | |
| `NoServerLeft`, `NewestKept` | `ServerTold`, `TokenKept` | |
| `Lifetimes`, `SavedTexts` | `NoExpiredPassword`, the first half of `DecryptionTells` | |
| `Decryption`, `KeepsUp`, `FailuresHarmless` | `DecryptionTells`, `FileKeepsUp`, `FailedUpdateHarmless` | `NoStoredKey`: no option set of oidc-gen has both `--pw-env` and `--pw-gpg` |
| `ListsSound`, `StructuresLinked` | the list's part of `Linked`, of `list.c` on its own; `Linked` | |
| `ListImplements`, `ItemsImplement`, `StructuresImplement` | the refinements `ListIsSequence` and `Json!ItemsAreForest`, each of its structure on its own; `StructuresAbstract` | |

`Sober` says of the settings: those with automatic re-authentication or autogen have no
confirmation, lifetimes, rotation, redirects brought by oidc-gen, crashes or plain clients;
all others are free. (The run `pipe` has a crash together with re-authentication, which is thus
checked and not proved.) The observations above show settings outside `Sober` that break each of
these properties.

**Ownership (`AccountStoreProofs`).** `NoDangling` alone is not inductive: an account in two
lists would be freed through one and dangle in the other. With `SingleOwner` and the types it
is; the conjunction is `Own`. The argument goes through the predicate `Quiet(A)`: a step
changes objects only at `A` or in the account list, keeps every loaded account allocated and
adds to the list at most `A`. Each operation on the heap is quiet for the object it works on,
and `QuietOwn` shows that a quiet step keeps `Own` as long as `A` is not pending afterwards
or newly so. Re-authentication breaks exactly this: there `A` is loaded and becomes pending
(run `reauth_dangling`).

**Results of flows (`AccountResultProofs`).** The invariant `Results` adds to the properties
what is known of a state before, during and after its flow (`StatesAccounted`), that a
pending account was never loaded (`PendingUnused`), and that a named account has the issuer
of its file (`IssuersKnown`, without which autoload by issuer could load a second account of
a name). Every handler is first shown to take a step of one of a few shapes (touch, remove,
begin, free, finish, look up), and the invariants are proved once per shape. Encryption
follows from the same shapes. `HandedOverOnce` is about steps: of a result that waits, each
shape either leaves its account loaded with the state of the flow, or is one of the three that
may end this (`HandsOver`, `Unloads`, `Replaces`).

**The pipe (`AgentPipeProofs`).** `PipeInv` describes the conversation: nothing is under way,
or exactly one message is -- a request, an internal request, the answer to it, the response --
and where oidcp waits, what the handler still has to ask, the keys on the stack and the world
agree with it. What a script may contain at each place (`Pends`, `EndsAt`) is the part that
had to be found; in particular, a response that starts a re-authentication means that the
account is loaded or that the handler's last question loads it. The refinement needs the
invariant to know that a response goes to the client whose request is open.

**Lock and lifetime.** `LockInv` adds to the types what each credential of an account that no
stopped lock or unlock has treated looks like (`Held`): under the one layer while the agent is
locked, under none otherwise, and while it is locked no token or client id is absent. A lock that
succeeds had nothing to stop at and so treated every account; one that stops marks all it
treated as torn; an unlock the same. No assumption on the shapes is needed.
`LifeInv` says that only a handler adds an account, one that is not loaded. The least element of a set of deaths is had
from the well-founded order of the naturals.

**oidc-gen (`GenClientProofs`).** `ServerInv` says of every process that, unless it still
waits for an authorization, the agent has no web server for the one it knows, and of every
authorization that was handed out that its server is gone. It takes both: a process may learn
the result that another one's lookup took.

`TokenKept` says where the newest token of an account is, but not who may still overwrite it,
so it is far from inductive. The invariant is `ServerInv`, the types (`TokenTypes`) and
`NamesKept`, which says of every account that is not `loose`: at most one process works on it;
a pending authorization is watched by a process that polls for it, so its result will be
picked up; the token is in the file, or that process is about to save it or to be handed it
(`Keeps`); and what the process knows at each of its calls is right (`ProcKnows`): what it
saves has the newest token, what it renames or deletes is what the file has, an account it
removes has no token. While the result of an authorization waits in the agent, nothing else
has that token (`Spare`), so no removal or revocation for another account can take it away.
A step that leaves an account's tokens, users and flows alone is dealt
with once (`SameTokens`, `SameUsers`, `SameFlows`); what is left are the steps of the one
process that uses the account. TLC checked the three conjuncts as invariants of the run `gen`
before they were proved. The assumption `NoConfig` only says that NULL is no configuration.

**Account files (`AccountFileProofs`).** Two invariants. `BaseInv` holds unconditionally: an
entry with a lifetime dies in time (`Dies`, which survives re-entering a password, sweeping and
refused requests), and all lines in the file, in what the processes read and in their writes
are lines of some write (`Lines`), so that no mixture of them decrypts to a text there never
was. `PeaceInv` is about the account as long as no write was cut off or overlapped (`Calm`):
the file is whole (`Rested`), or it is the first lines of the one write under way (`Begun`),
whose lines are a whole file for the lock the user will have (`Carried`). `WholeFile` says what
a whole file of each format gives under the right and under a wrong password; `FoundFits`
that oidcp only writes under what opened the file. TLC checked both invariants on more
than three million states, with more options than the run has, before they were proved.

**The pointer structures (`StructuresProofs`).** The walk along the links is a recursive
function, counted down from the number of nodes; that it exists, and that it returns the
sequence a chain of links stands for (`WalkSees`), is shown by taking a least counterexample
in the well-founded order of the naturals, as induction is not available. `ListInv` says that
the fields link one sequence of allocated nodes forwards and backwards. Taking a node out of
such a sequence and putting one in are treated once (`TakenOut`, `PutIn`), and cJSON's rings,
whose first child points back to the last, are reduced to them. `ItemInv` says that there is
a forest `K` which the links show: each item's children are one ring, no item is in two, what
is in none leads nowhere, and the items have ranks that fall from parent to child. The ranks
are what makes detaching, deleting and replacing safe (an item is not below itself, so the
tree that is freed does not contain its container), and `MayAdd` keeps them (`StillRanked`).
The chains of assignments in `cJSON_DetachItemViaPointer`, `cJSON_InsertItemInArray` and
`cJSON_ReplaceItemViaPointer` are followed one by one in the order of the code; `cJSON_Delete`
frees the least set that is closed under next and child (`DeletedAre`), and a copy is shown to
be a second forest beside the first (`TwoShapes`), wherever in the first the copied item is. The refinement maps the children of an item
to the walk from its `child` field. Assumed is only that there are finitely many nodes and
that NULL is none of them.

**Only model-checked.** Liveness (`AlwaysComesBack`, `StopsAfterDeath`, `UnloadedWhenIdle`,
`WalkEnds`): fairness and ENABLED are outside what TLAPS proves. The properties of
`Algorithms`, `IssuerConfig` and `SafePath`: they are about recursive definitions on
sequences (folds over files and members, the kernel's resolution of a path, parsers), and what
those compute for every input would need induction over data. `SafePath` would besides need
assumptions about the file systems to start from that the run's instances satisfy.

## Not modelled

HTTP and curl, the requests of the provider protocol (their outcomes are inputs), the mytoken
profile dialogue, prompts and consent pages as such, libsodium and the encodings, memory
management and logging, process start-up, daemonizing and option parsing (the options that
matter are constants), the file store of oidcd, the C API and its remote agent, Windows and
macOS variants, `strptime.c` and the generated web view. Inside the modelled parts: partial
reads and writes of the sockets, memory exhaustion, floating-point JSON numbers, the contents
of tokens. `handleCodeExchange` with a given short name and the mytoken branch of
`manual_genNewAccount` are left out of `GenClient`.

## What is open

The plan was: the account store and the pipe first, because memory safety and the pairing of
requests and answers carry everything else; then the lock, lifetimes and files; then oidc-gen,
the issuer configuration, the path check, the structures and functions; proofs in the same
order. All of it is done except these:

1. In the model: the file store of oidcd, the C API with its local and remote agent, the
   mytoken flows.
2. In the proofs: `AccountsReported`, `PrecedenceKept` and `RestartReadsTheSame` of
   `IssuerConfig`, `AlwaysTheSame` and `NotMadeByOthers` of `SafePath`, and the reference
   definitions of `Algorithms`, all for the reason given above.
