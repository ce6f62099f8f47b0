----------------------------- MODULE GenClient -----------------------------
(***************************************************************************)
(* oidc-gen: several of its processes, the account files they read and     *)
(* write, and what they see of oidc-agent (AccountStore has the agent in   *)
(* detail), of its redirect web servers and of the provider.  Client       *)
(* registrations, authorizations and refresh tokens are numbered in the    *)
(* order in which they come about; 0 is none.                              *)
(***************************************************************************)
EXTENDS Naturals, Sequences, FiniteSets

CONSTANTS
    NULL,
    Procs,
    Names,       \* short names of accounts
    Options,     \* command lines: see Opt in the MC module
    MAX_POLL,
    MaxAuth,     \* bound on authorizations, and on tokens
    MaxClient,   \* bound on registered clients
    MaxRuns      \* bound on the processes that are started

ASSUME GenClientAssumption ==
    MAX_POLL \in Nat \ {0} /\ MaxAuth \in Nat \ {0} /\ MaxClient \in Nat /\ MaxRuns \in Nat /\ NULL \notin Names

VARIABLES
    file,     \* the account files: refresh token, client and whether it can be deleted
    tmp,      \* client configurations in the agent's file store
    loaded,   \* refresh tokens of the accounts loaded in the agent
    flow,     \* authorizations: waiting for the user, exchanged, or config handed out
    server,   \* their web servers
    servers,  \* those in the agent's list
    valid,    \* refresh tokens the provider accepts
    count,    \* authorizations, tokens, clients and processes so far
    owner,    \* the name a token was last known under
    gen,      \* the processes
    loose     \* names with a save that was cancelled or cut off, or run twice at once

vars == <<file, tmp, loaded, flow, server, servers, valid, count, owner, gen, loose>>
agent == <<tmp, loaded, flow, server, servers>>

Auths == 1..MaxAuth
Config == [rt : 0..MaxAuth, client : 0..MaxClient, reg : BOOLEAN]
ASSUME NoConfig == NULL \notin Config
Conf(rt, client, reg) == [rt |-> rt, client |-> client, reg |-> reg]

\* The temporary client configuration is written and read at the prefix
\* followed by the name ...
tmpFile(name) == <<"strcat", name>>
\* ... but looked for, when the account is saved, with a slash between them.
tmpFileToMerge(name) == <<"pathcat", name>>
Paths == {"strcat", "pathcat"} \X Names

Idle == [pc |-> "idle", name |-> NULL, opt |-> NULL, conf |-> NULL, state |-> 0, polls |-> 0,
         noMerge |-> FALSE, new |-> NULL, revoke |-> TRUE, polled |-> 0]

Waits == {"poll", "lookup"}
Working(i) == gen[i].pc # "idle"

\* Types; a server that runs is in the agent's list, a process that polls
\* does so for an authorization of its own.
TypeOK ==
    /\ file \in [Names -> Config \cup {NULL}] /\ tmp \in [Paths -> 0..MaxClient]
    /\ loaded \in [Names -> 0..MaxAuth]
    /\ server \in [Auths -> {"none", "up", "freed", "gone"}]
    /\ \A n \in Auths : server[n] \in {"up", "freed"} => n \in servers
    /\ \A i \in Procs : gen[i].pc = "poll" => flow[gen[i].state].at # "none" /\ flow[gen[i].state].name = gen[i].name
    /\ \A i \in Procs : gen[i].polls \in 0..MAX_POLL /\ gen[i].pc = "save" => gen[i].conf \in Config
    /\ valid \subseteq 1..count.token /\ loose \subseteq Names

\* There may be an account that an earlier release left, with its client.
Init ==
    /\ \E n \in Names, c \in {NULL, Conf(1, 0, TRUE)} : file = [m \in Names |-> IF m = n THEN c ELSE NULL]
    /\ tmp = [p \in Paths |-> 0] /\ loaded = [m \in Names |-> 0]
    /\ flow = [n \in Auths |-> [at |-> "none", name |-> NULL, client |-> 0]]
    /\ server = [n \in Auths |-> "none"] /\ servers = {}
    /\ valid = (IF \E m \in Names : file[m] # NULL THEN {1} ELSE {}) /\ count = [auth |-> 0, token |-> 1, client |-> 0, run |-> 0]
    /\ \E m \in Names : (\A x \in Names \ {m} : file[x] = NULL) /\ owner = [t \in Auths |-> IF file[m] = NULL THEN NULL ELSE m]
    /\ gen = [i \in Procs |-> Idle] /\ loose = {}
-----------------------------------------------------------------------------
(* The agent and its web servers.                                          *)

fireHttpServer(n) == server' = [server EXCEPT ![n] = "up"] /\ servers' = servers \cup {n}

termHttpServer(n) ==
    /\ servers' = servers \ {n}
    /\ server' = [server EXCEPT ![n] = IF n \in servers THEN "gone" ELSE @]

\* A new refresh token for name is loaded, on account of a new process or not.
Issue(name, runs) ==
    /\ count.token < MaxAuth
    /\ count' = [count EXCEPT !.token = @ + 1, !.run = @ + runs]
    /\ valid' = valid \cup {count.token + 1}
    /\ loaded' = [loaded EXCEPT ![name] = count.token + 1]
    /\ owner' = [owner EXCEPT ![count.token + 1] = name]

\* The browser comes back with a code.  Afterwards the server has freed
\* what it needs for another request.
handleRequest(n) ==
    /\ server[n] = "up" /\ server' = [server EXCEPT ![n] = "freed"]
    /\ \/ /\ flow[n].at = "waiting" /\ Issue(flow[n].name, 0)
          /\ flow' = [flow EXCEPT ![n].at = "exchanged"]
       \/ UNCHANGED <<flow, loaded, valid, count, owner>>
    /\ UNCHANGED <<file, tmp, servers, gen, loose>>

\* A second request reads what was freed: the agent knows the state no more,
\* or the server dies.
handleRequestAgain(n) ==
    /\ server[n] = "freed" /\ server' = [server EXCEPT ![n] = "gone"]
    /\ UNCHANGED <<file, tmp, loaded, flow, servers, valid, count, owner, gen, loose>>

\* The provider reports an error: the server ends; the agent is not told.
makeResponseError(n) ==
    /\ server[n] \in {"up", "freed"} /\ server' = [server EXCEPT ![n] = "gone"]
    /\ UNCHANGED <<file, tmp, loaded, flow, servers, valid, count, owner, gen, loose>>

\* oidc-add --remove, possibly of an account that was never saved.
oidcd_handleRm(name) ==
    /\ loaded[name] # 0 /\ loaded' = [loaded EXCEPT ![name] = 0]
    /\ loose' = IF \E m \in Names : file[m] # NULL /\ file[m].rt = loaded[name] THEN loose
                ELSE loose \cup {name, owner[loaded[name]]}
    /\ UNCHANGED <<file, tmp, flow, server, servers, valid, count, owner, gen>>
-----------------------------------------------------------------------------
(* Steps of process i.                                                     *)

Set(i, g) == gen' = [gen EXCEPT ![i] = g]
\* The ends that leave no web server behind.  An exit on an error of the agent
\* (gen_handler.c:386-392, parse_ipc.c:33-47) stops none, nor does a kill.
Orderly == {"done", "found but done", "gave up", "interrupted"}
End(i, how) == Set(i, [Idle EXCEPT !.polled = IF how \in Orderly THEN gen[i].state ELSE 0])
Loosen(name) == loose' = loose \cup {name}

\* A second process for a name at the same time.
Clash(i, name) ==
    loose' = loose \cup {m \in {name} : \E j \in Procs \ {i} : Working(j) /\ m \in {gen[j].name, gen[j].new}}

Begin(i, name, o, pc, conf) ==
    /\ Set(i, [Idle EXCEPT !.pc = pc, !.name = name, !.opt = o, !.conf = conf])
    /\ Clash(i, name)

Quiet == UNCHANGED <<file, valid, owner>> /\ UNCHANGED agent

Free(i, o, cmd) == ~Working(i) /\ o.cmd = cmd /\ count.run < MaxRuns
Counted == count' = [count EXCEPT !.run = @ + 1]

\* The name must be new; the configuration of a client that was registered
\* before may be used.
registerClient(i, name, o) ==
    /\ Free(i, o, "register") /\ file[name] = NULL
    /\ \/ /\ tmp[tmpFile(name)] # 0 /\ ~o.pub
          /\ Begin(i, name, o, "gen", Conf(0, tmp[tmpFile(name)], FALSE))
       \/ /\ tmp[tmpFile(name)] # 0 /\ ~o.pub
          /\ Set(i, [Idle EXCEPT !.pc = "register", !.name = name, !.opt = o, !.noMerge = TRUE])
          /\ Clash(i, name)
       \/ /\ tmp[tmpFile(name)] = 0 \/ o.pub
          /\ Begin(i, name, o, IF o.pub THEN "public" ELSE "register", NULL)
    /\ Quiet /\ Counted

\* The answer to REQUEST_REGISTER.  With scopes missing the client is given
\* up; with an error the client is kept for another try, and a public client
\* is used.
handleRegister(i) ==
    /\ gen[i].pc = "register"
    /\ \/ /\ loaded[gen[i].name] = 0
          /\ count.client < MaxClient /\ count' = [count EXCEPT !.client = @ + 1]
          /\ \/ /\ tmp' = [tmp EXCEPT ![tmpFile(gen[i].name)] = count.client + 1]
                /\ Set(i, [gen[i] EXCEPT !.pc = "gen", !.noMerge = FALSE, !.conf = Conf(0, count.client + 1, FALSE)])
             \/ UNCHANGED tmp /\ End(i, "scopes missing")
             \/ /\ tmp' = [tmp EXCEPT ![tmpFile(gen[i].name)] = count.client + 1]
                /\ Set(i, [gen[i] EXCEPT !.pc = "public"])
       \/ /\ UNCHANGED <<tmp, count>>
          /\ \/ loaded[gen[i].name] # 0 /\ End(i, "already loaded")
             \/ loaded[gen[i].name] = 0 /\ Set(i, [gen[i] EXCEPT !.pc = "public"])
             \/ Set(i, [gen[i] EXCEPT !.pc = "gen", !.conf = Conf(0, 0, FALSE)])  \* the user's own client
    /\ UNCHANGED <<file, loaded, flow, server, servers, valid, owner, loose>>

gen_handlePublicClient(i) ==
    /\ gen[i].pc = "public"
    /\ \/ Set(i, [gen[i] EXCEPT !.pc = "gen", !.noMerge = TRUE, !.conf = Conf(0, 0, FALSE)])
       \/ End(i, "no public client")
    /\ Quiet /\ UNCHANGED <<count, loose>>

\* -m: an account that exists is taken up, else a temporary client.
manual_genNewAccount(i, name, o) ==
    /\ Free(i, o, "manual")
    /\ \/ file[name] # NULL /\ Begin(i, name, o, "gen", [file[name] EXCEPT !.reg = FALSE])
       \/ /\ file[name] = NULL /\ tmp[tmpFile(name)] # 0
          /\ Begin(i, name, o, "gen", Conf(0, tmp[tmpFile(name)], FALSE))
       \/ /\ file[name] = NULL /\ Clash(i, name)
          /\ Set(i, [Idle EXCEPT !.pc = "gen", !.name = name, !.opt = o, !.conf = Conf(0, 0, FALSE),
                                 !.noMerge = (tmp[tmpFile(name)] # 0)])
    /\ Quiet /\ Counted

reauthenticate(i, name, o) ==
    /\ Free(i, o, "reauthenticate") /\ file[name] # NULL
    /\ Begin(i, name, o, "gen", [file[name] EXCEPT !.reg = FALSE])
    /\ Quiet /\ Counted

\* Which flows the agent is to try, if the user does not say.
Flows(o, conf) ==
    IF o.flows # <<>> THEN o.flows
    ELSE LET some == (IF o.uris THEN <<"code">> ELSE <<>>) \o (IF conf.rt # 0 THEN <<"refresh">> ELSE <<>>)
         IN  IF some = <<>> \/ o.creds THEN Append(some, "password") ELSE some

HasFlow(i, f) == \E k \in DOMAIN Flows(gen[i].opt, gen[i].conf) : Flows(gen[i].opt, gen[i].conf)[k] = f

\* REQUEST_GEN.  A configuration, or a code to wait for; with no web server
\* or a custom scheme the process ends here.
gen_response(i) ==
    /\ gen[i].pc = "gen"
    /\ \/ /\ HasFlow(i, "refresh") \/ HasFlow(i, "password") \/ HasFlow(i, "device")
          /\ Issue(gen[i].name, 0)
          /\ Set(i, [gen[i] EXCEPT !.pc = "save", !.conf.rt = count.token + 1])
          /\ UNCHANGED <<flow, server, servers>>
       \/ /\ HasFlow(i, "code") /\ count.auth < MaxAuth
          /\ LET n == count.auth + 1 IN
             /\ count' = [count EXCEPT !.auth = n]
             /\ flow' = [flow EXCEPT ![n] = [at |-> "waiting", name |-> gen[i].name, client |-> gen[i].conf.client]]
             /\ IF gen[i].opt.noWebserver
                THEN UNCHANGED <<server, servers>> /\ End(i, "no state lookup")
                ELSE /\ fireHttpServer(n)
                     /\ Set(i, [gen[i] EXCEPT !.pc = "sleep", !.state = n])
          /\ UNCHANGED <<loaded, valid, owner>>
       \/ End(i, "error") /\ UNCHANGED <<loaded, flow, server, servers, valid, count, owner>>
    /\ UNCHANGED <<file, tmp, loose>>

registerSignalHandler(i) ==
    /\ gen[i].pc = "sleep" /\ Set(i, [gen[i] EXCEPT !.pc = "poll"])
    /\ Quiet /\ UNCHANGED <<count, loose>>

\* Mutant: a process that gives up leaves the web server alone.
giveUp_quietly(i) == End(i, "gave up") /\ UNCHANGED <<server, servers>>

giveUp(i) == End(i, "gave up") /\ termHttpServer(gen[i].state)

\* REQUEST_STATELOOKUP: MAX_POLL times and, after the user pressed Enter,
\* once more; --state asks once.
singleStateLookUp(i) ==
    LET n == gen[i].state IN
    /\ gen[i].pc \in Waits
    /\ \/ /\ flow[n].at = "exchanged"
          /\ flow' = [flow EXCEPT ![n].at = "taken"] /\ termHttpServer(n)
          /\ Set(i, [gen[i] EXCEPT !.pc = "save", !.name = flow[n].name,
                                   !.conf = Conf(loaded[flow[n].name], flow[n].client, FALSE)])
          /\ loose' = IF loaded[flow[n].name] = 0 THEN loose \cup {flow[n].name} ELSE loose
       \/ /\ flow[n].at = "taken" /\ End(i, "found but done") /\ UNCHANGED <<flow, server, servers, loose>>
       \/ /\ flow[n].at = "waiting" /\ gen[i].pc = "poll" /\ gen[i].polls < MAX_POLL
          /\ Set(i, [gen[i] EXCEPT !.polls = @ + 1]) /\ UNCHANGED <<flow, server, servers, loose>>
       \/ /\ flow[n].at = "waiting" /\ gen[i].pc = "poll" /\ gen[i].polls = MAX_POLL
          /\ giveUp(i) /\ UNCHANGED <<flow, loose>>
       \/ /\ flow[n].at = "waiting" /\ gen[i].pc = "lookup" /\ End(i, "error")
          /\ UNCHANGED <<flow, server, servers, loose>>
    /\ UNCHANGED <<file, tmp, loaded, valid, count, owner>>

\* The agent answers with an error, for instance because it is locked.
lookUpFails(i) ==
    /\ gen[i].pc \in Waits /\ End(i, "error")
    /\ Loosen(flow[gen[i].state].name) /\ Quiet /\ UNCHANGED count

\* SIGINT: only a process that polls has a handler.
gen_http_signal_handler(i) ==
    /\ gen[i].pc = "poll" /\ End(i, "interrupted") /\ termHttpServer(gen[i].state)
    /\ Loosen(gen[i].name)
    /\ UNCHANGED <<file, tmp, loaded, flow, valid, count, owner>>

Killed(i) ==
    /\ Working(i) /\ gen[i].pc # "poll" /\ End(i, "killed")
    /\ loose' = loose \cup ({gen[i].name, gen[i].new} \ {NULL}) /\ Quiet /\ UNCHANGED count

stateLookUpWithConfigSave(i, n, o) ==
    /\ Free(i, o, "state") /\ flow[n].at # "none"
    /\ Set(i, [Idle EXCEPT !.pc = "lookup", !.name = flow[n].name, !.opt = o, !.state = n])
    /\ Clash(i, flow[n].name) /\ Quiet /\ Counted

\* The redirect is given to oidc-gen by hand or by the custom scheme.
handleCodeExchange(i, n, o) ==
    /\ Free(i, o, "codeExchange") /\ flow[n].at = "waiting"
    /\ Issue(flow[n].name, 1) /\ flow' = [flow EXCEPT ![n].at = "taken"] /\ termHttpServer(n)
    /\ Begin(i, flow[n].name, o, "save", Conf(count.token + 1, flow[n].client, FALSE))
    /\ UNCHANGED <<file, tmp>>

Target(i) == IF gen[i].new # NULL THEN gen[i].new ELSE gen[i].name

\* The account is merged with a client configuration, if one is found.
Merged(i) ==
    LET g == gen[i]
        found == tmp[tmpFileToMerge(Target(i))]
    IN  IF g.noMerge \/ found = 0 THEN g.conf ELSE [g.conf EXCEPT !.reg = TRUE]

\* Only a renaming looks at the result.
AfterSave(i, saved) ==
    IF gen[i].new # NULL /\ saved THEN Set(i, [gen[i] EXCEPT !.pc = "remove"]) ELSE End(i, "done")

\* Saved; not saved, by wish or because the user cancelled; or not written,
\* which nobody hears of.
gen_saveAccountConfig(i) ==
    /\ gen[i].pc = "save"
    /\ \/ /\ ~gen[i].opt.noSave
          /\ file' = [file EXCEPT ![Target(i)] = Merged(i)]
          /\ tmp' = IF Merged(i).reg /\ ~gen[i].conf.reg THEN [tmp EXCEPT ![tmpFileToMerge(Target(i))] = 0] ELSE tmp
          /\ owner' = [t \in Auths |-> IF gen[i].new # NULL /\ owner[t] = gen[i].name THEN gen[i].new ELSE owner[t]]
          /\ loose' = IF gen[i].new # NULL /\ gen[i].name \in loose THEN loose \cup {gen[i].new} ELSE loose
          /\ AfterSave(i, TRUE)
       \/ /\ ~gen[i].opt.noSave /\ AfterSave(i, FALSE)
          /\ IF gen[i].new = NULL THEN Loosen(gen[i].name) ELSE UNCHANGED loose
          /\ UNCHANGED <<file, tmp, owner>>
       \/ AfterSave(i, TRUE) /\ Loosen(gen[i].name) /\ UNCHANGED <<file, tmp, owner>>
    /\ UNCHANGED <<loaded, flow, server, servers, valid, count>>

gen_handleRename(i, name, new, o) ==
    /\ Free(i, o, "rename") /\ file[name] # NULL /\ file[new] = NULL
    /\ Set(i, [Idle EXCEPT !.pc = "save", !.name = name, !.new = new, !.opt = o,
                           !.conf = [file[name] EXCEPT !.reg = FALSE]])
    /\ loose' = loose \cup {m \in {name, new} : \E j \in Procs \ {i} : Working(j) /\ m \in {gen[j].name, gen[j].new}}
    /\ Quiet /\ Counted

removeOldFile(i) ==
    /\ gen[i].pc = "remove" /\ file' = [file EXCEPT ![gen[i].name] = NULL]
    /\ End(i, "done") /\ UNCHANGED <<valid, count, owner, loose>> /\ UNCHANGED agent

handleDelete(i, name, o) ==
    /\ Free(i, o, "delete") /\ file[name] # NULL
    /\ Begin(i, name, o, IF file[name].reg THEN "askClient" ELSE "delete", file[name])
    /\ Quiet /\ Counted

\* A client that is deleted takes its tokens with it, and nothing is revoked.
deleteClient(i) ==
    /\ gen[i].pc = "askClient"
    /\ \/ /\ valid' = valid \ {gen[i].conf.rt}
          /\ Set(i, [gen[i] EXCEPT !.pc = "delete", !.revoke = FALSE])
       \/ Set(i, [gen[i] EXCEPT !.pc = "delete"]) /\ UNCHANGED valid
       \/ End(i, "error") /\ UNCHANGED valid
    /\ UNCHANGED <<file, count, owner, loose>> /\ UNCHANGED agent

removeFile(i) ==
    /\ file' = [file EXCEPT ![gen[i].name] = NULL]
    /\ loaded' = [loaded EXCEPT ![gen[i].name] = 0]
    /\ End(i, "done")

\* Mutant: an account whose token cannot be revoked is deleted all the same.
deleteAccount_unrevoked(i) ==
    /\ gen[i].pc = "delete" /\ removeFile(i) /\ UNCHANGED <<valid, loose>>
    /\ UNCHANGED <<tmp, flow, server, servers, count, owner>>

\* REQUEST_DELETE revokes the token of the file; REQUEST_REMOVE, which finds
\* the account loaded or not.  After a failed revocation the user may insist,
\* and is shown the token.
deleteAccount(i) ==
    /\ gen[i].pc = "delete"
    /\ \/ /\ gen[i].revoke /\ valid' = valid \ {gen[i].conf.rt}
          /\ removeFile(i) /\ UNCHANGED loose
       \/ ~gen[i].revoke /\ removeFile(i) /\ UNCHANGED <<valid, loose>>
       \/ /\ gen[i].revoke /\ Loosen(gen[i].name)
          /\ Set(i, [gen[i] EXCEPT !.pc = IF gen[i].conf.reg THEN "askClient" ELSE "delete", !.revoke = FALSE])
          /\ UNCHANGED <<file, loaded, valid>>
       \/ End(i, "error") /\ UNCHANGED <<file, loaded, valid, loose>>
    /\ UNCHANGED <<tmp, flow, server, servers, count, owner>>
-----------------------------------------------------------------------------
Start(i) ==
    \E o \in Options :
       \/ \E m \in Names :
             \/ registerClient(i, m, o) \/ manual_genNewAccount(i, m, o) \/ reauthenticate(i, m, o)
             \/ handleDelete(i, m, o)
             \/ \E new \in Names : gen_handleRename(i, m, new, o)
       \/ \E n \in Auths : stateLookUpWithConfigSave(i, n, o) \/ handleCodeExchange(i, n, o)

Step(i) ==
    \/ handleRegister(i) \/ gen_handlePublicClient(i) \/ gen_response(i) \/ registerSignalHandler(i)
    \/ singleStateLookUp(i) \/ gen_saveAccountConfig(i) \/ removeOldFile(i) \/ deleteClient(i)
    \/ deleteAccount(i)

Next ==
    \/ \E i \in Procs : Start(i) \/ Step(i) \/ lookUpFails(i) \/ gen_http_signal_handler(i) \/ Killed(i)
    \/ \E n \in Auths : handleRequest(n) \/ handleRequestAgain(n) \/ makeResponseError(n)
    \/ \E m \in Names : oidcd_handleRm(m)

Spec == Init /\ [][Next]_vars
-----------------------------------------------------------------------------
(* Properties.                                                             *)

Held == {loaded[m] : m \in Names} \cup {file[m].rt : m \in {x \in Names : file[x] # NULL}}
        \cup {gen[i].conf.rt : i \in {j \in Procs : gen[j].conf # NULL}}

\* The newest token of an account is never forgotten: as long as the provider
\* accepts it, it is in the account's file, in the agent, or with a process
\* about to save it -- through registration, renaming and deletion, whatever
\* fails at the provider -- unless a save was cancelled or cut off.
TokenKept ==
    \A m \in Names \ loose :
       LET mine == {t \in 1..count.token : owner[t] = m}
           newest == CHOOSE t \in mine : \A u \in mine : u <= t
       IN  mine # {} /\ newest \in valid => newest \in Held

\* A process that got its configuration, was told that it is done, gave up or was
\* interrupted while it polled leaves no web server behind that the agent would
\* keep.  Of a process that exits on an agent's error, or is killed, nothing is
\* said: it stops no server.
ServerTold ==
    \A i \in Procs : gen[i].polled \notin servers
=============================================================================
