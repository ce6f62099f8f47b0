------------------------------ MODULE AgentPipe ------------------------------
(***************************************************************************)
(* The two processes of the agent and the pipes between them.  oidcp       *)
(* accepts clients one at a time and forwards their requests to oidcd;     *)
(* oidcd answers, but may first send internal requests of its own over the *)
(* same pipe and then takes the next message it reads for the answer.      *)
(* Automatic re-authentication and autogen run further exchanges with      *)
(* oidcd, and accept other clients, while the first client waits.          *)
(*                                                                         *)
(* The data is reduced to one account configuration of one issuer.         *)
(***************************************************************************)
EXTENDS Naturals, Sequences, SequencesExt

CONSTANTS
    NULL,
    Clients,
    Settings,  \* the ways the agent may be started and used
    MaxPolls   \* bound on the polls of a device flow before it expires

Setting ==
    [autoReauth  : BOOLEAN,  \* not --no-autoreauthenticate
     autogen     : BOOLEAN,  \* autogen in the agent's configuration file
     noAutoload  : BOOLEAN,  \* --no-autoload
     confirm     : BOOLEAN,  \* --confirm
     expiry      : BOOLEAN,  \* --lifetime: an idle oidcd may unload the account
     rotation    : BOOLEAN,  \* the provider issues a new refresh token on refresh
     genRedirect : BOOLEAN,  \* a redirect may be brought by an oidc-gen
     crash       : BOOLEAN,  \* oidcd may die
     plain       : SUBSET Clients]  \* the clients that do not encrypt

ASSUME PipeAssumption ==
    /\ Settings \subseteq Setting
    /\ MaxPolls \in Nat \ {0}
    /\ NULL \notin Clients

VARIABLES
    client,   \* what a client is waiting for, or "idle"
    p,        \* oidcp: where it is, whom it serves, whom it serves meanwhile
    keys,     \* encryptionKeys of oidcp
    d,        \* oidcd: idle, or inside a handler waiting for an answer
    toD, toP, \* the pipes
    world,    \* the account, as oidcd, the provider and the disk have it
    got,      \* the last response given to a client
    setting   \* how the agent was started

vars == <<client, p, keys, d, toD, toP, world, got, setting>>

ClientOps == {"token", "issuer", "add", "status", "exchange"}
ProxyOps  == {"reauthenticate", "gen", "statelookup", "devicelookup"}
Internal  == {"upd_refresh", "upd_issuer", "autoload", "confirm", "query", "autogen"}
Finals    == {"ok", "err", "reauth", "url", "device", "config", "pending"}
Answers   == {"yes", "no"}

Msg == [op : ClientOps \cup ProxyOps \cup Internal \cup Finals \cup Answers, id : Clients]

\* The points at which oidcp waits; "exited" is the end of the process.
Places == {"accept", "comm", "gen", "wait", "exchange", "lookup", "poll", "final", "exited"}

IdleP == [at |-> "accept", cur |-> NULL, sub |-> NULL, polls |-> 0, err |-> "err"]
IdleD == [at |-> "idle", id |-> NULL, on |-> "none", rest |-> <<>>, final |-> <<"none">>]

TypeOK ==
    /\ setting \in Settings
    /\ client \in [Clients -> ClientOps \cup {"idle"}]
    /\ p \in [at : Places, cur : Clients \cup {NULL}, sub : Clients \cup {NULL},
              polls : 0..MaxPolls, err : {"err", "reauth"}]
    /\ keys \in Seq(Clients \ setting.plain)
    /\ d.at \in {"idle", "answer", "second", "dead"}
    /\ d.id \in Clients \cup {NULL}
    /\ toD \in Seq(Msg) /\ toP \in Seq(Msg)
    /\ world \in [loaded : BOOLEAN, valid : BOOLEAN, file : BOOLEAN,
                  flow : {"none", "code", "exchanged", "device"}]
    /\ got \in [to : Clients \cup {NULL}, of : Clients \cup {NULL},
                key : Clients \cup {NULL}, op : Finals \cup Internal \cup {"none", "null"}]

Init ==
    /\ setting \in Settings
    /\ client = [c \in Clients |-> "idle"]
    /\ p = IdleP
    /\ keys = <<>>
    /\ d = IdleD
    /\ toD = <<>> /\ toP = <<>>
    /\ world \in [loaded : {FALSE}, valid : {TRUE}, file : BOOLEAN,
                  flow : {"none"}]
    /\ got = [to |-> NULL, of |-> NULL, key |-> NULL, op |-> "none"]
-----------------------------------------------------------------------------
(* oidcd.  A handler is a script: the internal requests it makes, in this  *)
(* order, and what it writes at the end (one response; once, two).         *)

Script(ints, final) == [ints |-> ints, final |-> <<final>>]

\* parseTokenResponseCallbacks: the refresh token may change in a refresh flow.
Refreshed == IF setting.rotation THEN {<<>>, <<"upd_refresh">>} ELSE {<<>>}

Confirmed == IF setting.confirm THEN <<"confirm">> ELSE <<>>

\* The cached access token, or a refresh flow.
FromLoaded ==
    {Script(Confirmed, "ok"), Script(Confirmed, "err")}
    \cup (IF world.valid THEN {Script(Confirmed \o u, "ok") : u \in Refreshed}
                         ELSE {Script(Confirmed, "reauth")})

\* oidcd_autoload, with addAccount: a refresh flow and the issuer update.
Autoload(before, after, final) ==
    {Script(before \o <<"autoload">>, "err")}
    \cup (IF world.valid
          THEN {Script(before \o <<"autoload">> \o u \o <<"upd_issuer">> \o after, final) :
                  u \in Refreshed}
          ELSE {Script(before \o <<"autoload">>, "reauth")})

tokenScripts ==
    IF world.loaded THEN FromLoaded
    ELSE IF setting.noAutoload THEN {Script(<<>>, "err")}
    ELSE Autoload(<<>>, Confirmed, "ok")

tokenIssuerScripts ==
    IF world.loaded THEN FromLoaded
    ELSE IF setting.noAutoload THEN {Script(<<>>, "err")}
    ELSE IF ~world.file /\ setting.autogen THEN {Script(<<"query">>, "autogen")}
    ELSE Autoload(<<"query">>, <<>>, "ok")

addScripts ==
    IF world.loaded THEN {Script(<<>>, "ok")}
    ELSE {Script(<<>>, "err")}
         \cup (IF world.valid THEN {Script(u \o <<"upd_issuer">>, "ok") : u \in Refreshed}
                              ELSE {Script(<<>>, "reauth")})

\* A flow that needs the user is started, or none can be.  (The flows that
\* finish at once need credentials the agent does not have here.)
genFlowScripts == {Script(<<>>, f) : f \in {"err", "url", "device"}}

\* When no account is found both _getLoadedUnencryptedAccount and the
\* handler write a response.
reauthenticateScripts ==
    LET missing == IF setting.noAutoload THEN {Script(<<>>, "err")}
                   ELSE UNION {Autoload(<<>>, <<>>, f) : f \in {"err", "url", "device"}}
        found(s) == \E i \in DOMAIN s.ints : s.ints[i] = "upd_issuer"
    IN  IF world.loaded THEN genFlowScripts
        ELSE {IF found(s) THEN s ELSE [s EXCEPT !.final = Append(@, "err")] : s \in missing}

exchangeScripts ==
    {Script(<<>>, "err")}
    \cup (IF world.flow # "code" THEN {}
          ELSE {Script(<<>>, "config")}
               \cup (IF setting.genRedirect THEN {Script(<<"upd_issuer">>, "config")} ELSE {}))

statelookupScripts ==
    IF world.flow = "exchanged" THEN {Script(<<"upd_issuer">>, "config")}
                                ELSE {Script(<<>>, "err")}

devicelookupScripts ==
    {Script(<<>>, "err")}
    \cup (IF world.flow = "device"
          THEN {Script(<<>>, "pending"), Script(<<"upd_issuer">>, "config")} ELSE {})

\* The dispatch of oidcd_main.
Scripts(op) ==
    CASE op = "token" -> tokenScripts
      [] op = "issuer" -> tokenIssuerScripts
      [] op = "add" -> addScripts
      [] op = "status" -> {Script(<<>>, "ok")}
      [] op = "exchange" -> exchangeScripts
      [] op = "reauthenticate" -> reauthenticateScripts
      [] op = "gen" -> genFlowScripts
      [] op = "statelookup" -> statelookupScripts
      [] op = "devicelookup" -> devicelookupScripts
      [] OTHER -> {Script(<<>>, "err")}       \* not a request

\* What the end of the handler of op leaves behind, in world w.
After(w, op, final, fromGen) ==
    CASE op = "add" /\ final \in {"ok", "reauth"} -> [w EXCEPT !.loaded = TRUE]
      [] final = "url" -> [w EXCEPT !.flow = "code"]
      [] final = "device" -> [w EXCEPT !.flow = "device"]
      [] final = "config" ->
            [w EXCEPT !.loaded = TRUE, !.valid = TRUE,
                      !.flow = IF op = "exchange" /\ ~fromGen THEN "exchanged" ELSE "none"]
      [] op = "devicelookup" /\ final = "err" -> [w EXCEPT !.flow = "none"]
      [] OTHER -> w

\* The handler of op goes on: with its next internal request or its end.
Proceed(op, id, ints, final, w) ==
    IF ints # <<>>
    THEN /\ toP' = Append(toP, [op |-> Head(ints), id |-> id])
         /\ d' = [at |-> "answer", id |-> id, on |-> op, rest |-> ints, final |-> final]
         /\ world' = w
    ELSE /\ toP' = Append(toP, [op |-> Head(final), id |-> id])
         /\ d' = IF Len(final) = 1 THEN IdleD
                 ELSE [IdleD EXCEPT !.at = "second", !.id = id, !.final = Tail(final)]
         /\ world' = After(w, op, Head(final), d.at = "answer")

\* The main loop reads a message and takes it for a request.  A read returns
\* everything that is in the pipe, of which only the first object is parsed.
oidcd_main ==
    /\ d.at = "idle" /\ toD # <<>>
    /\ \E s \in Scripts(Head(toD).op) :
          Proceed(Head(toD).op, Head(toD).id, s.ints, s.final, world)
    /\ toD' = <<>>
    /\ UNCHANGED <<client, p, keys, got>>

\* What the handler makes of the message m it reads for the answer to asked:
\* an autoload needs a configuration, a confirmation only has no error code.
Refuses(m, asked) ==
    \/ asked = "autoload" /\ m.op # "yes"
    \/ asked = "confirm" /\ m.op = "no"

\* An error response ends the handler.
Refusal(final) == <<"err">> \o Tail(final)

\* Inside a handler: write an internal request, read the next message.
ipc_communicateThroughPipe ==
    /\ d.at = "answer" /\ toD # <<>>
    /\ LET asked == Head(d.rest)
           stored == asked = "autoload" /\ Head(d.final) # "err"
       IN  IF Refuses(Head(toD), asked)
           THEN Proceed(d.on, d.id, <<>>, Refusal(d.final), world)
           ELSE Proceed(d.on, d.id, Tail(d.rest), d.final,
                        [world EXCEPT !.loaded = @ \/ stored])
    /\ toD' = <<>>
    /\ UNCHANGED <<client, p, keys, got>>

\* The second response of a re-authentication without an account.
oidcd_second ==
    /\ d.at = "second"
    /\ toP' = Append(toP, [op |-> Head(d.final), id |-> d.id])
    /\ d' = IdleD
    /\ UNCHANGED <<client, p, keys, toD, world, got>>

oidcd ==
    /\ oidcd_main \/ ipc_communicateThroughPipe \/ oidcd_second
    /\ UNCHANGED setting
-----------------------------------------------------------------------------
(* oidcp.                                                                  *)

\* server_ipc_read: a key exchange, unless the request is plain JSON.
Pushed(c) == IF c \in setting.plain THEN keys ELSE Append(keys, c)

\* Mutant: the keys are a queue.
LastKey_first(ks) == IF ks = <<>> THEN NULL ELSE ks[1]

LastKey(ks) == IF ks = <<>> THEN NULL ELSE ks[Len(ks)]

\* server_ipc_write takes the last key, whichever client it belongs to.
WriteWith(ks, c, m) ==
    /\ client' = [client EXCEPT ![c] = "idle"]
    /\ got' = [to |-> c, of |-> m.id, op |-> m.op, key |-> LastKey(ks)]
    /\ keys' = IF ks = <<>> THEN ks ELSE Front(ks)

server_ipc_write(c, m) == WriteWith(keys, c, m)

\* oidcp writes to oidcd and waits for what it sends.
Ask(op, id) == toD' = Append(toD, [op |-> op, id |-> id])

\* A response to the client that is served, and back to the main loop.
Respond(m) == server_ipc_write(p.cur, m) /\ p' = IdleP

ErrorFor(c) == [op |-> "err", id |-> c]

\* error_res_fmt and error_res_arg of _parseInternalGen.
Fail == Respond([op |-> p.err, id |-> p.cur])

\* handleClientComm takes the request of some connection.
handleClientComm ==
    /\ p.at = "accept"
    /\ \E c \in Clients :
          /\ client[c] # "idle"
          /\ Ask(client[c], c)
          /\ p' = [IdleP EXCEPT !.at = "comm", !.cur = c]
          /\ keys' = Pushed(c)
    /\ UNCHANGED <<client, d, toP, world, got>>

\* The next message from oidcd; a read empties the pipe.
Read(m) == toP # <<>> /\ m = Head(toP) /\ toP' = <<>>

\* What oidcp answers to an internal request: the file may lack, the user may
\* refuse, an update of the refresh token may fail.
Replies(op) ==
    CASE op = "autoload" -> IF world.file THEN {"yes", "no"} ELSE {"no"}
      [] op \in {"confirm", "upd_refresh"} -> {"yes", "no"}
      [] OTHER -> {"yes"}

\* handleOidcdComm with an internal request.
AnswerInternal(m) ==
    /\ m.op \in Internal \ {"autogen"}
    /\ \E a \in Replies(m.op) : Ask(a, p.cur)
    /\ UNCHANGED <<client, p, keys, world, got>>

\* handleAutoGen: the user consents and chooses a name, or not.
handleAutoGen(m) ==
    /\ m.op = "autogen"
    /\ \/ Respond(ErrorFor(p.cur)) /\ UNCHANGED toD
       \/ /\ Ask("gen", p.cur)
          /\ p' = [p EXCEPT !.at = "gen"]
          /\ UNCHANGED <<client, keys, got>>
    /\ UNCHANGED world

doReauthenticate(m) ==
    /\ m.op = "reauth" /\ setting.autoReauth
    /\ Ask("reauthenticate", p.cur)
    /\ p' = [p EXCEPT !.at = "gen", !.err = "reauth"]
    /\ UNCHANGED <<client, keys, world, got>>

\* Mutant: an internal request that handleOidcdComm does not know.
IsFinal_query(m) == m.op \notin Internal \ {"query"}

\* A message without "request" is the final response.
IsFinal(m) == m.op \notin Internal

ForwardFinal(m) ==
    /\ IsFinal(m)
    /\ ~(m.op = "reauth" /\ setting.autoReauth)
    /\ Respond(m)
    /\ UNCHANGED <<toD, world>>

handleOidcdComm ==
    /\ p.at = "comm"
    /\ \E m \in Msg :
          /\ Read(m)
          /\ \/ AnswerInternal(m) \/ handleAutoGen(m) \/ doReauthenticate(m) \/ ForwardFinal(m)
    /\ UNCHANGED d

\* Mutant: the update is not acknowledged.
UpdateIssuer_silent(m) ==
    /\ m.op = "upd_issuer"
    /\ UNCHANGED <<client, p, keys, toD, world, got>>

\* oidcp_updateIssuerConfig, wherever it is called.
UpdateIssuer(m) ==
    /\ m.op = "upd_issuer"
    /\ Ask("yes", p.cur)
    /\ UNCHANGED <<client, p, keys, world, got>>

\* The code URI is displayed and the redirect awaited, a device code is
\* displayed and polled; any other message is an error.
_parseInternalGen ==
    /\ p.at = "gen"
    /\ \E m \in Msg :
          /\ Read(m)
          /\ \/ /\ m.op = "url"
                /\ p' = [p EXCEPT !.at = "wait"]
                /\ UNCHANGED <<client, keys, toD, world, got>>
             \/ /\ m.op = "device"
                /\ Ask("devicelookup", p.cur)
                /\ p' = [p EXCEPT !.at = "poll", !.polls = 1]
                /\ UNCHANGED <<client, keys, world, got>>
             \/ UpdateIssuer(m)
             \/ m.op \notin {"url", "device", "upd_issuer"} /\ Fail /\ UNCHANGED <<toD, world>>
    /\ UNCHANGED d

\* Meanwhile other clients are accepted, but only a redirect is forwarded.
_waitForCodeExchangeRequest ==
    /\ p.at = "wait"
    /\ \E c \in Clients \ {p.cur} :
          \/ /\ client[c] = "exchange"
             /\ Ask("exchange", c)
             /\ p' = [p EXCEPT !.at = "exchange", !.sub = c]
             /\ keys' = Pushed(c)
             /\ UNCHANGED <<client, got>>
          \/ /\ client[c] \notin {"exchange", "idle"}
             /\ WriteWith(Pushed(c), c, ErrorFor(c))
             /\ UNCHANGED <<p, toD>>
    /\ UNCHANGED <<d, toP, world>>

\* Mutant: there is no timeout.
redirectTimeout_never == FALSE /\ UNCHANGED vars

\* AGENT_PROMPT_TIMEOUT passes without the redirect.
redirectTimeout == p.at = "wait" /\ Fail /\ UNCHANGED <<d, toD, toP, world>>

\* The answer to the redirect goes to the client that brought it.  With
\* another state than the expected one (which only fails) it waits on.
forwardExchange ==
    /\ p.at = "exchange"
    /\ \E m \in Msg :
          /\ Read(m)
          /\ server_ipc_write(p.sub, m)
          /\ \/ /\ Ask("statelookup", p.cur)
                /\ p' = [p EXCEPT !.at = "lookup", !.sub = NULL]
             \/ /\ m.op = "err"
                /\ p' = [p EXCEPT !.at = "wait", !.sub = NULL]
                /\ UNCHANGED toD
    /\ UNCHANGED <<d, world>>

\* The configuration is written to its file and the request sent again.
SaveAndResend(m) ==
    /\ m.op = "config"
    /\ \/ /\ world' = [world EXCEPT !.file = TRUE]
          /\ Ask(client[p.cur], p.cur)
          /\ p' = [p EXCEPT !.at = "final"]
          /\ UNCHANGED <<client, keys, got>>
       \/ Fail /\ UNCHANGED <<toD, world>>

parseStateLookupRes ==
    /\ p.at = "lookup"
    /\ \E m \in Msg :
          /\ Read(m)
          /\ \/ SaveAndResend(m)
             \/ UpdateIssuer(m)
             \/ m.op \notin {"config", "upd_issuer"} /\ Fail /\ UNCHANGED <<toD, world>>
    /\ UNCHANGED d

\* The device code has not expired.
MorePolls == p.polls < MaxPolls

_pollDeviceCode ==
    /\ p.at = "poll"
    /\ \E m \in Msg :
          /\ Read(m)
          /\ \/ SaveAndResend(m)
             \/ UpdateIssuer(m)
             \/ /\ m.op = "pending" /\ MorePolls
                /\ Ask("devicelookup", p.cur)
                /\ p' = [p EXCEPT !.polls = @ + 1]
                /\ UNCHANGED <<client, keys, world, got>>
             \/ /\ m.op \notin {"config", "upd_issuer"} \cup
                       (IF MorePolls THEN {"pending"} ELSE {})
                /\ Fail /\ UNCHANGED <<toD, world>>
    /\ UNCHANGED d

\* Whatever comes first is the response to the request that was sent again.
finalResponse ==
    /\ p.at = "final"
    /\ \E m \in Msg : Read(m) /\ Respond(m)
    /\ UNCHANGED <<d, toD, world>>

\* Mutant: the agent goes on without oidcd.
Exit_not == p' = IdleP

Exit == p' = [IdleP EXCEPT !.at = "exited"]

\* oidcd is gone and the pipe empty: the read fails.  Polling takes it for
\* the end of the flow, the request that was sent again prints a NULL, and
\* everywhere else the agent stops.
oidcdDied ==
    /\ d.at = "dead" /\ toP = <<>>
    /\ \/ /\ p.at \in {"comm", "gen", "lookup", "exchange"}
          /\ LET c == IF p.at = "exchange" THEN p.sub ELSE p.cur
             IN  server_ipc_write(c, ErrorFor(c))
          /\ Exit
       \/ p.at = "poll" /\ Fail
       \/ p.at = "final" /\ Respond([op |-> "null", id |-> p.cur])
    /\ UNCHANGED <<d, toD, toP, world>>

oidcp ==
    /\ \/ handleClientComm \/ handleOidcdComm \/ _parseInternalGen
       \/ _waitForCodeExchangeRequest \/ redirectTimeout \/ forwardExchange
       \/ parseStateLookupRes \/ _pollDeviceCode \/ finalResponse \/ oidcdDied
    /\ UNCHANGED setting
-----------------------------------------------------------------------------
(* The rest of the world.                                                  *)

ClientAsks ==
    /\ p.at # "exited"
    /\ \E c \in Clients, op \in ClientOps :
          client[c] = "idle" /\ client' = [client EXCEPT ![c] = op]
    /\ UNCHANGED <<p, keys, d, toD, toP, world, got>>

\* The provider stops accepting the refresh token.
Revoke ==
    /\ world.valid
    /\ world' = [world EXCEPT !.valid = FALSE]
    /\ UNCHANGED <<client, p, keys, d, toD, toP, got>>

\* removeDeathAccounts, in the main loop of oidcd.
Expire ==
    /\ setting.expiry /\ world.loaded /\ d.at = "idle"
    /\ world' = [world EXCEPT !.loaded = FALSE]
    /\ UNCHANGED <<client, p, keys, d, toD, toP, got>>

Die ==
    /\ setting.crash /\ d.at # "dead"
    /\ d' = [IdleD EXCEPT !.at = "dead"]
    /\ UNCHANGED <<client, p, keys, toD, toP, world, got>>

environment ==
    /\ ClientAsks \/ Revoke \/ Expire \/ Die
    /\ UNCHANGED setting

Next == oidcp \/ oidcd \/ environment

\* Both processes keep running; the deadline of a prompt is absolute.
Fairness == WF_vars(oidcp) /\ WF_vars(oidcd) /\ SF_vars(redirectTimeout /\ UNCHANGED setting)

Spec == Init /\ [][Next]_vars /\ Fairness
-----------------------------------------------------------------------------
(* Properties.                                                             *)

Service ==
    INSTANCE AgentService WITH
        Requests <- ClientOps, Responses <- Finals \cup {"null"},
        got <- [to |-> got.to, of |-> got.of, op |-> got.op]

\* Every response goes to a waiting client, answers that client's own request
\* and is a response, never an internal request of oidcd (handleOidcdComm and
\* _parseInternalGen forward what they read).  Only when oidcd has died may the
\* response to a request that was sent again be a printed null pointer.
ImplementsService == Service!Spec /\ [](got.op = "null" => d.at = "dead")

\* The processes stay in step: while oidcp waits for oidcd exactly one message
\* is on its way or being answered, and while it waits for clients oidcd is
\* back in its main loop and the pipes are empty, so that no request is taken
\* for an answer and no answer for another (ipc_communicateThroughPipe).
InStep ==
    d.at # "dead" =>
        LET flying == Len(toD) + Len(toP) + (IF d.at = "second" THEN 1 ELSE 0)
        IN  IF p.at \in {"accept", "wait"} THEN d = IdleD /\ flying = 0 ELSE flying = 1

\* A response is encrypted with the key negotiated with its own client, also
\* when other clients are served in between (encryptionKeys is a stack).
OwnKey ==
    got.to # NULL => got.key = IF got.to \in setting.plain THEN NULL ELSE got.to

\* Whatever a client asks for, oidcp comes back to its main loop, or stops
\* because oidcd died: no prompt, poll or internal exchange blocks it forever.
AlwaysComesBack == p.at # "accept" ~> p.at \in {"accept", "exited"}

\* Once oidcd has died the agent stops at the next request (SHUTDOWN_IF_D_DIED)
\* instead of serving clients that it cannot help.
StopsAfterDeath ==
    (d.at = "dead" /\ p.at = "accept" /\ \E c \in Clients : client[c] # "idle")
        ~> p.at = "exited"
=============================================================================
