--------------------------- MODULE AgentPipeProofs ---------------------------
(***************************************************************************)
(* oidcp and oidcd stay in step and serve every client with its own        *)
(* response, for any number of clients and of polls.  The settings are any *)
(* as long as oidcp runs no exchange of its own; automatic                 *)
(* re-authentication and autogen only go together with the settings that   *)
(* do not put internal requests, other keys or the death of oidcd between  *)
(* a request and its response.                                             *)
(***************************************************************************)
EXTENDS AgentPipe, SequenceTheorems, TLAPS

\* oidcp runs exchanges of its own while a client waits.
Interactive(s) == s.autoReauth \/ s.autogen

\* Nothing can come between the steps of such an exchange.
Undisturbed(s) ==
    ~s.confirm /\ ~s.expiry /\ ~s.rotation /\ ~s.genRedirect /\ ~s.crash /\ s.plain = {}

Sober == \A s \in Settings : Interactive(s) => Undisturbed(s)
-----------------------------------------------------------------------------
(* The invariant                                                           *)

\* The client whose request is with oidcd.
Who == IF p.at = "exchange" THEN p.sub ELSE p.cur

\* What oidcp may have asked oidcd for, where it is.
RequestAt(o) ==
    \/ p.at = "comm" /\ o \in ClientOps
    \/ p.at = "gen" /\ (o = "gen" \/ (o = "reauthenticate" /\ world.loaded))
    \/ p.at = "exchange" /\ o = "exchange"
    \/ p.at = "lookup" /\ o = "statelookup"
    \/ p.at = "poll" /\ o = "devicelookup"
    \/ p.at = "final" /\ o \in ClientOps /\ world.loaded

\* What oidcd may then write at the end.
EndsAt(f) ==
    /\ \/ p.at = "comm" /\ f \in Finals \cup {"autogen"}
       \/ p.at = "gen" /\ f \in {"err", "url", "device"}
       \/ p.at \in {"exchange", "lookup"} /\ f \in {"err", "config"}
       \/ p.at = "poll" /\ f \in {"err", "config", "pending"}
       \/ p.at = "final" /\ f \in Finals
    /\ f = "autogen" => setting.autogen

FinalAt(f) ==
    EndsAt(f) /\ (f \in {"config", "reauth"} /\ Interactive(setting) => world.loaded)

\* What a handler that waits for an answer may still have to do, in world w.
Pends(rest, f, w) ==
    \/ /\ p.at = "comm" /\ EndsAt(f)
       /\ rest \in Seq(Internal \ {"autogen"}) /\ rest # <<>>
       /\ f = "reauth" /\ Interactive(setting) =>
             w.loaded \/ rest[Len(rest)] = "autoload"
    \/ /\ p.at \in {"lookup", "poll"}
       /\ rest = <<"upd_issuer">> /\ f = "config"

HandlerAt ==
    /\ d.at = "answer" /\ d.id = Who
    /\ \E f \in Finals \cup {"autogen"} : d.final = <<f>> /\ Pends(d.rest, f, world)

Message(o, c) == <<[op |-> o, id |-> c]>>

\* Nothing is under way; or one message is: a request, an internal request,
\* the answer to it, or the response.
AtRest   == toD = <<>> /\ toP = <<>> /\ d = IdleD
Request  == \E o \in ClientOps \cup ProxyOps :
                toD = Message(o, Who) /\ toP = <<>> /\ d = IdleD /\ RequestAt(o)
Question == toD = <<>> /\ HandlerAt /\ toP = Message(Head(d.rest), Who)
Reply    == toP = <<>> /\ HandlerAt /\ \E o \in Answers : toD = Message(o, p.cur)
Response == \E o \in Finals \cup {"autogen"} :
                toP = Message(o, Who) /\ toD = <<>> /\ d = IdleD /\ FinalAt(o)

\* oidcd is dead, and what it wrote before may still be read.
Orphaned ==
    /\ d.at = "dead" /\ ~Interactive(setting)
    /\ p.at \in {"accept", "comm", "exited"}
    /\ \/ toP = <<>>
       \/ p.at = "comm" /\ \E o \in Finals \cup (Internal \ {"autogen"}) : toP = Message(o, p.cur)

Conversation ==
    \/ p.at \in {"accept", "wait"} /\ AtRest
    \/ p.at \notin {"accept", "wait", "exited"} /\ (Request \/ Question \/ Reply \/ Response)
    \/ Orphaned

\* Whom oidcp serves.
Serving ==
    /\ p.at \in Places /\ p.err \in {"err", "reauth"} /\ p.polls \in Nat
    /\ p = [at |-> p.at, cur |-> p.cur, sub |-> p.sub, polls |-> p.polls, err |-> p.err]
    /\ p.at \notin {"accept", "exited"} => p.cur \in Clients /\ client[p.cur] \in ClientOps
    /\ p.at = "exchange" => p.sub \in Clients \ {p.cur} /\ client[p.sub] \in ClientOps
    /\ p.at \notin {"accept", "comm", "exited"} => Interactive(setting)

\* The keys on the stack.
KeyOf(c) == IF c \in setting.plain THEN <<>> ELSE <<c>>
Keyed ==
    /\ p.at = "accept" => keys = <<>>
    /\ p.at \notin {"accept", "exchange", "exited"} => keys = KeyOf(p.cur)
    /\ p.at = "exchange" =>
          keys \in Seq(Clients) /\ Len(keys) = 2 /\ keys[1] = p.cur /\ keys[2] = p.sub

\* Every response so far.
Served ==
    got.to # NULL => got.key = IF got.to \in setting.plain THEN NULL ELSE got.to

Worlds == [loaded : BOOLEAN, valid : BOOLEAN, file : BOOLEAN,
           flow : {"none", "code", "exchanged", "device"}]

PipeInv ==
    /\ setting \in Settings /\ world \in Worlds
    /\ client \in [Clients -> ClientOps \cup {"idle"}]
    /\ Conversation /\ Serving /\ Keyed /\ Served
-----------------------------------------------------------------------------
(* Sequences                                                               *)

LEMMA TailLast ==
    ASSUME NEW S, NEW s \in Seq(S), s # <<>>
    PROVE  /\ Head(s) \in S /\ Tail(s) \in Seq(S)
           /\ Tail(s) # <<>> => Tail(s)[Len(Tail(s))] = s[Len(s)]
           /\ Tail(s) = <<>> => Head(s) = s[Len(s)]
<1>1. /\ Head(s) \in S /\ Tail(s) \in Seq(S) /\ Len(Tail(s)) = Len(s) - 1
      /\ \A i \in 1..Len(Tail(s)) : Tail(s)[i] = s[i + 1]
    BY HeadTailProperties
<1>2. Len(s) \in Nat /\ Head(s) = s[1] /\ Len(s) # 0
    OBVIOUS
<1>3. ASSUME Tail(s) # <<>> PROVE Tail(s)[Len(Tail(s))] = s[Len(s)]
    <2>1. Len(Tail(s)) # 0 /\ Len(Tail(s)) \in Nat
        BY <1>1, <1>3
    <2> QED BY <1>1, <1>2, <2>1
<1>4. ASSUME Tail(s) = <<>> PROVE Len(s) = 1
    <2> DEFINE t == Tail(s)
    <2>1. Len(t) = 0
        <3>1. t = <<>>
            BY <1>4
        <3> HIDE DEF t
        <3> QED BY <3>1
    <2>2. Len(Tail(s)) = Len(s) - 1 /\ Len(s) \in Nat
        BY <1>1, <1>2
    <2> QED BY <2>1, <2>2
<1> QED BY <1>1, <1>2, <1>3, <1>4
-----------------------------------------------------------------------------
(* The handlers of oidcd                                                   *)

\* What the script s of a request of a client says.
ClientScript(o, s) ==
    \E f \in Finals \cup {"autogen"} :
        /\ s.final = <<f>> /\ s.ints \in Seq(Internal \ {"autogen"})
        /\ f = "autogen" => setting.autogen /\ ~world.loaded
        /\ f = "reauth" /\ Interactive(setting) =>
              \/ world.loaded \/ o = "add" 
              \/ s.ints # <<>> /\ s.ints[Len(s.ints)] = "autoload"
        /\ Interactive(setting) /\ world.loaded => s.ints = <<>>
        /\ o = "exchange" => f \in {"err", "config"}
        /\ Interactive(setting) /\ o = "exchange" => s.ints = <<>>

LEMMA Undisturbing ==
    ASSUME Sober, setting \in Settings, Interactive(setting)
    PROVE  /\ Confirmed = <<>> /\ Refreshed = {<<>>} /\ setting.plain = {}
           /\ ~setting.genRedirect /\ ~setting.expiry /\ ~setting.crash
BY DEF Sober, Undisturbed, Confirmed, Refreshed

LEMMA Pieces ==
    /\ Confirmed \in Seq(Internal \ {"autogen"})
    /\ \A u \in Refreshed : u \in Seq(Internal \ {"autogen"})
    /\ <<>> \in Seq(Internal \ {"autogen"})
    /\ <<"autoload">> \in Seq(Internal \ {"autogen"})
    /\ <<"query">> \in Seq(Internal \ {"autogen"})
    /\ <<"upd_issuer">> \in Seq(Internal \ {"autogen"})
<1>1. /\ <<"confirm">> \in Seq(Internal \ {"autogen"}) /\ <<"upd_refresh">> \in Seq(Internal \ {"autogen"})
      /\ <<>> \in Seq(Internal \ {"autogen"})
    BY DEF Internal
<1>2. /\ <<"autoload">> \in Seq(Internal \ {"autogen"})
      /\ <<"query">> \in Seq(Internal \ {"autogen"})
      /\ <<"upd_issuer">> \in Seq(Internal \ {"autogen"})
    BY DEF Internal
<1>3. Confirmed \in Seq(Internal \ {"autogen"})
    BY <1>1 DEF Confirmed
<1>4. \A u \in Refreshed : u \in Seq(Internal \ {"autogen"})
    BY <1>1 DEF Refreshed
<1> QED BY <1>1, <1>2, <1>3, <1>4

\* A script of the pieces, unless it can end with a consent or a renewal.
LEMMA PlainScript ==
    ASSUME Sober, setting \in Settings, NEW o, NEW f \in {"ok", "err"}, o # "exchange",
           NEW ints \in Seq(Internal \ {"autogen"}),
           Interactive(setting) /\ world.loaded => ints = <<>>
    PROVE  ClientScript(o, Script(ints, f))
BY DEF ClientScript, Script, Finals

LEMMA LoadedScripts ==
    ASSUME Sober, setting \in Settings, world.loaded, NEW s \in FromLoaded, NEW o, o # "exchange"
    PROVE  ClientScript(o, s)
<1>1. CASE s \in {Script(Confirmed, "ok"), Script(Confirmed, "err")}
    BY <1>1, Undisturbing, Pieces, PlainScript
<1>2. CASE \E u \in Refreshed : s = Script(Confirmed \o u, "ok")
    <2>1. PICK u \in Refreshed : s = Script(Confirmed \o u, "ok")
        BY <1>2
    <2>2. Confirmed \in Seq(Internal \ {"autogen"}) /\ u \in Seq(Internal \ {"autogen"})
        BY Pieces
    <2>3. Confirmed \o u \in Seq(Internal \ {"autogen"})
        BY <2>2
    <2>4. Interactive(setting) => Confirmed \o u = <<>>
        BY Undisturbing
    <2> QED BY <2>1, <2>3, <2>4, PlainScript
<1>3. CASE s = Script(Confirmed, "reauth")
    BY <1>3, Undisturbing, Pieces DEF ClientScript, Script, Finals
<1> QED BY <1>1, <1>2, <1>3 DEF FromLoaded

LEMMA AutoloadScripts ==
    ASSUME Sober, setting \in Settings, ~world.loaded, NEW o, o # "exchange",
           NEW before \in {<<>>, <<"query">>}, NEW after \in {<<>>, Confirmed},
           NEW s \in Autoload(before, after, "ok")
    PROVE  ClientScript(o, s)
<1> DEFINE S == Internal \ {"autogen"}
<1>1. before \in Seq(S) /\ after \in Seq(S) /\ <<"autoload">> \in Seq(S) /\ <<"upd_issuer">> \in Seq(S)
    BY Pieces
<1>2. before \o <<"autoload">> \in Seq(S)
    BY <1>1
<1>3. CASE s = Script(before \o <<"autoload">>, "err")
    BY <1>2, <1>3, PlainScript
<1>4. CASE \E u \in Refreshed :
              s = Script(before \o <<"autoload">> \o u \o <<"upd_issuer">> \o after, "ok")
    <2>1. PICK u \in Refreshed :
              s = Script(before \o <<"autoload">> \o u \o <<"upd_issuer">> \o after, "ok")
        BY <1>4
    <2>2. u \in Seq(S)
        BY Pieces
    <2>3. before \o <<"autoload">> \o u \in Seq(S)
        BY <1>2, <2>2
    <2>4. before \o <<"autoload">> \o u \o <<"upd_issuer">> \in Seq(S)
        BY <1>1, <2>3
    <2>5. before \o <<"autoload">> \o u \o <<"upd_issuer">> \o after \in Seq(S)
        BY <1>1, <2>4
    <2> QED BY <2>1, <2>5, PlainScript
<1>5. CASE s = Script(before \o <<"autoload">>, "reauth")
    <2> DEFINE ints == before \o <<"autoload">>
    <2>1. ints # <<>> /\ ints[Len(ints)] = "autoload"
        BY <1>1 DEF Internal
    <2> HIDE DEF ints
    <2>2. s = [ints |-> ints, final |-> <<"reauth">>]
        BY <1>5 DEF Script, ints
    <2> QED BY <1>2, <2>1, <2>2 DEF ClientScript, Finals, ints
<1> QED BY <1>3, <1>4, <1>5 DEF Autoload

LEMMA ClientScripts ==
    ASSUME Sober, setting \in Settings, world \in Worlds, NEW o \in ClientOps,
           NEW s \in Scripts(o)
    PROVE  ClientScript(o, s)
<1>0. world.loaded \in BOOLEAN /\ <<>> \in Seq(Internal \ {"autogen"})
    BY Pieces DEF Worlds
<1>1. CASE o = "token"
    <2>1. s \in tokenScripts
        BY <1>1 DEF Scripts
    <2>2. \/ world.loaded /\ s \in FromLoaded
          \/ ~world.loaded /\ s = Script(<<>>, "err")
          \/ ~world.loaded /\ s \in Autoload(<<>>, Confirmed, "ok")
        BY <2>1 DEF tokenScripts
    <2> QED BY <1>0, <1>1, <2>2, LoadedScripts, AutoloadScripts, PlainScript
<1>2. CASE o = "issuer"
    <2>1. s \in tokenIssuerScripts
        BY <1>2 DEF Scripts
    <2>2. \/ world.loaded /\ s \in FromLoaded
          \/ ~world.loaded /\ s = Script(<<>>, "err")
          \/ ~world.loaded /\ setting.autogen /\ s = Script(<<"query">>, "autogen")
          \/ ~world.loaded /\ s \in Autoload(<<"query">>, <<>>, "ok")
        BY <2>1 DEF tokenIssuerScripts
    <2>3. CASE ~world.loaded /\ setting.autogen /\ s = Script(<<"query">>, "autogen")
        BY <1>2, <2>3, Pieces DEF ClientScript, Script
    <2> QED BY <1>0, <1>2, <2>2, <2>3, LoadedScripts, AutoloadScripts, PlainScript
<1>3. CASE o = "add"
    <2>1. s \in addScripts
        BY <1>3 DEF Scripts
    <2>2. \/ s \in {Script(<<>>, "ok"), Script(<<>>, "err")}
          \/ ~world.loaded /\ \E u \in Refreshed : s = Script(u \o <<"upd_issuer">>, "ok")
          \/ ~world.loaded /\ s = Script(<<>>, "reauth")
        BY <2>1 DEF addScripts
    <2>3. CASE \E u \in Refreshed : ~world.loaded /\ s = Script(u \o <<"upd_issuer">>, "ok")
        <3>1. PICK u \in Refreshed : ~world.loaded /\ s = Script(u \o <<"upd_issuer">>, "ok")
            BY <2>3
        <3>2. u \in Seq(Internal \ {"autogen"}) /\ <<"upd_issuer">> \in Seq(Internal \ {"autogen"})
            BY Pieces
        <3>3. u \o <<"upd_issuer">> \in Seq(Internal \ {"autogen"})
            BY <3>2
        <3> QED BY <1>3, <3>1, <3>3, PlainScript
    <2>4. CASE s = Script(<<>>, "reauth")
        BY <1>0, <1>3, <2>4 DEF ClientScript, Script, Finals
    <2> QED BY <1>0, <1>3, <2>2, <2>3, <2>4, PlainScript
<1>4. CASE o = "status"
    <2>1. s = Script(<<>>, "ok")
        BY <1>4 DEF Scripts
    <2> QED BY <1>0, <1>4, <2>1, PlainScript
<1>5. CASE o = "exchange"
    <2>1. s \in exchangeScripts
        BY <1>5 DEF Scripts
    <2>2. \/ s = Script(<<>>, "err") \/ s = Script(<<>>, "config")
          \/ setting.genRedirect /\ s = Script(<<"upd_issuer">>, "config")
        BY <2>1 DEF exchangeScripts
    <2>3. CASE setting.genRedirect /\ s = Script(<<"upd_issuer">>, "config")
        <3>1. ~Interactive(setting)
            BY <2>3, Undisturbing
        <3>2. /\ s.final = <<"config">> /\ s.ints \in Seq(Internal \ {"autogen"})
              /\ "config" \in Finals \cup {"autogen"}
            BY <2>3, Pieces DEF Script, Finals
        <3> QED BY <3>1, <3>2 DEF ClientScript
    <2>4. CASE s = Script(<<>>, "err") \/ s = Script(<<>>, "config")
        <3>1. PICK f \in {"err", "config"} : s = [ints |-> <<>>, final |-> <<f>>]
            BY <2>4 DEF Script
        <3>2. f \in Finals \cup {"autogen"} /\ s.final = <<f>> /\ s.ints = <<>>
            BY <3>1 DEF Finals
        <3> QED BY <1>0, <1>5, <3>1, <3>2 DEF ClientScript
    <2> QED BY <2>2, <2>3, <2>4
<1> QED BY <1>1, <1>2, <1>3, <1>4, <1>5 DEF ClientOps

\* The scripts of the requests that oidcp makes on its own.
LEMMA ProxyScripts ==
    ASSUME NEW o, NEW s \in Scripts(o)
    PROVE  /\ o = "gen" \/ (o = "reauthenticate" /\ world.loaded) =>
                \E f \in {"err", "url", "device"} : s = Script(<<>>, f)
           /\ o = "statelookup" =>
                s \in {Script(<<>>, "err"), Script(<<"upd_issuer">>, "config")}
           /\ o = "devicelookup" =>
                s \in {Script(<<>>, "err"), Script(<<>>, "pending"),
                       Script(<<"upd_issuer">>, "config")}
<1>1. CASE o = "gen"
    BY <1>1 DEF Scripts, genFlowScripts
<1>2. CASE o = "reauthenticate" /\ world.loaded
    <2>1. s \in reauthenticateScripts
        BY <1>2 DEF Scripts
    <2>2. s \in genFlowScripts
        BY <1>2, <2>1 DEF reauthenticateScripts
    <2> QED BY <1>2, <2>2 DEF genFlowScripts
<1>3. CASE o = "statelookup"
    BY <1>3 DEF Scripts, statelookupScripts
<1>4. CASE o = "devicelookup"
    BY <1>4 DEF Scripts, devicelookupScripts
<1> QED BY <1>1, <1>2, <1>3, <1>4

LEMMA AfterWorld ==
    ASSUME NEW w \in Worlds, NEW o, NEW f, NEW g
    PROVE  /\ After(w, o, f, g) \in Worlds
           /\ w.loaded => After(w, o, f, g).loaded
           /\ f = "config" => After(w, o, f, g).loaded
           /\ f = "reauth" /\ o = "add" => After(w, o, f, g).loaded
BY DEF After, Worlds

\* A step of oidcd, after which the handler waits or has ended.
LEMMA ProceedStep ==
    ASSUME PipeInv, p.at \notin {"accept", "wait", "exited"},
           toP = <<>>, toD' = <<>>, UNCHANGED <<client, p, keys, got, setting>>,
           NEW o, NEW ints, NEW f \in Finals \cup {"autogen"}, NEW w \in Worlds,
           Proceed(o, Who, ints, <<f>>, w),
           ints # <<>> => Pends(ints, f, w),
           ints = <<>> =>
               EndsAt(f) /\ (f = "reauth" /\ Interactive(setting) => w.loaded \/ o = "add")
    PROVE  PipeInv'
<1>1. Who' = Who /\ Who \in Clients
    BY DEF PipeInv, Serving, Who
<1>2. world' \in Worlds
    <2>1. CASE ints # <<>>
        BY <2>1 DEF Proceed, Worlds
    <2>2. CASE ints = <<>>
        BY <2>2, AfterWorld DEF Proceed
    <2> QED BY <2>1, <2>2
<1>3. Conversation'
    <2>1. CASE ints # <<>>
        <3>1. toP' = Message(Head(ints), Who)
            BY <2>1 DEF Proceed, Message
        <3>2. d'.at = "answer" /\ d'.id = Who /\ d'.rest = ints /\ d'.final = <<f>>
            BY <2>1 DEF Proceed
        <3>3. world'.loaded = w.loaded
            BY <2>1 DEF Proceed, Worlds
        <3>4. Pends(ints, f, w)'
            BY <2>1 DEF Pends, EndsAt
        <3>5. Pends(d.rest, f, world)'
            BY <3>2, <3>3, <2>1 DEF Pends, EndsAt
        <3>6. HandlerAt'
            BY <1>1, <3>2, <3>5 DEF HandlerAt
        <3>7. Question'
            BY <1>1, <3>1, <3>2, <3>6 DEF Question, Message
        <3> QED BY <3>7 DEF Conversation
    <2>2. CASE ints = <<>>
        <3>1. toP' = Message(f, Who) /\ d' = IdleD
            BY <2>2 DEF Proceed, Message
        <3>2. EndsAt(f)'
            BY <2>2 DEF EndsAt
        <3>3. f \in {"config", "reauth"} /\ Interactive(setting) => world'.loaded
            BY <2>2, AfterWorld DEF Proceed
        <3>4. FinalAt(f)'
            BY <3>2, <3>3 DEF FinalAt
        <3>5. Response'
            BY <1>1, <3>1, <3>4 DEF Response, Message
        <3> QED BY <3>5 DEF Conversation
    <2> QED BY <2>1, <2>2
<1>5. Serving' /\ Keyed' /\ Served'
    BY DEF PipeInv, Serving, Keyed, KeyOf, Served
<1> QED BY <1>2, <1>3, <1>5 DEF PipeInv

LEMMA MainStep ==
    ASSUME Sober, PipeInv, oidcd_main, UNCHANGED setting
    PROVE  PipeInv'
<1>1. PICK o \in ClientOps \cup ProxyOps : toD = Message(o, Who) /\ toP = <<>> /\ RequestAt(o)
    BY DEF PipeInv, Conversation, AtRest, Request, Question, Reply, Response, HandlerAt, Orphaned,
           oidcd_main
<1>2. Head(toD).op = o /\ Head(toD).id = Who
    BY <1>1 DEF Message
<1>3. PICK s \in Scripts(o) : Proceed(o, Who, s.ints, s.final, world)
    BY <1>2 DEF oidcd_main
<1>4. p.at \notin {"accept", "wait", "exited"}
    BY <1>1 DEF RequestAt
<1>6. p.at # "comm" => Interactive(setting)
    BY <1>4 DEF PipeInv, Serving
<1>7. CASE p.at \in {"comm", "exchange", "final"}
    <2>1. o \in ClientOps /\ (p.at = "exchange" => o = "exchange") /\ (p.at = "final" => world.loaded)
        BY <1>1, <1>7 DEF RequestAt, ClientOps
    <2>2. ClientScript(o, s)
        BY <2>1, ClientScripts DEF PipeInv
    <2>3. PICK f \in Finals \cup {"autogen"} :
            /\ s.final = <<f>> /\ s.ints \in Seq(Internal \ {"autogen"})
            /\ f = "autogen" => setting.autogen /\ ~world.loaded
            /\ f = "reauth" /\ Interactive(setting) =>
                  \/ world.loaded \/ o = "add"
                  \/ s.ints # <<>> /\ s.ints[Len(s.ints)] = "autoload"
            /\ Interactive(setting) /\ world.loaded => s.ints = <<>>
            /\ o = "exchange" => f \in {"err", "config"}
            /\ Interactive(setting) /\ o = "exchange" => s.ints = <<>>
        BY <2>2 DEF ClientScript
    <2>4. EndsAt(f)
        BY <1>7, <2>1, <2>3 DEF EndsAt
    <2>5. s.ints # <<>> => p.at = "comm"
        BY <1>6, <1>7, <2>1, <2>3
    <2>6. ASSUME s.ints # <<>> PROVE (f = "reauth" /\ Interactive(setting)) =>
                                        (world.loaded \/ s.ints[Len(s.ints)] = "autoload")
        <3>1. o = "add" => s.ints = <<>> \/ f # "reauth"
            <4>1. ASSUME o = "add" PROVE s.ints = <<>> \/ s.final = <<"ok">>
                <5>1. s \in addScripts
                    BY <4>1 DEF Scripts
                <5> QED BY <5>1 DEF addScripts, Script
            <4> QED BY <2>3, <4>1
        <3> QED BY <2>3, <2>6, <3>1
    <2>7. s.ints # <<>> => Pends(s.ints, f, world)
        BY <2>3, <2>4, <2>5, <2>6 DEF Pends
    <2>8. s.ints = <<>> => (f = "reauth" /\ Interactive(setting) => world.loaded \/ o = "add")
        BY <2>3
    <2> QED BY <1>1, <1>3, <1>4, <2>3, <2>4, <2>7, <2>8, ProceedStep DEF oidcd_main, PipeInv
<1>8. CASE p.at \in {"gen", "lookup", "poll"}
    <2>1. PICK f \in {"err", "url", "device", "config", "pending"} :
            /\ s.final = <<f>> /\ EndsAt(f)
            /\ s.ints = <<>> \/ (s.ints = <<"upd_issuer">> /\ f = "config" /\ p.at # "gen")
        <3>1. CASE p.at = "gen"
            <4>1. PICK f \in {"err", "url", "device"} : s = Script(<<>>, f)
                BY <1>1, <3>1, ProxyScripts DEF RequestAt
            <4> QED BY <3>1, <4>1 DEF Script, EndsAt
        <3>2. CASE p.at = "lookup"
            <4>1. o = "statelookup"
                BY <1>1, <3>2 DEF RequestAt
            <4>2. s = Script(<<>>, "err") \/ s = Script(<<"upd_issuer">>, "config")
                BY <4>1, ProxyScripts
            <4> QED BY <3>2, <4>2 DEF Script, EndsAt
        <3>3. CASE p.at = "poll"
            <4>1. o = "devicelookup"
                BY <1>1, <3>3 DEF RequestAt
            <4>2. s \in {Script(<<>>, "err"), Script(<<>>, "pending"), Script(<<"upd_issuer">>, "config")}
                BY <4>1, ProxyScripts
            <4> QED BY <3>3, <4>2 DEF Script, EndsAt
        <3> QED BY <1>8, <3>1, <3>2, <3>3
    <2>2. s.ints # <<>> => Pends(s.ints, f, world)
        BY <1>8, <2>1 DEF Pends
    <2>3. f \in Finals \cup {"autogen"} /\ f # "reauth"
        BY DEF Finals
    <2>4. Proceed(o, Who, s.ints, <<f>>, world) /\ world \in Worlds
        BY <1>3, <2>1 DEF PipeInv
    <2>5. toD' = <<>> /\ UNCHANGED <<client, p, keys, got, setting>>
        BY DEF oidcd_main
    <2> QED BY <1>1, <1>4, <2>1, <2>2, <2>3, <2>4, <2>5, ProceedStep
<1> QED BY <1>1, <1>7, <1>8 DEF RequestAt

\* A handler reads the answer to its internal request.
LEMMA AnswerStep ==
    ASSUME Sober, PipeInv, ipc_communicateThroughPipe, UNCHANGED setting
    PROVE  PipeInv'
<1>1. toP = <<>> /\ HandlerAt /\ p.at \notin {"accept", "wait", "exited"}
    BY DEF PipeInv, Conversation, AtRest, Request, Question, Reply, Response, HandlerAt, Orphaned,
           ipc_communicateThroughPipe, IdleD
<1>2. PICK f \in Finals \cup {"autogen"} : d.final = <<f>> /\ Pends(d.rest, f, world) /\ d.id = Who
    BY <1>1 DEF HandlerAt
<1>3. world \in Worlds
    BY <1>1 DEF PipeInv, Message
<1>4. EndsAt(f)
    BY <1>2 DEF Pends, EndsAt
<1>5. toD' = <<>> /\ UNCHANGED <<client, p, keys, got, setting>>
    BY DEF ipc_communicateThroughPipe
<1>6. CASE Refuses(Head(toD), Head(d.rest))
    <2>1. Proceed(d.on, d.id, <<>>, Refusal(d.final), world)
        BY <1>6 DEF ipc_communicateThroughPipe
    <2>2. Refusal(d.final) = <<"err">>
        BY <1>2 DEF Refusal
    <2>3. EndsAt("err") /\ "err" \in Finals
        BY <1>2 DEF Pends, EndsAt, Finals
    <2>4. Proceed(d.on, Who, <<>>, <<"err">>, world)
        BY <1>2, <2>1, <2>2
    <2> QED BY <1>1, <1>3, <1>5, <2>3, <2>4, ProceedStep
<1>7. CASE ~Refuses(Head(toD), Head(d.rest))
    <2> DEFINE w == [world EXCEPT !.loaded = @ \/ (Head(d.rest) = "autoload" /\ Head(d.final) # "err")]
    <2>1. Proceed(d.on, Who, Tail(d.rest), <<f>>, w)
        BY <1>2, <1>7 DEF ipc_communicateThroughPipe
    <2>0. Head(d.final) = f
        BY <1>2
    <2>2. w \in Worlds /\ (world.loaded => w.loaded)
          /\ (Head(d.rest) = "autoload" /\ f # "err" => w.loaded)
        BY <1>3, <2>0 DEF Worlds
    <2> HIDE DEF w
    <2>3. CASE p.at = "comm"
        <3>1. /\ d.rest \in Seq(Internal \ {"autogen"}) /\ d.rest # <<>>
              /\ f = "reauth" /\ Interactive(setting) =>
                     world.loaded \/ d.rest[Len(d.rest)] = "autoload"
            BY <1>2, <2>3 DEF Pends
        <3>2. /\ Tail(d.rest) \in Seq(Internal \ {"autogen"})
              /\ Tail(d.rest) # <<>> => Tail(d.rest)[Len(Tail(d.rest))] = d.rest[Len(d.rest)]
              /\ Tail(d.rest) = <<>> => Head(d.rest) = d.rest[Len(d.rest)]
            BY <3>1, TailLast
        <3>3. Tail(d.rest) # <<>> => Pends(Tail(d.rest), f, w)
            BY <1>4, <2>2, <2>3, <3>1, <3>2 DEF Pends
        <3>4. Tail(d.rest) = <<>> => (f = "reauth" /\ Interactive(setting) => w.loaded)
            BY <2>2, <3>1, <3>2
        <3> QED BY <1>1, <1>4, <1>5, <2>1, <2>2, <3>3, <3>4, ProceedStep
    <2>4. CASE p.at \in {"lookup", "poll"}
        <3>0. d.rest = <<"upd_issuer">> /\ f = "config"
            BY <1>2, <2>4 DEF Pends
        <3>1. Tail(d.rest) = <<>> /\ f = "config"
            BY <3>0
        <3> QED BY <1>1, <1>4, <1>5, <2>1, <2>2, <3>1, ProceedStep
    <2> QED BY <1>2, <2>3, <2>4 DEF Pends
<1> QED BY <1>6, <1>7

LEMMA NoSecond == PipeInv => ~oidcd_second
BY DEF PipeInv, Conversation, AtRest, Request, Question, Reply, Response, HandlerAt, Orphaned,
       oidcd_second, IdleD
-----------------------------------------------------------------------------
(* The rest of the world                                                   *)

LEMMA ConversationKept ==
    ASSUME PipeInv, UNCHANGED <<p, d, toD, toP, setting>>,
           Interactive(setting) /\ world.loaded => world'.loaded
    PROVE  Conversation'
<1>1. Who' = Who /\ (p.at \notin {"accept", "comm", "exited"} => Interactive(setting))
    BY DEF Who, PipeInv, Serving
<1>2. ASSUME NEW o, RequestAt(o) PROVE RequestAt(o)'
    BY <1>1, <1>2 DEF RequestAt
<1>3. ASSUME NEW f, FinalAt(f) PROVE FinalAt(f)'
    BY <1>3 DEF FinalAt, EndsAt
<1>4. ASSUME HandlerAt PROVE HandlerAt'
    <2>1. PICK f \in Finals \cup {"autogen"} : d.final = <<f>> /\ Pends(d.rest, f, world)
        BY <1>4 DEF HandlerAt
    <2>2. Pends(d.rest, f, world)'
        BY <2>1 DEF Pends, EndsAt
    <2> QED BY <1>1, <1>4, <2>1, <2>2 DEF HandlerAt
<1>5. Request => Request'
    BY <1>1, <1>2 DEF Request, Message
<1>6. Question => Question'
    BY <1>1, <1>4 DEF Question, Message
<1>7. Reply => Reply'
    BY <1>4 DEF Reply, Message
<1>8. Response => Response'
    BY <1>1, <1>3 DEF Response, Message
<1>9. AtRest => AtRest'
    BY DEF AtRest
<1>10. Orphaned => Orphaned'
    BY DEF Orphaned, Message
<1> QED BY <1>5, <1>6, <1>7, <1>8, <1>9, <1>10 DEF PipeInv, Conversation

LEMMA ClientAsksStep ==
    ASSUME PipeInv, ClientAsks, UNCHANGED setting
    PROVE  PipeInv'
<1>1. PICK c \in Clients, op \in ClientOps :
          client[c] = "idle" /\ client' = [client EXCEPT ![c] = op]
    BY DEF ClientAsks
<1>2. Conversation'
    BY ConversationKept DEF ClientAsks
<1>3. client' \in [Clients -> ClientOps \cup {"idle"}] /\ \A e \in Clients \ {c} : client'[e] = client[e]
    BY <1>1 DEF PipeInv
<1>4. "idle" \notin ClientOps
    BY DEF ClientOps
<1>5. Serving'
    BY <1>1, <1>3, <1>4 DEF PipeInv, Serving, ClientAsks
<1>6. Keyed' /\ Served' /\ setting' \in Settings /\ world' \in Worlds
    BY DEF PipeInv, Keyed, KeyOf, Message, Served, ClientAsks
<1> QED BY <1>2, <1>3, <1>5, <1>6 DEF PipeInv

\* The account, as the world has it, changes in no way that matters here.
LEMMA WorldStep ==
    ASSUME PipeInv, UNCHANGED <<client, p, keys, d, toD, toP, got, setting>>,
           world' \in Worlds,
           Interactive(setting) /\ world.loaded => world'.loaded
    PROVE  PipeInv'
<1>1. Conversation'
    BY ConversationKept
<1>2. Serving' /\ Keyed' /\ Served'
    BY DEF PipeInv, Serving, Keyed, KeyOf, Message, Served
<1> QED BY <1>1, <1>2 DEF PipeInv

LEMMA DieStep ==
    ASSUME Sober, PipeInv, Die, UNCHANGED setting
    PROVE  PipeInv'
<1>1. ~Interactive(setting) /\ p.at \in {"accept", "comm", "exited"}
    BY Undisturbing DEF PipeInv, Serving, Die
<1>2. toP = <<>> \/ (p.at = "comm" /\ \E o \in Finals \cup (Internal \ {"autogen"}) : toP = Message(o, p.cur))
    <2>1. CASE Question
        <3>1. PICK f \in Finals \cup {"autogen"} : Pends(d.rest, f, world)
            BY <2>1 DEF Question, HandlerAt
        <3>2. p.at = "comm" /\ d.rest \in Seq(Internal \ {"autogen"}) /\ d.rest # <<>>
            BY <1>1, <3>1 DEF Pends
        <3>3. Head(d.rest) \in Internal \ {"autogen"}
            BY <3>2
        <3> QED BY <2>1, <3>2, <3>3 DEF Question, Who
    <2>2. CASE Response
        <3>1. PICK o \in Finals \cup {"autogen"} : toP = Message(o, Who) /\ FinalAt(o)
            BY <2>2 DEF Response
        <3>2. o # "autogen" /\ p.at = "comm"
            BY <1>1, <3>1 DEF FinalAt, EndsAt, Interactive
        <3> QED BY <3>1, <3>2 DEF Who
    <2> QED BY <2>1, <2>2 DEF PipeInv, Conversation, AtRest, Request, Reply, Orphaned
<1>3. d'.at = "dead"
    BY DEF Die, IdleD
<1>4. Orphaned'
    BY <1>1, <1>2, <1>3 DEF Orphaned, Message, Die
<1>5. Serving' /\ Keyed' /\ Served'
    BY DEF PipeInv, Serving, Keyed, KeyOf, Message, Served, Die
<1> QED BY <1>4, <1>5 DEF PipeInv, Conversation, Die

LEMMA EnvironmentStep ==
    ASSUME Sober, PipeInv, environment
    PROVE  PipeInv'
<1>1. CASE Revoke
    <2>1. world' \in Worlds /\ world'.loaded = world.loaded
        BY <1>1 DEF PipeInv, Worlds, Revoke
    <2> QED BY <1>1, <2>1, WorldStep DEF environment, Revoke
<1>2. CASE Expire
    <2>1. world' \in Worlds
        BY <1>2 DEF PipeInv, Worlds, Expire
    <2>2. ~Interactive(setting)
        BY <1>2, Undisturbing DEF PipeInv, Expire
    <2> QED BY <1>2, <2>1, <2>2, WorldStep DEF environment, Expire
<1> QED BY <1>1, <1>2, ClientAsksStep, DieStep DEF environment
-----------------------------------------------------------------------------
(* oidcp                                                                   *)

\* A step gives at most one response, to a client that waits for it.
Writes ==
    \/ UNCHANGED <<client, got>>
    \/ \E c \in Clients, r \in Finals, k \in Clients \cup {NULL} :
          /\ client[c] \in ClientOps
          /\ client' = [client EXCEPT ![c] = "idle"]
          /\ got' = [to |-> c, of |-> c, op |-> r, key |-> k]

\* What oidcp reads: a response, a question, or what oidcd left behind.
Heard(m) ==
    /\ m.id = Who /\ toP' = <<>>
    /\ \/ toD = <<>> /\ d = IdleD /\ m.op \in Finals \cup {"autogen"} /\ FinalAt(m.op)
       \/ /\ toD = <<>> /\ HandlerAt /\ m.op \in Internal \ {"autogen"}
          /\ p.at # "comm" => m.op = "upd_issuer" /\ p.at \in {"lookup", "poll"}
       \/ /\ d.at = "dead" /\ ~Interactive(setting) /\ p.at = "comm"
          /\ m.op \in Finals \cup (Internal \ {"autogen"})

LEMMA ReadStep ==
    ASSUME PipeInv, NEW m, Read(m), p.at \notin {"accept", "wait", "exited"}
    PROVE  Heard(m)
<1>1. toP # <<>> /\ m = Head(toP) /\ toP' = <<>>
    BY DEF Read
<1>3. CASE Response
    <2>1. PICK o \in Finals \cup {"autogen"} :
              toP = Message(o, Who) /\ toD = <<>> /\ d = IdleD /\ FinalAt(o)
        BY <1>3 DEF Response
    <2>2. m.op = o /\ m.id = Who
        BY <1>1, <2>1 DEF Message
    <2> QED BY <1>1, <2>1, <2>2 DEF Heard
<1>4. CASE Question
    <2>1. toP = Message(Head(d.rest), Who) /\ toD = <<>> /\ HandlerAt
        BY <1>4 DEF Question
    <2>2. m.op = Head(d.rest) /\ m.id = Who
        BY <1>1, <2>1 DEF Message
    <2>3. PICK f \in Finals \cup {"autogen"} : Pends(d.rest, f, world)
        BY <2>1 DEF HandlerAt
    <2>4. CASE p.at = "comm"
        <3>1. d.rest \in Seq(Internal \ {"autogen"}) /\ d.rest # <<>>
            BY <2>3, <2>4 DEF Pends
        <3>2. Head(d.rest) \in Internal \ {"autogen"}
            BY <3>1
        <3> QED BY <1>1, <2>1, <2>2, <2>4, <3>2 DEF Heard
    <2>5. CASE p.at # "comm"
        <3>1. p.at \in {"lookup", "poll"} /\ d.rest = <<"upd_issuer">>
            BY <2>3, <2>5 DEF Pends
        <3>2. Head(d.rest) = "upd_issuer" /\ "upd_issuer" \in Internal \ {"autogen"}
            BY <3>1 DEF Internal
        <3> QED BY <1>1, <2>1, <2>2, <3>1, <3>2 DEF Heard
    <2> QED BY <2>4, <2>5
<1>5. CASE Orphaned
    <2>1. PICK o \in Finals \cup (Internal \ {"autogen"}) : toP = Message(o, p.cur)
        BY <1>1, <1>5 DEF Orphaned
    <2>2. m.op = o /\ m.id = p.cur /\ p.at = "comm" /\ d.at = "dead" /\ ~Interactive(setting)
        BY <1>1, <1>5, <2>1 DEF Message, Orphaned
    <2> QED BY <1>1, <2>1, <2>2 DEF Heard, Who
<1> QED BY <1>1, <1>3, <1>4, <1>5 DEF PipeInv, Conversation, Request, Reply

\* The client that is served gets its response, and oidcp is back.
LEMMA RespondStep ==
    ASSUME PipeInv, p.at \notin {"accept", "exchange", "exited"},
           NEW m, m.id = p.cur, m.op \in Finals, Respond(m),
           UNCHANGED <<d, toD, world, setting>>, toP' = <<>>,
           (toD = <<>> /\ d = IdleD) \/ (d.at = "dead" /\ ~Interactive(setting))
    PROVE  PipeInv' /\ Writes
<1>1. p.cur \in Clients /\ client[p.cur] \in ClientOps /\ keys = KeyOf(p.cur)
    BY DEF PipeInv, Serving, Keyed
<1>2. /\ client' = [client EXCEPT ![p.cur] = "idle"] /\ p' = IdleP
      /\ got' = [to |-> p.cur, of |-> m.id, op |-> m.op, key |-> LastKey(keys)]
      /\ keys' = IF keys = <<>> THEN keys ELSE Front(keys)
    BY DEF Respond, server_ipc_write, WriteWith
<1>3. keys' = <<>> /\ LastKey(keys) = IF p.cur \in setting.plain THEN NULL ELSE p.cur
    <2>1. CASE keys = <<>>
        BY <1>1, <1>2, <2>1 DEF KeyOf, LastKey
    <2>2. CASE keys = <<p.cur>> /\ p.cur \notin setting.plain
        BY <1>2, <2>2 DEF Front, LastKey
    <2> QED BY <1>1, <2>1, <2>2 DEF KeyOf
<1>4. p'.at = "accept" /\ p'.err = "err" /\ p'.polls = 0 /\ p' = IdleP
    BY <1>2 DEF IdleP
<1>5. Conversation'
    BY <1>4 DEF Conversation, AtRest, Orphaned
<1>6. Serving'
    BY <1>4 DEF Serving, Places, IdleP
<1>7. Keyed'
    BY <1>3, <1>4 DEF Keyed
<1>8. Served'
    BY <1>2, <1>3 DEF Served
<1>9. client' \in [Clients -> ClientOps \cup {"idle"}]
    BY <1>1, <1>2 DEF PipeInv
<1>10. Writes
    BY <1>1, <1>2, <1>3 DEF Writes
<1> QED BY <1>5, <1>6, <1>7, <1>8, <1>9, <1>10 DEF PipeInv

\* oidcp asks oidcd for something, at another place or the same.
LEMMA AskStep ==
    ASSUME PipeInv, toD = <<>>, d = IdleD, UNCHANGED <<d, setting>>, toP' = <<>>,
           NEW o \in ClientOps \cup ProxyOps, NEW c, Ask(o, c), Who' = c, RequestAt(o)',
           world' \in Worlds
    PROVE  Conversation'
<1>1. toD' = Message(o, c)
    BY DEF Ask, Message
<1>2. Request'
    BY <1>1 DEF Request, Message
<1>3. p'.at \notin {"accept", "wait", "exited"}
    BY DEF RequestAt
<1> QED BY <1>2, <1>3 DEF Conversation

\* The request of oidcd is answered.
LEMMA ReplyStep ==
    ASSUME PipeInv, p.at \notin {"accept", "wait", "exited"},
           toD = <<>>, HandlerAt, NEW a \in Answers, Ask(a, p.cur),
           UNCHANGED <<client, p, keys, d, got, setting>>, toP' = <<>>,
           world' \in Worlds, world'.loaded = world.loaded
    PROVE  PipeInv' /\ Writes
<1>1. toD' = Message(a, p.cur)
    BY DEF Ask, Message
<1>2. HandlerAt'
    <2>1. PICK f \in Finals \cup {"autogen"} : d.final = <<f>> /\ Pends(d.rest, f, world)
        BY DEF HandlerAt
    <2>2. Pends(d.rest, f, world)'
        BY <2>1 DEF Pends, EndsAt
    <2> QED BY <2>1, <2>2 DEF HandlerAt, Who
<1>3. Reply'
    BY <1>1, <1>2 DEF Reply, Message
<1>4. Serving' /\ Keyed' /\ Served'
    BY DEF PipeInv, Serving, Keyed, KeyOf, Served
<1> QED BY <1>3, <1>4 DEF PipeInv, Conversation, Writes

LEMMA AcceptStep ==
    ASSUME PipeInv, handleClientComm, UNCHANGED setting
    PROVE  PipeInv' /\ Writes
<1>1. PICK c \in Clients :
          /\ client[c] # "idle" /\ Ask(client[c], c)
          /\ p' = [IdleP EXCEPT !.at = "comm", !.cur = c]
          /\ keys' = Pushed(c)
    BY DEF handleClientComm
<1>2. p.at = "accept" /\ keys = <<>> /\ UNCHANGED <<client, d, toP, world, got>>
    BY DEF handleClientComm, PipeInv, Keyed
<1>3. client[c] \in ClientOps
    BY <1>1 DEF PipeInv
<1>4. /\ p'.at = "comm" /\ p'.cur = c /\ p'.polls = 0 /\ p'.err = "err"
      /\ p' = [at |-> p'.at, cur |-> p'.cur, sub |-> p'.sub, polls |-> p'.polls, err |-> p'.err]
    BY <1>1 DEF IdleP
<1>5. keys' = KeyOf(c) /\ Keyed'
    BY <1>1, <1>2, <1>4 DEF Pushed, KeyOf, Keyed
<1>6. Serving'
    BY <1>2, <1>3, <1>4 DEF Serving, Places
<1>7. toP = <<>>
    BY <1>2 DEF PipeInv, Conversation, AtRest, Orphaned, Message
<1>8. Conversation'
    <2>1. CASE AtRest
        <3>1. Who' = c /\ RequestAt(client[c])'
            BY <1>2, <1>3, <1>4 DEF Who, RequestAt
        <3> QED BY <1>1, <1>2, <1>3, <1>7, <2>1, <3>1, AskStep DEF AtRest, PipeInv
    <2>2. CASE Orphaned
        BY <1>2, <1>4, <1>7, <2>2 DEF Orphaned, Conversation
    <2> QED BY <1>2, <2>1, <2>2 DEF PipeInv, Conversation
<1> QED BY <1>2, <1>5, <1>6, <1>7, <1>8 DEF PipeInv, Served, Writes

LEMMA CommStep ==
    ASSUME Sober, PipeInv, handleOidcdComm, UNCHANGED setting
    PROVE  PipeInv' /\ Writes
<1>1. PICK m \in Msg :
          /\ Read(m)
          /\ \/ AnswerInternal(m) \/ handleAutoGen(m) \/ doReauthenticate(m) \/ ForwardFinal(m)
    BY DEF handleOidcdComm
<1>2. p.at = "comm" /\ UNCHANGED d /\ Who = p.cur
    BY DEF handleOidcdComm, Who
<1>3. Heard(m) /\ toP' = <<>> /\ m.id = p.cur
    BY <1>1, <1>2, ReadStep DEF Heard
<1>4. p.cur \in Clients /\ client[p.cur] \in ClientOps /\ keys = KeyOf(p.cur)
    BY <1>2 DEF PipeInv, Serving, Keyed
<1>5. "upd_refresh" \notin Finals \cup {"autogen"} /\ Finals \cap Internal = {} /\ "err" \in Finals
      /\ "autogen" \notin Finals
    BY DEF Finals, Internal
<1>6. CASE AnswerInternal(m)
    <2>1. PICK a \in Replies(m.op) : Ask(a, p.cur)
        BY <1>6 DEF AnswerInternal
    <2>2. a \in Answers
        BY DEF Replies, Answers
    <2>3. world' \in Worlds /\ world'.loaded = world.loaded
        BY <1>3, <1>6 DEF AnswerInternal, PipeInv, Worlds
    <2>4. UNCHANGED <<client, p, keys, got>>
        BY <1>6 DEF AnswerInternal
    <2>5. CASE toD = <<>> /\ HandlerAt
        BY <1>2, <1>3, <2>1, <2>2, <2>3, <2>4, <2>5, ReplyStep
    <2>6. CASE d.at = "dead" /\ ~Interactive(setting)
        <3>1. Orphaned'
            BY <1>2, <1>3, <2>4, <2>6 DEF Orphaned
        <3>2. Serving' /\ Keyed' /\ Served'
            BY <2>3, <2>4 DEF PipeInv, Serving, Keyed, KeyOf, Served
        <3> QED BY <2>3, <2>4, <3>1, <3>2 DEF PipeInv, Conversation, Writes
    <2> QED BY <1>3, <1>5, <1>6, <2>5, <2>6 DEF Heard, AnswerInternal
<1>7. CASE handleAutoGen(m)
    <2>1. toD = <<>> /\ d = IdleD /\ setting.autogen /\ UNCHANGED world
        BY <1>3, <1>5, <1>7 DEF Heard, handleAutoGen, FinalAt, EndsAt
    <2>2. CASE Respond(ErrorFor(p.cur)) /\ UNCHANGED toD
        <3>1. ErrorFor(p.cur).id = p.cur /\ ErrorFor(p.cur).op = "err"
            BY DEF ErrorFor
        <3> QED BY <1>2, <1>3, <1>5, <2>1, <2>2, <3>1, RespondStep
    <2>3. CASE /\ Ask("gen", p.cur)
               /\ p' = [p EXCEPT !.at = "gen"] /\ UNCHANGED <<client, keys, got>>
        <3>1. /\ p'.at = "gen" /\ p'.cur = p.cur /\ p'.polls = p.polls /\ p'.err = p.err
              /\ p' = [at |-> p'.at, cur |-> p'.cur, sub |-> p'.sub, polls |-> p'.polls, err |-> p'.err]
            BY <2>3 DEF PipeInv, Serving
        <3>2. Who' = p.cur /\ RequestAt("gen")' /\ "gen" \in ClientOps \cup ProxyOps
            BY <3>1 DEF Who, RequestAt, ProxyOps
        <3>3. Conversation'
            BY <1>2, <1>3, <2>1, <2>3, <3>2, AskStep DEF PipeInv
        <3>4. Serving'
            BY <1>4, <2>1, <2>3, <3>1 DEF PipeInv, Serving, Places, Interactive
        <3>5. Keyed'
            BY <1>4, <2>3, <3>1 DEF Keyed, KeyOf
        <3> QED BY <2>1, <2>3, <3>3, <3>4, <3>5 DEF PipeInv, Served, Writes
    <2> QED BY <1>7, <2>2, <2>3 DEF handleAutoGen
<1>8. CASE doReauthenticate(m)
    <2>1. m.op = "reauth" /\ setting.autoReauth /\ Interactive(setting) /\ "reauth" \notin Internal
        BY <1>8 DEF doReauthenticate, Interactive, Internal
    <2>2. toD = <<>> /\ d = IdleD /\ world.loaded
        BY <1>3, <2>1 DEF Heard, FinalAt
    <2>3. /\ Ask("reauthenticate", p.cur) /\ p' = [p EXCEPT !.at = "gen", !.err = "reauth"]
          /\ UNCHANGED <<client, keys, world, got>>
        BY <1>8 DEF doReauthenticate
    <2>4. /\ p'.at = "gen" /\ p'.cur = p.cur /\ p'.polls = p.polls /\ p'.err = "reauth"
          /\ p' = [at |-> p'.at, cur |-> p'.cur, sub |-> p'.sub, polls |-> p'.polls, err |-> p'.err]
        BY <2>3 DEF PipeInv, Serving
    <2>5. /\ Who' = p.cur /\ RequestAt("reauthenticate")'
          /\ "reauthenticate" \in ClientOps \cup ProxyOps
        BY <2>2, <2>3, <2>4 DEF Who, RequestAt, ProxyOps
    <2>6. Conversation'
        BY <1>2, <1>3, <2>2, <2>3, <2>5, AskStep DEF PipeInv
    <2>7. Serving'
        BY <1>4, <2>1, <2>3, <2>4 DEF PipeInv, Serving, Places, Interactive
    <2>8. Keyed'
        BY <1>4, <2>3, <2>4 DEF Keyed, KeyOf
    <2> QED BY <2>3, <2>6, <2>7, <2>8 DEF PipeInv, Served, Writes
<1>9. CASE ForwardFinal(m)
    <2>1. m.op \notin Internal /\ Respond(m) /\ UNCHANGED <<toD, world>>
        BY <1>9 DEF ForwardFinal, IsFinal
    <2>2. "autogen" \in Internal /\ "upd_refresh" \in Internal
        BY DEF Internal
    <2>3. m.op \in Finals
        BY <1>3, <2>1, <2>2 DEF Heard
    <2>4. (toD = <<>> /\ d = IdleD) \/ (d.at = "dead" /\ ~Interactive(setting))
        BY <1>3, <2>1, <2>2 DEF Heard
    <2> QED BY <1>2, <1>3, <2>1, <2>3, <2>4, RespondStep
<1> QED BY <1>1, <1>6, <1>7, <1>8, <1>9

\* oidcp serves the same client at another of the places of a flow.
LEMMA MovedStep ==
    ASSUME PipeInv, Interactive(setting), p.at \notin {"accept", "exited"},
           NEW at \in {"gen", "wait", "lookup", "poll", "final"}, NEW sub, NEW n \in Nat,
           p' = [at |-> at, cur |-> p.cur, sub |-> sub, polls |-> n, err |-> p.err],
           client'[p.cur] = client[p.cur], keys' = KeyOf(p.cur), UNCHANGED setting
    PROVE  Serving' /\ Keyed' /\ Who' = p.cur /\ p'.at = at /\ p'.cur = p.cur
<1>1. /\ p'.at = at /\ p'.cur = p.cur /\ p'.polls = n /\ p'.err = p.err
      /\ p' = [at |-> p'.at, cur |-> p'.cur, sub |-> p'.sub, polls |-> p'.polls, err |-> p'.err]
    OBVIOUS
<1>2. Serving'
    BY <1>1 DEF PipeInv, Serving, Places
<1>3. Keyed'
    BY <1>1 DEF Keyed, KeyOf
<1> QED BY <1>1, <1>2, <1>3 DEF Who

LEMMA FailStep ==
    ASSUME PipeInv, p.at \in {"gen", "wait", "lookup", "poll"}, Fail,
           toD = <<>>, d = IdleD, toP' = <<>>,
           UNCHANGED <<d, toD, world, setting>>
    PROVE  PipeInv' /\ Writes
<1> DEFINE m == [op |-> p.err, id |-> p.cur]
<1>1. m.id = p.cur /\ m.op \in Finals /\ Respond(m)
    BY DEF PipeInv, Serving, Finals, Fail
<1> HIDE DEF m
<1> QED BY <1>1, RespondStep

LEMMA GenStep ==
    ASSUME PipeInv, _parseInternalGen, UNCHANGED setting
    PROVE  PipeInv' /\ Writes
<1>1. PICK m \in Msg :
          /\ Read(m)
          /\ \/ /\ m.op = "url"
                /\ p' = [p EXCEPT !.at = "wait"]
                /\ UNCHANGED <<client, keys, toD, world, got>>
             \/ /\ m.op = "device"
                /\ Ask("devicelookup", p.cur)
                /\ p' = [p EXCEPT !.at = "poll", !.polls = 1]
                /\ UNCHANGED <<client, keys, world, got>>
             \/ UpdateIssuer(m)
             \/ m.op \notin {"url", "device", "upd_issuer"} /\ Fail /\ UNCHANGED <<toD, world>>
    BY DEF _parseInternalGen
<1>2. p.at = "gen" /\ UNCHANGED d /\ Interactive(setting) /\ keys = KeyOf(p.cur)
    BY DEF _parseInternalGen, PipeInv, Serving, Keyed
<1>3. /\ toP' = <<>> /\ toD = <<>> /\ d = IdleD
      /\ m.op \in {"err", "url", "device"}
    <2>1. Heard(m)
        BY <1>1, <1>2, ReadStep
    <2> QED BY <1>2, <2>1 DEF Heard, FinalAt, EndsAt
<1>4. p = [at |-> p.at, cur |-> p.cur, sub |-> p.sub, polls |-> p.polls, err |-> p.err] /\ p.polls \in Nat
    BY DEF PipeInv, Serving
<1>5. CASE /\ p' = [p EXCEPT !.at = "wait"]
           /\ UNCHANGED <<client, keys, toD, world, got>>
    <2>1. p' = [at |-> "wait", cur |-> p.cur, sub |-> p.sub, polls |-> p.polls, err |-> p.err]
        BY <1>4, <1>5
    <2>2. Serving' /\ Keyed' /\ p'.at = "wait"
        BY <1>2, <1>4, <1>5, <2>1, MovedStep
    <2>3. Conversation'
        BY <1>2, <1>3, <1>5, <2>2 DEF Conversation, AtRest
    <2> QED BY <1>3, <1>5, <2>2, <2>3 DEF PipeInv, Served, Writes
<1>6. CASE /\ Ask("devicelookup", p.cur)
           /\ p' = [p EXCEPT !.at = "poll", !.polls = 1]
           /\ UNCHANGED <<client, keys, world, got>>
    <2>1. p' = [at |-> "poll", cur |-> p.cur, sub |-> p.sub, polls |-> 1, err |-> p.err]
        BY <1>4, <1>6
    <2>2. Serving' /\ Keyed' /\ p'.at = "poll" /\ Who' = p.cur
        BY <1>2, <1>4, <1>6, <2>1, MovedStep
    <2>3. RequestAt("devicelookup")' /\ "devicelookup" \in ClientOps \cup ProxyOps
        BY <2>2 DEF RequestAt, ProxyOps
    <2>4. Conversation'
        BY <1>2, <1>3, <1>6, <2>2, <2>3, AskStep DEF PipeInv
    <2> QED BY <1>6, <2>2, <2>4 DEF PipeInv, Served, Writes
<1>7. CASE Fail /\ UNCHANGED <<toD, world>>
    BY <1>2, <1>3, <1>7, FailStep
<1> QED BY <1>1, <1>3, <1>5, <1>6, <1>7 DEF UpdateIssuer

LEMMA TimeoutStep ==
    ASSUME PipeInv, redirectTimeout, UNCHANGED setting
    PROVE  PipeInv' /\ Writes
<1>1. p.at = "wait" /\ Fail /\ UNCHANGED <<d, toD, toP, world>>
    BY DEF redirectTimeout
<1>2. toD = <<>> /\ toP = <<>> /\ d = IdleD
    BY <1>1 DEF PipeInv, Conversation, AtRest, Orphaned
<1> QED BY <1>1, <1>2, FailStep

LEMMA FinalStep ==
    ASSUME PipeInv, finalResponse, UNCHANGED setting
    PROVE  PipeInv' /\ Writes
<1>1. PICK m \in Msg : Read(m) /\ Respond(m)
    BY DEF finalResponse
<1>2. p.at = "final" /\ UNCHANGED <<d, toD, world>> /\ Who = p.cur
    BY DEF finalResponse, Who
<1>3. Heard(m)
    BY <1>1, <1>2, ReadStep
<1>4. m.op \in Finals /\ toD = <<>> /\ d = IdleD /\ toP' = <<>> /\ m.id = p.cur
    BY <1>2, <1>3 DEF Heard, FinalAt, EndsAt
<1> QED BY <1>1, <1>2, <1>4, RespondStep

LEMMA DiedStep ==
    ASSUME PipeInv, oidcdDied, UNCHANGED setting
    PROVE  PipeInv' /\ Writes
<1>1. d.at = "dead" /\ toP = <<>> /\ UNCHANGED <<d, toD, toP, world>>
    BY DEF oidcdDied
<1>2. Orphaned
    BY <1>1 DEF PipeInv, Conversation, AtRest, Request, Question, Reply, Response, HandlerAt, IdleD
<1>3. p.at = "comm" /\ server_ipc_write(p.cur, ErrorFor(p.cur)) /\ Exit
    BY <1>2 DEF oidcdDied, Orphaned
<1>4. p.cur \in Clients /\ client[p.cur] \in ClientOps /\ keys = KeyOf(p.cur)
    BY <1>3 DEF PipeInv, Serving, Keyed
<1>5. /\ client' = [client EXCEPT ![p.cur] = "idle"]
      /\ got' = [to |-> p.cur, of |-> p.cur, op |-> "err", key |-> LastKey(keys)]
    BY <1>3 DEF server_ipc_write, WriteWith, ErrorFor
<1>6. LastKey(keys) = IF p.cur \in setting.plain THEN NULL ELSE p.cur
    BY <1>4 DEF KeyOf, LastKey
<1>7. Serving' /\ Keyed' /\ p'.at = "exited"
    BY <1>3 DEF Exit, IdleP, Serving, Places, Keyed
<1>8. Conversation'
    BY <1>1, <1>2, <1>7 DEF Conversation, Orphaned
<1>9. Served' /\ Writes
    BY <1>4, <1>5, <1>6 DEF Served, Writes, Finals
<1>10. client' \in [Clients -> ClientOps \cup {"idle"}]
    BY <1>1, <1>5 DEF PipeInv, Message
<1> QED BY <1>1, <1>7, <1>8, <1>9, <1>10 DEF PipeInv

LEMMA WaitStep ==
    ASSUME Sober, PipeInv, _waitForCodeExchangeRequest, UNCHANGED setting
    PROVE  PipeInv' /\ Writes
<1>1. PICK c \in Clients \ {p.cur} :
          \/ /\ client[c] = "exchange"
             /\ Ask("exchange", c)
             /\ p' = [p EXCEPT !.at = "exchange", !.sub = c]
             /\ keys' = Pushed(c)
             /\ UNCHANGED <<client, got>>
          \/ /\ client[c] \notin {"exchange", "idle"}
             /\ WriteWith(Pushed(c), c, ErrorFor(c))
             /\ UNCHANGED <<p, toD>>
    BY DEF _waitForCodeExchangeRequest
<1>2. p.at = "wait" /\ UNCHANGED <<d, toP, world>> /\ Interactive(setting)
    BY DEF _waitForCodeExchangeRequest, PipeInv, Serving
<1>3. toD = <<>> /\ toP = <<>> /\ d = IdleD
    BY <1>2 DEF PipeInv, Conversation, AtRest, Orphaned, Message
<1>4. p.cur \in Clients /\ client[p.cur] \in ClientOps /\ setting.plain = {}
    BY <1>2, Undisturbing DEF PipeInv, Serving
<1>5. keys = <<p.cur>> /\ Pushed(c) = Append(<<p.cur>>, c)
    BY <1>2, <1>4 DEF PipeInv, Keyed, KeyOf, Pushed
<1>6. /\ Pushed(c) \in Seq(Clients) /\ Len(Pushed(c)) = 2 /\ Pushed(c) # <<>>
      /\ Pushed(c)[1] = p.cur /\ Pushed(c)[2] = c
    BY <1>4, <1>5
<1>7. CASE /\ client[c] = "exchange"
           /\ Ask("exchange", c)
           /\ p' = [p EXCEPT !.at = "exchange", !.sub = c]
           /\ keys' = Pushed(c)
           /\ UNCHANGED <<client, got>>
    <2>1. /\ p'.at = "exchange" /\ p'.cur = p.cur /\ p'.sub = c /\ p'.polls = p.polls /\ p'.err = p.err
          /\ p' = [at |-> p'.at, cur |-> p'.cur, sub |-> p'.sub, polls |-> p'.polls, err |-> p'.err]
        BY <1>7 DEF PipeInv, Serving
    <2>2. Serving'
        BY <1>2, <1>4, <1>7, <2>1 DEF PipeInv, Serving, Places, ClientOps
    <2>3. Keyed'
        BY <1>6, <1>7, <2>1 DEF Keyed
    <2>4. Who' = c /\ RequestAt("exchange")' /\ "exchange" \in ClientOps \cup ProxyOps
        BY <2>1 DEF Who, RequestAt, ClientOps
    <2>5. Conversation'
        BY <1>2, <1>3, <1>7, <2>4, AskStep DEF PipeInv
    <2> QED BY <1>2, <1>7, <2>2, <2>3, <2>5 DEF PipeInv, Served, Writes
<1>8. CASE /\ client[c] \notin {"exchange", "idle"}
           /\ WriteWith(Pushed(c), c, ErrorFor(c))
           /\ UNCHANGED <<p, toD>>
    <2>1. /\ client' = [client EXCEPT ![c] = "idle"]
          /\ got' = [to |-> c, of |-> c, op |-> "err", key |-> c]
          /\ keys' = Front(Pushed(c))
        BY <1>6, <1>8 DEF WriteWith, ErrorFor, LastKey
    <2>2. Front(Pushed(c)) = <<p.cur>>
        <3>1. /\ Front(Pushed(c)) \in Seq(Clients) /\ Len(Front(Pushed(c))) = 1
              /\ Front(Pushed(c))[1] = p.cur
            BY <1>6 DEF Front
        <3> QED BY <1>4, <3>1
    <2>3. /\ client' \in [Clients -> ClientOps \cup {"idle"}] /\ client'[p.cur] = client[p.cur]
          /\ client[c] \in ClientOps
        BY <1>4, <1>8, <2>1 DEF PipeInv
    <2>4. Serving'
        BY <1>2, <1>8, <2>3 DEF PipeInv, Serving
    <2>5. Keyed'
        BY <1>2, <1>5, <1>8, <2>1, <2>2 DEF PipeInv, Keyed, KeyOf
    <2>6. Conversation'
        BY <1>2, <1>3, <1>8 DEF Conversation, AtRest
    <2>7. Served' /\ Writes
        BY <1>4, <2>1, <2>3 DEF Served, Writes, Finals
    <2> QED BY <1>2, <2>3, <2>4, <2>5, <2>6, <2>7 DEF PipeInv
<1> QED BY <1>1, <1>7, <1>8

LEMMA ExchangeStep ==
    ASSUME Sober, PipeInv, forwardExchange, UNCHANGED setting
    PROVE  PipeInv' /\ Writes
<1>1. PICK m \in Msg :
          /\ Read(m)
          /\ server_ipc_write(p.sub, m)
          /\ \/ /\ Ask("statelookup", p.cur)
                /\ p' = [p EXCEPT !.at = "lookup", !.sub = NULL]
             \/ /\ m.op = "err"
                /\ p' = [p EXCEPT !.at = "wait", !.sub = NULL]
                /\ UNCHANGED toD
    BY DEF forwardExchange
<1>2. p.at = "exchange" /\ UNCHANGED <<d, world>> /\ Who = p.sub /\ Interactive(setting)
    BY DEF forwardExchange, Who, PipeInv, Serving
<1>3. Heard(m)
    BY <1>1, <1>2, ReadStep
<1>4. /\ toP' = <<>> /\ toD = <<>> /\ d = IdleD /\ m.op \in {"err", "config"} /\ m.id = p.sub
     
    BY <1>2, <1>3 DEF Heard, FinalAt, EndsAt
<1>5. /\ p.cur \in Clients /\ client[p.cur] \in ClientOps /\ setting.plain = {}
      /\ p.sub \in Clients \ {p.cur} /\ client[p.sub] \in ClientOps
    BY <1>2, Undisturbing DEF PipeInv, Serving
<1>6. keys \in Seq(Clients) /\ Len(keys) = 2 /\ keys # <<>> /\ keys[1] = p.cur /\ keys[2] = p.sub
    <2>1. keys \in Seq(Clients) /\ Len(keys) = 2 /\ keys[1] = p.cur /\ keys[2] = p.sub
        BY <1>2 DEF PipeInv, Keyed
    <2>2. Len(<<>>) # 2
        OBVIOUS
    <2>3. keys # <<>>
        BY <2>1, <2>2, Zenon
    <2> QED BY <2>1, <2>3
<1>7. /\ client' = [client EXCEPT ![p.sub] = "idle"]
      /\ got' = [to |-> p.sub, of |-> p.sub, op |-> m.op, key |-> p.sub]
      /\ keys' = Front(keys)
    BY <1>1, <1>4, <1>6 DEF server_ipc_write, WriteWith, LastKey
<1>8. keys' = KeyOf(p.cur)
    <2>1. Front(keys) \in Seq(Clients) /\ Len(Front(keys)) = 1 /\ Front(keys)[1] = p.cur
        BY <1>6 DEF Front
    <2>2. Front(keys) = <<p.cur>>
        BY <1>5, <2>1
    <2> QED BY <1>5, <1>7, <2>2 DEF KeyOf
<1>9. client' \in [Clients -> ClientOps \cup {"idle"}] /\ client'[p.cur] = client[p.cur]
    BY <1>5, <1>7 DEF PipeInv
<1>10. Served' /\ Writes
    BY <1>4, <1>5, <1>7 DEF Served, Writes, Finals
<1>11. p = [at |-> p.at, cur |-> p.cur, sub |-> p.sub, polls |-> p.polls, err |-> p.err] /\ p.polls \in Nat
    BY DEF PipeInv, Serving
<1>12. CASE /\ Ask("statelookup", p.cur)
            /\ p' = [p EXCEPT !.at = "lookup", !.sub = NULL]
    <2>1. p' = [at |-> "lookup", cur |-> p.cur, sub |-> NULL, polls |-> p.polls, err |-> p.err]
        BY <1>11, <1>12
    <2>2. Serving' /\ Keyed' /\ p'.at = "lookup" /\ Who' = p.cur
        BY <1>2, <1>8, <1>9, <1>11, <2>1, MovedStep
    <2>3. RequestAt("statelookup")' /\ "statelookup" \in ClientOps \cup ProxyOps
        BY <2>2 DEF RequestAt, ProxyOps
    <2>4. Conversation'
        BY <1>2, <1>4, <1>12, <2>2, <2>3, AskStep DEF PipeInv
    <2> QED BY <1>2, <1>9, <1>10, <2>2, <2>4 DEF PipeInv
<1>13. CASE /\ p' = [p EXCEPT !.at = "wait", !.sub = NULL]
            /\ UNCHANGED toD
    <2>1. p' = [at |-> "wait", cur |-> p.cur, sub |-> NULL, polls |-> p.polls, err |-> p.err]
        BY <1>11, <1>13
    <2>2. Serving' /\ Keyed' /\ p'.at = "wait"
        BY <1>2, <1>8, <1>9, <1>11, <2>1, MovedStep
    <2>3. Conversation'
        BY <1>2, <1>4, <1>13, <2>2 DEF Conversation, AtRest
    <2> QED BY <1>2, <1>9, <1>10, <2>2, <2>3 DEF PipeInv
<1> QED BY <1>1, <1>12, <1>13

\* The end of a flow: the three ways on that both flows share.
LEMMA FlowStep ==
    ASSUME Sober, PipeInv, p.at \in {"lookup", "poll"}, NEW m, Read(m), UNCHANGED <<d, setting>>,
           \/ SaveAndResend(m)
           \/ UpdateIssuer(m)
           \/ m.op \notin {"config", "upd_issuer"} /\ Fail /\ UNCHANGED <<toD, world>>
    PROVE  PipeInv' /\ Writes
<1>1. Interactive(setting) /\ keys = KeyOf(p.cur) /\ client[p.cur] \in ClientOps
    BY DEF PipeInv, Serving, Keyed
<1>2. Heard(m) /\ toP' = <<>>
    BY ReadStep DEF Heard
<1>3. ASSUME m.op # "upd_issuer" PROVE toD = <<>> /\ d = IdleD /\ FinalAt(m.op)
    BY <1>1, <1>2, <1>3 DEF Heard, FinalAt, EndsAt
<1>4. CASE SaveAndResend(m)
    <2>1. m.op = "config" /\ toD = <<>> /\ d = IdleD /\ world.loaded
        BY <1>1, <1>3, <1>4 DEF SaveAndResend, FinalAt
    <2>2. CASE Fail /\ UNCHANGED <<toD, world>>
        BY <1>2, <2>1, <2>2, FailStep
    <2>3. CASE /\ world' = [world EXCEPT !.file = TRUE]
               /\ Ask(client[p.cur], p.cur)
               /\ p' = [p EXCEPT !.at = "final"]
               /\ UNCHANGED <<client, keys, got>>
        <3>1. p' = [at |-> "final", cur |-> p.cur, sub |-> p.sub, polls |-> p.polls, err |-> p.err]
              /\ p.polls \in Nat
            BY <2>3 DEF PipeInv, Serving
        <3>2. Serving' /\ Keyed' /\ p'.at = "final" /\ Who' = p.cur
            BY <1>1, <2>3, <3>1, MovedStep
        <3>3. world' \in Worlds /\ world'.loaded
            BY <2>1, <2>3 DEF PipeInv, Worlds
        <3>4. RequestAt(client[p.cur])'
            BY <1>1, <2>3, <3>2, <3>3, <3>1 DEF RequestAt
        <3>5. Conversation'
            <4> DEFINE o == client[p.cur]
            <4>1. Ask(o, p.cur) /\ o \in ClientOps \cup ProxyOps
                BY <1>1, <2>3
            <4>2. RequestAt(o)' /\ o' = o
                BY <3>4, <2>3, <3>1
            <4> HIDE DEF o
            <4> QED BY <1>2, <2>1, <3>2, <3>3, <4>1, <4>2, AskStep
        <3> QED BY <2>3, <3>2, <3>3, <3>5 DEF PipeInv, Served, Writes
    <2> QED BY <1>4, <2>2, <2>3 DEF SaveAndResend
<1>5. CASE UpdateIssuer(m)
    <2>1. m.op = "upd_issuer" /\ Ask("yes", p.cur) /\ UNCHANGED <<client, p, keys, world, got>>
        BY <1>5 DEF UpdateIssuer
    <2>2. toD = <<>> /\ HandlerAt
        BY <1>1, <1>2, <2>1 DEF Heard, Finals
    <2>3. "yes" \in Answers /\ world' \in Worlds
        BY <2>1 DEF Answers, PipeInv
    <2> QED BY <1>2, <2>1, <2>2, <2>3, ReplyStep
<1>6. CASE m.op \notin {"config", "upd_issuer"} /\ Fail /\ UNCHANGED <<toD, world>>
    BY <1>2, <1>3, <1>6, FailStep
<1> QED BY <1>4, <1>5, <1>6

LEMMA LookupStep ==
    ASSUME Sober, PipeInv, parseStateLookupRes, UNCHANGED setting
    PROVE  PipeInv' /\ Writes
BY FlowStep DEF parseStateLookupRes

LEMMA PollStep ==
    ASSUME Sober, PipeInv, _pollDeviceCode, UNCHANGED setting
    PROVE  PipeInv' /\ Writes
<1>1. PICK m \in Msg :
          /\ Read(m)
          /\ \/ SaveAndResend(m)
             \/ UpdateIssuer(m)
             \/ /\ m.op = "pending" /\ MorePolls
                /\ Ask("devicelookup", p.cur)
                /\ p' = [p EXCEPT !.polls = @ + 1]
                /\ UNCHANGED <<client, keys, world, got>>
             \/ m.op \notin {"config", "upd_issuer"} /\ Fail /\ UNCHANGED <<toD, world>>
    BY DEF _pollDeviceCode
<1>2. p.at = "poll" /\ UNCHANGED d /\ Interactive(setting) /\ keys = KeyOf(p.cur)
    BY DEF _pollDeviceCode, PipeInv, Serving, Keyed
<1>3. CASE /\ m.op = "pending"
           /\ Ask("devicelookup", p.cur)
           /\ p' = [p EXCEPT !.polls = @ + 1]
           /\ UNCHANGED <<client, keys, world, got>>
    <2>1. Heard(m)
        BY <1>1, <1>2, ReadStep
    <2>2. toP' = <<>> /\ toD = <<>> /\ d = IdleD
        BY <1>2, <1>3, <2>1 DEF Heard
    <2>3. /\ p' = [at |-> "poll", cur |-> p.cur, sub |-> p.sub, polls |-> p.polls + 1, err |-> p.err]
          /\ p.polls + 1 \in Nat
        BY <1>2, <1>3 DEF PipeInv, Serving
    <2>4. Serving' /\ Keyed' /\ p'.at = "poll" /\ Who' = p.cur
        BY <1>2, <1>3, <2>3, MovedStep
    <2>5. RequestAt("devicelookup")' /\ "devicelookup" \in ClientOps \cup ProxyOps
        BY <2>4 DEF RequestAt, ProxyOps
    <2>6. Conversation'
        BY <1>2, <1>3, <2>2, <2>4, <2>5, AskStep DEF PipeInv
    <2> QED BY <1>3, <2>4, <2>6 DEF PipeInv, Served, Writes
<1> QED BY <1>1, <1>2, <1>3, FlowStep
-----------------------------------------------------------------------------
(* The theorems                                                            *)

LEMMA PipeInit == Init => PipeInv
<1> SUFFICES ASSUME Init PROVE PipeInv
    OBVIOUS
<1>1. p = IdleP /\ p.at = "accept" /\ p.err = "err" /\ p.polls = 0
    BY DEF Init, IdleP
<1>2. Conversation
    BY <1>1 DEF Init, Conversation, AtRest
<1>3. Serving
    BY <1>1 DEF Serving, IdleP, Places
<1>4. Keyed
    BY <1>1 DEF Init, Keyed
<1>5. world \in Worlds
    BY DEF Init, Worlds
<1>6. Served
    BY <1>5 DEF Init, Served
<1>7. client \in [Clients -> ClientOps \cup {"idle"}] /\ setting \in Settings
    BY DEF Init
<1> QED BY <1>2, <1>3, <1>4, <1>5, <1>6, <1>7 DEF PipeInv

LEMMA ProxyStep ==
    ASSUME Sober, PipeInv, oidcp
    PROVE  PipeInv' /\ Writes
BY AcceptStep, CommStep, GenStep, WaitStep, TimeoutStep, ExchangeStep, LookupStep, PollStep,
   FinalStep, DiedStep DEF oidcp

LEMMA DaemonStep ==
    ASSUME Sober, PipeInv, oidcd
    PROVE  PipeInv'
BY MainStep, AnswerStep, NoSecond DEF oidcd

LEMMA PipeNext ==
    ASSUME Sober, PipeInv, [Next]_vars
    PROVE  PipeInv'
<1>1. CASE UNCHANGED vars
    <2>1. UNCHANGED <<client, p, keys, d, toD, toP, got, setting, world>>
        BY <1>1 DEF vars
    <2> QED BY <2>1, WorldStep DEF PipeInv
<1> QED BY <1>1, ProxyStep, DaemonStep, EnvironmentStep DEF Next

LEMMA PipeAlways == ASSUME Sober PROVE Spec => []PipeInv
<1>1. PipeInv /\ [Next]_vars => PipeInv'
    BY PipeNext
<1> QED BY <1>1, PipeInit, PTL DEF Spec

\* The two processes never lose step (ipc_communicateThroughPipe): whoever waits, waits for
\* the one message that is under way, so a response is never taken for the answer to an
\* internal request of oidcd, nor a request of another client for it.
THEOREM Synchronous == ASSUME Sober PROVE Spec => []InStep
<1>1. PipeInv => InStep
    <2> SUFFICES ASSUME PipeInv, d.at # "dead" PROVE InStep
        BY DEF InStep
    <2>1. CASE p.at \in {"accept", "wait"} /\ AtRest
        BY <2>1 DEF AtRest, InStep, IdleD
    <2>2. ASSUME p.at \notin {"accept", "wait", "exited"}, d.at # "second",
                 \/ toP = <<>> /\ \E m : toD = <<m>>
                 \/ toD = <<>> /\ \E m : toP = <<m>>
          PROVE  InStep
        <3>1. Len(toD) + Len(toP) + 0 = 1
            <4>1. CASE toP = <<>> /\ \E m : toD = <<m>>
                BY <4>1
            <4>2. CASE toD = <<>> /\ \E m : toP = <<m>>
                BY <4>2
            <4> QED BY <2>2, <4>1, <4>2
        <3> QED BY <2>2, <3>1 DEF InStep
    <2>3. CASE p.at \notin {"accept", "wait", "exited"} /\ (Request \/ Question \/ Reply \/ Response)
        BY <2>2, <2>3 DEF Request, Question, Reply, Response, HandlerAt, Message, IdleD
    <2> QED BY <2>1, <2>3 DEF PipeInv, Conversation, Orphaned
<1> QED BY <1>1, PipeAlways, PTL

\* encryptionKeys is a stack, and the key on its top is always the one of the client that
\* server_ipc_write is about to answer, also while another client waits for a redirect.
THEOREM Encrypted == ASSUME Sober PROVE Spec => []OwnKey
<1>1. PipeInv => OwnKey
    BY DEF PipeInv, Served, OwnKey
<1> QED BY <1>1, PipeAlways, PTL

\* oidcp and oidcd together are the service of AgentService: every step maps to a request of a
\* client, to one response to its own request, or to no step; and no response is a printed
\* null pointer, as oidcd does not die here while a request is sent again.
THEOREM Implementation == ASSUME Sober PROVE Spec => ImplementsService
<1>1. Init => Service!Init
    BY DEF Init, Service!Init
<1>2. PipeInv /\ [Next]_vars => [Service!Next]_<<client, [to |-> got.to, of |-> got.of, op |-> got.op]>>
    <2> SUFFICES ASSUME PipeInv, [Next]_vars
                 PROVE  Service!Next \/ UNCHANGED <<client, [to |-> got.to, of |-> got.of, op |-> got.op]>>
        OBVIOUS
    <2>1. CASE UNCHANGED <<client, got>>
        BY <2>1
    <2>2. CASE oidcp
        <3>1. SUFFICES ASSUME ~UNCHANGED <<client, got>> PROVE Service!Next
            BY <2>1
        <3>2. PICK c \in Clients, r \in Finals, k \in Clients \cup {NULL} :
                  /\ client[c] \in ClientOps
                  /\ client' = [client EXCEPT ![c] = "idle"]
                  /\ got' = [to |-> c, of |-> c, op |-> r, key |-> k]
            BY <2>2, <3>1, ProxyStep DEF Writes
        <3>3. client[c] # "idle"
            BY <3>2 DEF ClientOps
        <3>4. [to |-> got.to, of |-> got.of, op |-> got.op]' = [to |-> c, of |-> c, op |-> r]
            BY <3>2
        <3>5. Service!Answer(c, r)
            BY <3>2, <3>3, <3>4 DEF Service!Answer
        <3> QED BY <3>5 DEF Service!Next
    <2>3. CASE ClientAsks
        <3>1. PICK c \in Clients, op \in ClientOps :
                  client[c] = "idle" /\ client' = [client EXCEPT ![c] = op]
            BY <2>3 DEF ClientAsks
        <3>2. UNCHANGED got
            BY <2>3 DEF ClientAsks
        <3>3. Service!Request(c, op)
            BY <3>1, <3>2 DEF Service!Request
        <3> QED BY <3>3 DEF Service!Next
    <2>4. CASE oidcd
        BY <2>1, <2>4, NoSecond DEF oidcd, oidcd_main, ipc_communicateThroughPipe
    <2>5. CASE Revoke \/ Expire \/ Die
        BY <2>1, <2>5 DEF Revoke, Expire, Die
    <2>6. CASE UNCHANGED vars
        BY <2>1, <2>6 DEF vars
    <2> QED BY <2>2, <2>3, <2>4, <2>5, <2>6 DEF Next, environment
<1>3. Init => got.op # "null"
    BY DEF Init
<1>4. PipeInv /\ [Next]_vars /\ got.op # "null" => (got.op # "null")'
    <2> SUFFICES ASSUME PipeInv, [Next]_vars, got.op # "null" PROVE got'.op # "null"
        OBVIOUS
    <2>1. CASE UNCHANGED got
        BY <2>1
    <2>2. CASE oidcp
        BY <2>1, <2>2, ProxyStep DEF Writes, Finals
    <2>3. CASE environment
        BY <2>1, <2>3 DEF environment, ClientAsks, Revoke, Expire, Die
    <2>4. CASE oidcd
        BY <2>1, <2>4, NoSecond DEF oidcd, oidcd_main, ipc_communicateThroughPipe
    <2>5. CASE UNCHANGED vars
        BY <2>1, <2>5 DEF vars
    <2> QED BY <2>2, <2>3, <2>4, <2>5 DEF Next
<1>5. Spec => [](got.op # "null")
    BY <1>3, <1>4, PipeAlways, PTL DEF Spec
<1>6. got.op # "null" => (got.op = "null" => d.at = "dead")
    OBVIOUS
<1>7. Spec => [](got.op = "null" => d.at = "dead")
    BY <1>5, <1>6, PTL
<1> QED BY <1>1, <1>2, <1>7, PipeAlways, PTL DEF Spec, ImplementsService, Service!Spec
=============================================================================
