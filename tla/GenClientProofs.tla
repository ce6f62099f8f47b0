-------------------------- MODULE GenClientProofs --------------------------
(***************************************************************************)
(* oidc-gen leaves no web server behind and loses no token that counts,    *)
(* for any number of processes, accounts, authorizations and polls and for *)
(* every command line.                                                     *)
(***************************************************************************)
EXTENDS GenClient, WellFoundedInduction, TLAPS

\* gen[i] and flow[n] have the fields that the steps set.
Fields == {"pc", "name", "opt", "conf", "state", "polls", "noMerge", "new", "revoke", "polled"}
IsProc(g) == DOMAIN g = Fields
IsFlow(f) == f = [at |-> f.at, name |-> f.name, client |-> f.client]

Watching == {"sleep", "poll", "lookup"}

\* A process refers to authorizations that there were.  Unless it still waits
\* for one, the agent keeps no web server for it.
Tidy(g, auths, up) ==
    /\ IsProc(g)
    /\ g.state \in 0..auths /\ g.polled \in 0..auths
    /\ g.polled \notin up
    /\ IF g.pc \in Watching THEN g.state \in Auths ELSE g.state \notin up

\* An authorization that was handed out has no web server.
FlowTidy(f, n, auths, up) ==
    /\ IsFlow(f)
    /\ f.at # "none" => n <= auths
    /\ f.at = "taken" => n \notin up

Counts ==
    /\ count = [auth |-> count.auth, token |-> count.token, client |-> count.client, run |-> count.run]
    /\ count.auth \in Nat

ServerInv ==
    /\ gen = [i \in Procs |-> gen[i]]
    /\ \A i \in Procs : Tidy(gen[i], count.auth, servers)
    /\ flow = [n \in Auths |-> flow[n]]
    /\ \A n \in Auths : FlowTidy(flow[n], n, count.auth, servers)
    /\ Counts
    /\ servers \subseteq 1..count.auth
-----------------------------------------------------------------------------
(* One process moves on                                                    *)

\* The counters keep their shape, and only an authorization that is new can
\* get a new web server.
Calm ==
    /\ Counts' /\ count'.auth >= count.auth
    /\ servers' \subseteq servers \cup ((count.auth + 1)..count'.auth)
    /\ servers' \subseteq 1..count'.auth
    /\ flow' = [n \in Auths |-> flow'[n]]
    /\ \A n \in Auths : FlowTidy(flow'[n], n, count'.auth, servers')

LEMMA StaysTidy ==
    ASSUME ServerInv, Calm, NEW j \in Procs
    PROVE  Tidy(gen[j], count'.auth, servers')
<1>1. Tidy(gen[j], count.auth, servers) /\ count.auth \in Nat /\ count'.auth \in Nat
    BY DEF ServerInv, Counts, Calm
<1> QED BY <1>1 DEF Tidy, Calm

LEMMA OneProc ==
    ASSUME ServerInv, Calm, NEW i \in Procs, NEW g, Set(i, g), Tidy(g, count'.auth, servers')
    PROVE  ServerInv'
<1>1. \A j \in Procs : Tidy(gen'[j], count'.auth, servers')
    BY StaysTidy DEF Set, ServerInv
<1>2. gen' = [j \in Procs |-> gen'[j]]
    BY DEF Set, ServerInv
<1> QED BY <1>1, <1>2 DEF ServerInv, Calm

\* Neither the authorizations nor the servers change.
LEMMA CalmSame ==
    ASSUME ServerInv, UNCHANGED <<flow, servers>>, Counts', count'.auth = count.auth
    PROVE  Calm
BY DEF ServerInv, Calm, Counts

\* An authorization moves on; one that is handed out has no server.
LEMMA CalmFlow ==
    ASSUME ServerInv, Counts', count'.auth = count.auth, servers' \subseteq servers,
           NEW n, NEW at, at = "taken" => n \notin servers',
           \/ UNCHANGED flow
           \/ flow' = [flow EXCEPT ![n].at = at] /\ flow[n].at # "none"
    PROVE  Calm
<1>1. flow' = [k \in Auths |-> flow'[k]]
    BY DEF ServerInv
<1>2. ASSUME NEW k \in Auths PROVE FlowTidy(flow'[k], k, count.auth, servers')
    <2>1. FlowTidy(flow[k], k, count.auth, servers) /\ IsFlow(flow[k])
        BY DEF ServerInv, FlowTidy
    <2>2. \/ flow'[k] = flow[k]
          \/ /\ k = n /\ flow[k].at # "none"
             /\ flow'[k] = [at |-> at, name |-> flow[k].name, client |-> flow[k].client]
        BY <2>1 DEF ServerInv, IsFlow
    <2>3. CASE flow'[k] = flow[k]
        BY <2>1, <2>3 DEF FlowTidy
    <2>4. CASE /\ k = n /\ flow[k].at # "none"
               /\ flow'[k] = [at |-> at, name |-> flow[k].name, client |-> flow[k].client]
        <3>1. IsFlow(flow'[k]) /\ flow'[k].at = at
            BY <2>4 DEF IsFlow
        <3> QED BY <2>1, <2>4, <3>1 DEF FlowTidy
    <2> QED BY <2>2, <2>3, <2>4
<1>3. count.auth \in Nat /\ servers \subseteq 1..count.auth
    BY DEF ServerInv, Counts
<1> QED BY <1>1, <1>2, <1>3 DEF Calm

LEMMA TermServer ==
    ASSUME NEW n, termHttpServer(n)
    PROVE  servers' \subseteq servers /\ n \notin servers'
BY DEF termHttpServer

\* What a process becomes.
LEMMA EndTidy ==
    ASSUME ServerInv, Calm, NEW i \in Procs, NEW how, End(i, how),
           how \in Orderly => gen[i].state \notin servers'
    PROVE  ServerInv'
<1> DEFINE x == IF how \in Orderly THEN gen[i].state ELSE 0
           g == [Idle EXCEPT !.polled = x]
<1>1. IsProc(g) /\ g.pc = "idle" /\ g.state = 0 /\ g.polled = x
    BY DEF Idle, IsProc, Fields
<1>2. gen[i].state \in 0..count'.auth /\ count'.auth \in Nat
    BY StaysTidy DEF Tidy, Calm, Counts
<1>3. x \in 0..count'.auth /\ x \notin servers' /\ 0 \notin servers'
    BY <1>2 DEF Calm
<1>4. Set(i, g)
    BY DEF End
<1> HIDE DEF x
<1>5. Tidy(g, count'.auth, servers')
    BY <1>1, <1>2, <1>3 DEF Tidy, IsProc, Watching
<1> HIDE DEF g
<1> QED BY <1>4, <1>5, OneProc

\* A process that is just started, or goes on, and waits for nothing.
LEMMA BusyTidy ==
    ASSUME ServerInv, Calm, NEW i \in Procs, NEW g, Set(i, g), IsProc(g), g.pc \notin Watching,
           \/ g.state = 0 /\ g.polled = 0
           \/ g.state = gen[i].state /\ g.polled = gen[i].polled /\
                 (gen[i].pc \notin Watching \/ gen[i].state \notin servers')
    PROVE  ServerInv'
<1>1. count'.auth \in Nat /\ 0 \notin servers'
    BY DEF Calm, Counts
<1>2. Tidy(gen[i], count'.auth, servers')
    BY StaysTidy
<1>3. Tidy(g, count'.auth, servers')
    BY <1>1, <1>2 DEF Tidy
<1> QED BY <1>3, OneProc
-----------------------------------------------------------------------------
(* The steps                                                               *)

LEMMA CountRun == ASSUME ServerInv, Counted PROVE Counts' /\ count'.auth = count.auth
BY DEF ServerInv, Counts, Counted

LEMMA CountIssue ==
    ASSUME ServerInv, NEW name, NEW runs, Issue(name, runs)
    PROVE  Counts' /\ count'.auth = count.auth
BY DEF ServerInv, Counts, Issue

LEMMA ProcAt == ASSUME ServerInv, NEW i \in Procs PROVE IsProc(gen[i])
BY DEF ServerInv, Tidy

\* What is known of a process that is started.
New(g, pc, n) == IsProc(g) /\ g.pc = pc /\ g.state = n /\ g.polled = 0

LEMMA NewProc ==
    ASSUME NEW pc, NEW name, NEW o, NEW conf, NEW merge, NEW new, NEW n
    PROVE  /\ New([Idle EXCEPT !.pc = pc, !.name = name, !.opt = o, !.conf = conf], pc, 0)
           /\ New([Idle EXCEPT !.pc = pc, !.name = name, !.opt = o, !.noMerge = merge], pc, 0)
           /\ New([Idle EXCEPT !.pc = pc, !.name = name, !.opt = o, !.conf = conf, !.noMerge = merge], pc, 0)
           /\ New([Idle EXCEPT !.pc = pc, !.name = name, !.new = new, !.opt = o, !.conf = conf], pc, 0)
           /\ New([Idle EXCEPT !.pc = pc, !.name = name, !.opt = o, !.state = n], pc, n)
BY DEF New, Idle, IsProc, Fields

\* A process is started that waits for nothing.
LEMMA StartStep ==
    ASSUME ServerInv, NEW i \in Procs, Quiet, Counted, NEW pc, NEW name, NEW o, NEW conf, NEW merge, NEW new,
           pc \notin Watching,
           \/ Set(i, [Idle EXCEPT !.pc = pc, !.name = name, !.opt = o, !.conf = conf])
           \/ Set(i, [Idle EXCEPT !.pc = pc, !.name = name, !.opt = o, !.noMerge = merge])
           \/ Set(i, [Idle EXCEPT !.pc = pc, !.name = name, !.opt = o, !.conf = conf, !.noMerge = merge])
           \/ Set(i, [Idle EXCEPT !.pc = pc, !.name = name, !.new = new, !.opt = o, !.conf = conf])
    PROVE  ServerInv'
<1>1. Calm
    BY CountRun, CalmSame DEF Quiet, agent
<1>2. ASSUME NEW g, Set(i, g), New(g, pc, 0) PROVE ServerInv'
    BY <1>1, <1>2, BusyTidy DEF New
<1>3. CASE Set(i, [Idle EXCEPT !.pc = pc, !.name = name, !.opt = o, !.conf = conf])
    BY <1>2, <1>3, NewProc, Zenon
<1>4. CASE Set(i, [Idle EXCEPT !.pc = pc, !.name = name, !.opt = o, !.noMerge = merge])
    BY <1>2, <1>4, NewProc, Zenon
<1>5. CASE Set(i, [Idle EXCEPT !.pc = pc, !.name = name, !.opt = o, !.conf = conf, !.noMerge = merge])
    BY <1>2, <1>5, NewProc, Zenon
<1>6. CASE Set(i, [Idle EXCEPT !.pc = pc, !.name = name, !.new = new, !.opt = o, !.conf = conf])
    BY <1>2, <1>6, NewProc, Zenon
<1> QED BY <1>3, <1>4, <1>5, <1>6

LEMMA StartSteps ==
    ASSUME ServerInv, NEW i \in Procs, Start(i)
    PROVE  ServerInv'
<1>1. PICK o \in Options :
       \/ \E m \in Names :
             \/ registerClient(i, m, o) \/ manual_genNewAccount(i, m, o) \/ reauthenticate(i, m, o)
             \/ handleDelete(i, m, o)
             \/ \E new \in Names : gen_handleRename(i, m, new, o)
       \/ \E n \in Auths : stateLookUpWithConfigSave(i, n, o) \/ handleCodeExchange(i, n, o)
    BY DEF Start
<1>2. ASSUME NEW m \in Names, registerClient(i, m, o) PROVE ServerInv'
    <2>1. "gen" \notin Watching /\ "register" \notin Watching /\ "public" \notin Watching
        BY DEF Watching
    <2>2. Quiet /\ Counted
        BY <1>2 DEF registerClient
    <2>3. \/ Set(i, [Idle EXCEPT !.pc = "gen", !.name = m, !.opt = o, !.conf = Conf(0, tmp[tmpFile(m)], FALSE)])
          \/ Set(i, [Idle EXCEPT !.pc = "register", !.name = m, !.opt = o, !.noMerge = TRUE])
          \/ Set(i, [Idle EXCEPT !.pc = "public", !.name = m, !.opt = o, !.conf = NULL])
          \/ Set(i, [Idle EXCEPT !.pc = "register", !.name = m, !.opt = o, !.conf = NULL])
        BY <1>2 DEF registerClient, Begin
    <2> QED BY <2>1, <2>2, <2>3, StartStep
<1>3. ASSUME NEW m \in Names, manual_genNewAccount(i, m, o) PROVE ServerInv'
    <2>1. "gen" \notin Watching /\ Quiet /\ Counted
        BY <1>3 DEF Watching, manual_genNewAccount
    <2>2. PICK conf, merge :
              \/ Set(i, [Idle EXCEPT !.pc = "gen", !.name = m, !.opt = o, !.conf = conf])
              \/ Set(i, [Idle EXCEPT !.pc = "gen", !.name = m, !.opt = o, !.conf = conf, !.noMerge = merge])
        BY <1>3 DEF manual_genNewAccount, Begin
    <2> QED BY <2>1, <2>2, StartStep
<1>4. ASSUME NEW m \in Names, reauthenticate(i, m, o) PROVE ServerInv'
    <2>1. "gen" \notin Watching
        BY DEF Watching
    <2> QED BY <1>4, <2>1, StartStep DEF reauthenticate, Begin
<1>5. ASSUME NEW m \in Names, handleDelete(i, m, o) PROVE ServerInv'
    <2>1. "askClient" \notin Watching /\ "delete" \notin Watching
        BY DEF Watching
    <2>2. PICK pc \in {"askClient", "delete"} :
              Set(i, [Idle EXCEPT !.pc = pc, !.name = m, !.opt = o, !.conf = file[m]])
        BY <1>5 DEF handleDelete, Begin
    <2> QED BY <1>5, <2>1, <2>2, StartStep DEF handleDelete
<1>6. ASSUME NEW m \in Names, NEW new \in Names, gen_handleRename(i, m, new, o) PROVE ServerInv'
    <2>1. "save" \notin Watching
        BY DEF Watching
    <2> QED BY <1>6, <2>1, StartStep DEF gen_handleRename
<1>7. ASSUME NEW n \in Auths, stateLookUpWithConfigSave(i, n, o) PROVE ServerInv'
    <2>1. Calm
        BY <1>7, CountRun, CalmSame DEF stateLookUpWithConfigSave, Quiet, agent
    <2>2. PICK g : Set(i, g) /\ New(g, "lookup", n)
        BY <1>7, NewProc DEF stateLookUpWithConfigSave
    <2>3. n \in 1..count'.auth /\ count'.auth \in Nat /\ 0 \notin servers'
        <3>1. n <= count.auth /\ n \in Nat /\ n # 0
            BY <1>7 DEF stateLookUpWithConfigSave, ServerInv, FlowTidy, Auths
        <3> QED BY <2>1, <3>1 DEF Calm, Counts, ServerInv
    <2>4. Tidy(g, count'.auth, servers')
        BY <2>2, <2>3 DEF Tidy, Watching, New
    <2> QED BY <2>1, <2>2, <2>4, OneProc
<1>8. ASSUME NEW n \in Auths, handleCodeExchange(i, n, o) PROVE ServerInv'
    <2>1. /\ Issue(flow[n].name, 1) /\ flow' = [flow EXCEPT ![n].at = "taken"] /\ termHttpServer(n)
          /\ Set(i, [Idle EXCEPT !.pc = "save", !.name = flow[n].name, !.opt = o,
                                 !.conf = Conf(count.token + 1, flow[n].client, FALSE)])
          /\ flow[n].at # "none"
        BY <1>8 DEF handleCodeExchange, Begin
    <2>2. Counts' /\ count'.auth = count.auth /\ servers' \subseteq servers /\ n \notin servers'
        BY <2>1, CountIssue, TermServer
    <2>3. Calm
        BY <2>1, <2>2, CalmFlow
    <2>4. PICK g : Set(i, g) /\ New(g, "save", 0)
        <3> DEFINE g == [Idle EXCEPT !.pc = "save", !.name = flow[n].name, !.opt = o,
                                     !.conf = Conf(count.token + 1, flow[n].client, FALSE)]
        <3>1. Set(i, g) /\ New(g, "save", 0)
            BY <2>1 DEF New, Idle, IsProc, Fields
        <3> QED BY <3>1
    <2> QED BY <2>3, <2>4, BusyTidy DEF Watching, New
<1> QED BY <1>1, <1>2, <1>3, <1>4, <1>5, <1>6, <1>7, <1>8

\* A process that waited for nothing goes on so.
Same(g, h) == IsProc(g) /\ g.state = h.state /\ g.polled = h.polled

LEMMA GoesOn ==
    ASSUME ServerInv, Calm, NEW i \in Procs, NEW g, Set(i, g), Same(g, gen[i]),
           g.pc \notin Watching, gen[i].pc \notin Watching \/ gen[i].state \notin servers'
    PROVE  ServerInv'
BY BusyTidy DEF Same

LEMMA RegisterStep ==
    ASSUME ServerInv, NEW i \in Procs, handleRegister(i) \/ gen_handlePublicClient(i)
    PROVE  ServerInv'
<1>1. UNCHANGED <<flow, servers>> /\ Counts' /\ count'.auth = count.auth
    BY DEF handleRegister, gen_handlePublicClient, Quiet, agent, ServerInv, Counts
<1>2. Calm
    BY <1>1, CalmSame
<1>3. gen[i].pc \notin Watching /\ "gen" \notin Watching /\ "public" \notin Watching
    BY DEF handleRegister, gen_handlePublicClient, Watching
<1>4. \/ \E how \in {"scopes missing", "already loaded", "no public client"} : End(i, how)
      \/ \E x, y : Set(i, [gen[i] EXCEPT !.pc = "gen", !.noMerge = x, !.conf = y])
      \/ \E x : Set(i, [gen[i] EXCEPT !.pc = "gen", !.conf = x])
      \/ Set(i, [gen[i] EXCEPT !.pc = "public"])
    BY DEF handleRegister, gen_handlePublicClient
<1>5. CASE \E how \in {"scopes missing", "already loaded", "no public client"} : End(i, how)
    BY <1>2, <1>5, EndTidy DEF Orderly
<1>6. ASSUME NEW g, Set(i, g), Same(g, gen[i]), g.pc \in {"gen", "public"} PROVE ServerInv'
    BY <1>2, <1>3, <1>6, GoesOn
<1>7. IsProc(gen[i])
    BY ProcAt
<1>8. CASE \E x, y : Set(i, [gen[i] EXCEPT !.pc = "gen", !.noMerge = x, !.conf = y])
    <2>1. PICK x, y : Set(i, [gen[i] EXCEPT !.pc = "gen", !.noMerge = x, !.conf = y])
        BY <1>8
    <2> DEFINE g == [gen[i] EXCEPT !.pc = "gen", !.noMerge = x, !.conf = y]
    <2>2. Set(i, g)
        BY <2>1
    <2>3. Same(g, gen[i]) /\ g.pc = "gen"
        BY <1>7 DEF Same, IsProc, Fields
    <2> HIDE DEF g
    <2> QED BY <1>6, <2>2, <2>3
<1>9. CASE \E x : Set(i, [gen[i] EXCEPT !.pc = "gen", !.conf = x])
    <2>1. PICK x : Set(i, [gen[i] EXCEPT !.pc = "gen", !.conf = x])
        BY <1>9
    <2> DEFINE g == [gen[i] EXCEPT !.pc = "gen", !.conf = x]
    <2>2. Set(i, g)
        BY <2>1
    <2>3. Same(g, gen[i]) /\ g.pc = "gen"
        BY <1>7 DEF Same, IsProc, Fields
    <2> HIDE DEF g
    <2> QED BY <1>6, <2>2, <2>3
<1>10. CASE Set(i, [gen[i] EXCEPT !.pc = "public"])
    <2> DEFINE g == [gen[i] EXCEPT !.pc = "public"]
    <2>2. Set(i, g)
        BY <1>10
    <2>3. Same(g, gen[i]) /\ g.pc = "public"
        BY <1>7 DEF Same, IsProc, Fields
    <2> HIDE DEF g
    <2> QED BY <1>6, <2>2, <2>3
<1> QED BY <1>4, <1>5, <1>8, <1>9, <1>10

LEMMA GenStep ==
    ASSUME ServerInv, NEW i \in Procs, gen_response(i)
    PROVE  ServerInv'
<1>1. gen[i].pc = "gen" /\ gen[i].pc \notin Watching /\ "save" \notin Watching /\ IsProc(gen[i])
    BY ProcAt DEF gen_response, Watching
<1>2. CASE /\ Issue(gen[i].name, 0)
           /\ Set(i, [gen[i] EXCEPT !.pc = "save", !.conf.rt = count.token + 1])
           /\ UNCHANGED <<flow, server, servers>>
    <2>1. Calm
        BY <1>2, CountIssue, CalmSame
    <2> DEFINE g == [gen[i] EXCEPT !.pc = "save", !.conf.rt = count.token + 1]
    <2>2. Set(i, g)
        BY <1>2
    <2>3. Same(g, gen[i]) /\ g.pc = "save"
        BY <1>1 DEF Same, IsProc, Fields
    <2> HIDE DEF g
    <2> QED BY <1>1, <2>1, <2>2, <2>3, GoesOn
<1>3. CASE End(i, "error") /\ UNCHANGED <<flow, servers, count>>
    <2>1. Calm
        BY <1>3, CalmSame DEF ServerInv, Counts
    <2> QED BY <1>3, <2>1, EndTidy DEF Orderly
<1>4. ASSUME NEW n, n = count.auth + 1, count.auth < MaxAuth,
             count' = [count EXCEPT !.auth = n],
             flow' = [flow EXCEPT ![n] = [at |-> "waiting", name |-> gen[i].name, client |-> gen[i].conf.client]],
             \/ UNCHANGED <<server, servers>> /\ End(i, "no state lookup")
             \/ fireHttpServer(n) /\ Set(i, [gen[i] EXCEPT !.pc = "sleep", !.state = n])
      PROVE  ServerInv'
    <2>0. n = count.auth + 1 /\ count.auth < MaxAuth /\ count' = [count EXCEPT !.auth = n]
        BY <1>4
    <2>1. count.auth \in Nat /\ Counts' /\ count'.auth = n /\ servers \subseteq 1..count.auth
        BY <2>0 DEF ServerInv, Counts
    <2>2. servers' = servers \/ servers' = servers \cup {n}
        BY <1>4 DEF fireHttpServer
    <2>3. ASSUME NEW k \in Auths PROVE FlowTidy(flow'[k], k, n, servers')
        <3>1. FlowTidy(flow[k], k, count.auth, servers) /\ k \in Nat
            BY DEF ServerInv, Auths
        <3>2. CASE k = n
            <4>1. flow'[k] = [at |-> "waiting", name |-> gen[i].name, client |-> gen[i].conf.client]
                BY <1>4, <3>2 DEF ServerInv
            <4>2. IsFlow(flow'[k]) /\ flow'[k].at = "waiting"
                BY <4>1 DEF IsFlow
            <4> QED BY <2>1, <3>1, <3>2, <4>2 DEF FlowTidy
        <3>3. CASE k # n
            <4>1. flow'[k] = flow[k]
                BY <1>4, <3>3 DEF ServerInv
            <4> QED BY <2>0, <2>1, <2>2, <3>1, <3>3, <4>1 DEF FlowTidy
        <3> QED BY <3>2, <3>3
    <2>4. flow' = [k \in Auths |-> flow'[k]]
        BY <1>4 DEF ServerInv
    <2>5. Calm
        BY <2>0, <2>1, <2>2, <2>3, <2>4 DEF Calm
    <2>6. CASE End(i, "no state lookup")
        BY <2>5, <2>6, EndTidy DEF Orderly
    <2>7. CASE Set(i, [gen[i] EXCEPT !.pc = "sleep", !.state = n])
        <3> DEFINE g == [gen[i] EXCEPT !.pc = "sleep", !.state = n]
        <3>1. IsProc(g) /\ g.pc = "sleep" /\ g.state = n /\ g.polled = gen[i].polled
            BY <1>1 DEF IsProc, Fields
        <3>2. Set(i, g)
            BY <2>7
        <3> HIDE DEF g
        <3>3. n \in Auths /\ n \in 0..count'.auth
            BY <2>0, <2>1, GenClientAssumption DEF Auths
        <3>4. gen[i].polled \in 0..count'.auth /\ gen[i].polled \notin servers'
            BY <2>5, StaysTidy DEF Tidy
        <3>5. Tidy(g, count'.auth, servers')
            BY <3>1, <3>3, <3>4 DEF Tidy, Watching
        <3> QED BY <2>5, <3>2, <3>5, OneProc
    <2> QED BY <1>4, <2>6, <2>7
<1> QED BY <1>2, <1>3, <1>4 DEF gen_response

LEMMA SignalHandlerStep ==
    ASSUME ServerInv, NEW i \in Procs, registerSignalHandler(i)
    PROVE  ServerInv'
<1>1. Calm
    BY CalmSame DEF registerSignalHandler, Quiet, agent, ServerInv, Counts
<1> DEFINE g == [gen[i] EXCEPT !.pc = "poll"]
<1>2. Set(i, g)
    BY DEF registerSignalHandler
<1>3. IsProc(g) /\ g.pc = "poll" /\ g.state = gen[i].state /\ g.polled = gen[i].polled
    BY ProcAt DEF IsProc, Fields
<1> HIDE DEF g
<1>4. Tidy(gen[i], count'.auth, servers') /\ gen[i].pc = "sleep"
    BY <1>1, StaysTidy DEF registerSignalHandler
<1>5. Tidy(g, count'.auth, servers')
    BY <1>3, <1>4 DEF Tidy, Watching
<1> QED BY <1>1, <1>2, <1>5, OneProc

LEMMA LookUpStep ==
    ASSUME ServerInv, NEW i \in Procs, singleStateLookUp(i)
    PROVE  ServerInv'
<1>1. PICK n : n = gen[i].state
    OBVIOUS
<1>2. gen[i].pc \in {"poll", "lookup"} /\ UNCHANGED count /\ Counts' /\ count'.auth = count.auth
    BY DEF singleStateLookUp, Waits, ServerInv, Counts
<1>3. n \in Auths /\ IsProc(gen[i])
    BY <1>1, <1>2 DEF ServerInv, Tidy, Watching
<1>4. CASE /\ flow[n].at = "exchanged"
           /\ flow' = [flow EXCEPT ![n].at = "taken"] /\ termHttpServer(n)
           /\ Set(i, [gen[i] EXCEPT !.pc = "save", !.name = flow[n].name,
                                    !.conf = Conf(loaded[flow[n].name], flow[n].client, FALSE)])
    <2>1. servers' \subseteq servers /\ n \notin servers'
        BY <1>4, TermServer
    <2>2. Calm
        BY <1>2, <1>4, <2>1, CalmFlow
    <2> DEFINE g == [gen[i] EXCEPT !.pc = "save", !.name = flow[n].name,
                                   !.conf = Conf(loaded[flow[n].name], flow[n].client, FALSE)]
    <2>3. Set(i, g)
        BY <1>4
    <2>4. Same(g, gen[i]) /\ g.pc = "save"
        BY <1>3 DEF Same, IsProc, Fields
    <2> HIDE DEF g
    <2> QED BY <1>1, <2>1, <2>2, <2>3, <2>4, GoesOn DEF Watching
<1>5. CASE flow[n].at = "taken" /\ End(i, "found but done") /\ UNCHANGED <<flow, server, servers>>
    <2>1. Calm
        BY <1>2, <1>5, CalmSame
    <2>2. n \notin servers'
        BY <1>3, <1>5 DEF ServerInv, FlowTidy
    <2> QED BY <1>1, <1>5, <2>1, <2>2, EndTidy
<1>6. CASE Set(i, [gen[i] EXCEPT !.polls = @ + 1]) /\ UNCHANGED <<flow, server, servers>>
    <2>1. Calm
        BY <1>2, <1>6, CalmSame
    <2> DEFINE g == [gen[i] EXCEPT !.polls = @ + 1]
    <2>2. Set(i, g)
        BY <1>6
    <2>3. Same(g, gen[i]) /\ g.pc = gen[i].pc
        BY <1>3 DEF Same, IsProc, Fields
    <2> HIDE DEF g
    <2>4. Tidy(g, count'.auth, servers')
        BY <2>1, <2>3, StaysTidy DEF Tidy, Same
    <2> QED BY <2>1, <2>2, <2>4, OneProc
<1>7. CASE giveUp(i) /\ UNCHANGED flow
    <2>1. End(i, "gave up") /\ termHttpServer(n)
        BY <1>1, <1>7 DEF giveUp
    <2>2. servers' \subseteq servers /\ n \notin servers'
        BY <2>1, TermServer
    <2>3. Calm
        BY <1>2, <1>7, <2>2, CalmFlow
    <2> QED BY <1>1, <2>1, <2>2, <2>3, EndTidy
<1>8. CASE End(i, "error") /\ UNCHANGED <<flow, server, servers>>
    <2>1. Calm
        BY <1>2, <1>8, CalmSame
    <2> QED BY <1>8, <2>1, EndTidy DEF Orderly
<1> QED BY <1>1, <1>4, <1>5, <1>6, <1>7, <1>8 DEF singleStateLookUp

\* A process ends, without the agent, the provider or the counters.
LEMMA EndQuietly ==
    ASSUME ServerInv, NEW i \in Procs, NEW how, End(i, how), UNCHANGED <<flow, servers, count>>,
           how \notin Orderly \/ gen[i].pc \notin Watching
    PROVE  ServerInv'
<1>1. Calm
    BY CalmSame DEF ServerInv, Counts
<1>2. gen[i].pc \notin Watching => gen[i].state \notin servers'
    BY DEF ServerInv, Tidy
<1> QED BY <1>1, <1>2, EndTidy

LEMMA GoesOnQuietly ==
    ASSUME ServerInv, NEW i \in Procs, NEW g, Set(i, g), Same(g, gen[i]),
           g.pc \notin Watching, gen[i].pc \notin Watching, UNCHANGED <<flow, servers, count>>
    PROVE  ServerInv'
<1>1. Calm
    BY CalmSame DEF ServerInv, Counts
<1> QED BY <1>1, GoesOn

LEMMA SaveStep ==
    ASSUME ServerInv, NEW i \in Procs, gen_saveAccountConfig(i) \/ removeOldFile(i)
    PROVE  ServerInv'
<1>1. gen[i].pc \notin Watching /\ UNCHANGED <<flow, servers, count>> /\ "remove" \notin Watching
    BY DEF gen_saveAccountConfig, removeOldFile, Watching, agent
<1>2. End(i, "done") \/ Set(i, [gen[i] EXCEPT !.pc = "remove"])
    BY DEF gen_saveAccountConfig, removeOldFile, AfterSave
<1>3. CASE End(i, "done")
    BY <1>1, <1>3, EndQuietly
<1>4. CASE Set(i, [gen[i] EXCEPT !.pc = "remove"])
    <2> DEFINE g == [gen[i] EXCEPT !.pc = "remove"]
    <2>1. Set(i, g)
        BY <1>4
    <2>2. Same(g, gen[i]) /\ g.pc = "remove"
        BY ProcAt DEF Same, IsProc, Fields
    <2> HIDE DEF g
    <2> QED BY <1>1, <2>1, <2>2, GoesOnQuietly
<1> QED BY <1>2, <1>3, <1>4

LEMMA DeleteStep ==
    ASSUME ServerInv, NEW i \in Procs, deleteClient(i) \/ deleteAccount(i)
    PROVE  ServerInv'
<1>1. gen[i].pc \notin Watching /\ UNCHANGED <<flow, servers, count>>
      /\ "askClient" \notin Watching /\ "delete" \notin Watching
    BY DEF deleteClient, deleteAccount, Watching, agent
<1>2. \/ End(i, "done") \/ End(i, "error")
      \/ Set(i, [gen[i] EXCEPT !.pc = "delete"])
      \/ \E pc \in {"askClient", "delete"} : Set(i, [gen[i] EXCEPT !.pc = pc, !.revoke = FALSE])
    BY DEF deleteClient, deleteAccount, removeFile
<1>3. CASE End(i, "done") \/ End(i, "error")
    BY <1>1, <1>3, EndQuietly
<1>4. CASE Set(i, [gen[i] EXCEPT !.pc = "delete"])
    <2> DEFINE g == [gen[i] EXCEPT !.pc = "delete"]
    <2>1. Set(i, g)
        BY <1>4
    <2>2. Same(g, gen[i]) /\ g.pc = "delete"
        BY ProcAt DEF Same, IsProc, Fields
    <2> HIDE DEF g
    <2> QED BY <1>1, <2>1, <2>2, GoesOnQuietly
<1>5. CASE \E pc \in {"askClient", "delete"} : Set(i, [gen[i] EXCEPT !.pc = pc, !.revoke = FALSE])
    <2>1. PICK pc \in {"askClient", "delete"} : Set(i, [gen[i] EXCEPT !.pc = pc, !.revoke = FALSE])
        BY <1>5
    <2> DEFINE g == [gen[i] EXCEPT !.pc = pc, !.revoke = FALSE]
    <2>2. Set(i, g)
        BY <2>1
    <2>3. Same(g, gen[i]) /\ g.pc = pc
        BY ProcAt DEF Same, IsProc, Fields
    <2> HIDE DEF g
    <2> QED BY <1>1, <2>1, <2>2, <2>3, GoesOnQuietly
<1> QED BY <1>2, <1>3, <1>4, <1>5

LEMMA CutOffStep ==
    ASSUME ServerInv, NEW i \in Procs, lookUpFails(i) \/ gen_http_signal_handler(i) \/ Killed(i)
    PROVE  ServerInv'
<1>1. CASE lookUpFails(i) \/ Killed(i)
    <2>1. UNCHANGED <<flow, servers, count>> /\ (End(i, "error") \/ End(i, "killed"))
        BY <1>1 DEF lookUpFails, Killed, Quiet, agent
    <2> QED BY <2>1, EndQuietly DEF Orderly
<1>2. CASE gen_http_signal_handler(i)
    <2>1. /\ End(i, "interrupted") /\ termHttpServer(gen[i].state) /\ UNCHANGED <<flow, count>>
        BY <1>2 DEF gen_http_signal_handler
    <2>2. servers' \subseteq servers /\ gen[i].state \notin servers'
        BY <2>1, TermServer
    <2>3. Calm
        BY <2>1, <2>2, CalmFlow DEF ServerInv, Counts
    <2> QED BY <2>1, <2>2, <2>3, EndTidy
<1> QED BY <1>1, <1>2

\* No process moves.
LEMMA NoProc == ASSUME ServerInv, Calm, UNCHANGED gen PROVE ServerInv'
BY StaysTidy DEF ServerInv, Calm

LEMMA RedirectStep ==
    ASSUME ServerInv, NEW n \in Auths,
           handleRequest(n) \/ handleRequestAgain(n) \/ makeResponseError(n)
    PROVE  ServerInv'
<1>1. UNCHANGED <<gen, servers>>
    BY DEF handleRequest, handleRequestAgain, makeResponseError
<1>2. CASE UNCHANGED <<flow, count>>
    BY <1>1, <1>2, CalmSame, NoProc DEF ServerInv, Counts
<1>3. CASE /\ flow[n].at = "waiting" /\ Issue(flow[n].name, 0)
           /\ flow' = [flow EXCEPT ![n].at = "exchanged"]
    <2>1. Counts' /\ count'.auth = count.auth
        BY <1>3, CountIssue
    <2>2. servers' \subseteq servers /\ flow[n].at # "none"
        BY <1>1, <1>3
    <2>3. PICK at : at # "taken" /\ flow' = [flow EXCEPT ![n].at = at]
        BY <1>3
    <2>4. Calm
        BY <2>1, <2>2, <2>3, CalmFlow
    <2> QED BY <1>1, <2>4, NoProc
<1> QED BY <1>2, <1>3 DEF handleRequest, handleRequestAgain, makeResponseError

LEMMA ServerNext ==
    ASSUME ServerInv, [Next]_vars
    PROVE  ServerInv'
<1>1. CASE UNCHANGED vars
    BY <1>1, CalmSame, NoProc DEF vars, ServerInv, Counts
<1>2. ASSUME NEW m \in Names, oidcd_handleRm(m) PROVE ServerInv'
    BY <1>2, CalmSame, NoProc DEF oidcd_handleRm, ServerInv, Counts
<1>3. ASSUME NEW i \in Procs, Step(i) PROVE ServerInv'
    BY <1>3, RegisterStep, GenStep, SignalHandlerStep, LookUpStep, SaveStep, DeleteStep DEF Step
<1> QED BY <1>1, <1>2, <1>3, StartSteps, CutOffStep, RedirectStep DEF Next

LEMMA ServerInit == Init => ServerInv
<1> SUFFICES ASSUME Init PROVE ServerInv
    OBVIOUS
<1>1. count = [auth |-> 0, token |-> 1, client |-> 0, run |-> 0] /\ servers = {} /\ gen = [i \in Procs |-> Idle]
    BY DEF Init
<1>2. flow = [n \in Auths |-> [at |-> "none", name |-> NULL, client |-> 0]]
    BY DEF Init
<1>3. Counts /\ count.auth = 0
    BY <1>1 DEF Counts
<1>4. Tidy(Idle, 0, {})
    BY DEF Tidy, Idle, IsProc, Fields, Watching
<1>5. \A n \in Auths : FlowTidy(flow[n], n, 0, {})
    BY <1>2 DEF FlowTidy, IsFlow
<1> QED BY <1>1, <1>2, <1>3, <1>4, <1>5 DEF ServerInv

\* When a process of oidc-gen that waited for a redirect ends because it found out what became
\* of it, gave up or was interrupted, the agent no longer keeps the web server of its
\* authorization (termHttpServer): with any number of processes, some of which wait for the same
\* one.  The exits on an agent's error and the kills are not among these ends (Orderly).
THEOREM NoServerLeft == Spec => []ServerTold
<1>1. ServerInv /\ [Next]_vars => ServerInv'
    BY ServerNext
<1>2. ServerInv => ServerTold
    BY DEF ServerInv, Tidy, ServerTold
<1> QED BY <1>1, <1>2, ServerInit, PTL DEF Spec

-----------------------------------------------------------------------------
(* The newest token: what is where                                         *)

\* A configuration whose refresh token is one of the first top ones.
IsConf(c, top) == c \in Config /\ c.rt <= top
MaybeConf(c, top) == c = NULL \/ IsConf(c, top)

Configured == {"gen", "save", "askClient", "delete"}
Polling == {"sleep", "poll"}

ProcTyped(g, top) ==
    /\ g.pc # "idle" => g.name \in Names
    /\ g.new # NULL => g.new \in Names /\ g.pc \in {"idle", "save", "remove"}
    /\ MaybeConf(g.conf, top)
    /\ g.pc \in Configured => g.conf # NULL

\* A process that waits does so for an authorization of its account.
Follows(g) == g.pc \in Watching => flow[g.state].name = g.name /\ flow[g.state].at # "none"

FilesTyped == file = [m \in Names |-> file[m]] /\ \A m \in Names : MaybeConf(file[m], count.token)
LoadedTyped == loaded = [m \in Names |-> loaded[m]] /\ \A m \in Names : loaded[m] \in 0..count.token
ClientsTyped ==
    /\ tmp = [p \in Paths |-> tmp[p]] /\ \A p \in Paths : tmp[p] \in 0..MaxClient
    /\ count.client \in 0..MaxClient
ServersTyped == server = [n \in Auths |-> server[n]] /\ \A n \in Auths : server[n] = "up" => n \in servers
TokensTyped ==
    /\ owner = [t \in Auths |-> owner[t]]
    /\ count.token \in 1..MaxAuth /\ valid \subseteq 1..count.token
FlowsTyped ==
    \A n \in Auths : flow[n].client \in 0..MaxClient /\ (flow[n].at # "none" => flow[n].name \in Names)
ProcsTyped == \A i \in Procs : ProcTyped(gen[i], count.token) /\ Follows(gen[i])

StoreTyped == FilesTyped /\ LoadedTyped /\ ClientsTyped /\ ServersTyped /\ TokensTyped /\ FlowsTyped
TokenTypes == StoreTyped /\ ProcsTyped

\* The token of an account that counts.
Newest(m, t) == t \in 1..count.token /\ owner[t] = m /\ \A u \in 1..count.token : owner[u] = m => u <= t
Current(m, t) == Newest(m, t) /\ t \in valid

\* Process g works on account m; waits for authorization n; will save the
\* token of m that is not in the file yet.
Uses(g, m) == g.pc # "idle" /\ (g.name = m \/ g.new = m)
Watches(g, n) == g.pc \in Polling /\ g.state = n
Keeps(g, m) ==
    /\ g.name = m
    /\ \/ g.pc \in Polling /\ flow[g.state].at = "exchanged"
       \/ g.pc = "save" /\ g.new = NULL

\* A token of authorization n was loaded or may be.
Pending(n) == (flow[n].at = "waiting" /\ server[n] = "up") \/ flow[n].at = "exchanged"

FileHas(m, t) == file[m] # NULL /\ file[m].rt = t

\* Nothing but the agent has token t, and that for account m only: if it is
\* removed from the agent, it is gone.
Spare(m, t) ==
    /\ \A x \in Names \ {m} : loaded[x] # t
    /\ \A x \in Names : ~FileHas(x, t)
    /\ \A i \in Procs : gen[i].conf # NULL => gen[i].conf.rt # t

\* What a process has, or has made sure of, at each of its steps.
ProcKnows(g, m) ==
    /\ g.pc = "save" /\ g.new = NULL => \A t \in Auths : Current(m, t) => g.conf.rt = t
    /\ g.pc = "save" /\ g.new # NULL => FileHas(m, g.conf.rt)
    /\ g.pc = "remove" => \A t \in 1..count.token : owner[t] # m
    /\ g.pc \in {"askClient", "delete"} => FileHas(m, g.conf.rt) /\ (g.revoke \/ g.conf.rt \notin valid)
    /\ g.pc \in Polling /\ flow[g.state].at = "exchanged" =>
          \A t \in Auths : Current(m, t) => loaded[m] = t /\ Spare(m, t)

NameKept(m) ==
    /\ \A i, j \in Procs : Uses(gen[i], m) /\ Uses(gen[j], m) => i = j
    /\ \A n \in Auths : Pending(n) /\ flow[n].name = m => \E i \in Procs : Watches(gen[i], n)
    /\ \A t \in Auths : Current(m, t) => FileHas(m, t) \/ \E i \in Procs : Keeps(gen[i], m)
    /\ \A i \in Procs : gen[i].pc # "idle" /\ gen[i].name = m => ProcKnows(gen[i], m)
    /\ \A i \in Procs : gen[i].pc = "save" /\ gen[i].new = m => file[m] = NULL

NamesKept == \A m \in Names \ loose : NameKept(m)
-----------------------------------------------------------------------------
LEMMA ConfTyped ==
    ASSUME NEW rt \in 0..MaxAuth, NEW client \in 0..MaxClient, NEW top \in Nat, rt <= top
    PROVE  /\ IsConf(Conf(rt, client, FALSE), top)
           /\ Conf(rt, client, FALSE) # NULL
           /\ Conf(rt, client, FALSE).rt = rt
           /\ Conf(rt, client, FALSE).client = client
<1>1. Conf(rt, client, FALSE) \in Config
    BY DEF Conf, Config
<1>2. Conf(rt, client, FALSE).rt = rt /\ Conf(rt, client, FALSE).client = client
    BY DEF Conf
<1> QED BY <1>1, <1>2, NoConfig DEF IsConf

LEMMA ConfReg ==
    ASSUME NEW c, NEW top, IsConf(c, top)
    PROVE  /\ IsConf([c EXCEPT !.reg = FALSE], top) /\ IsConf([c EXCEPT !.reg = TRUE], top)
           /\ [c EXCEPT !.reg = FALSE].rt = c.rt /\ [c EXCEPT !.reg = TRUE].rt = c.rt
BY DEF IsConf, Config

LEMMA ConfToken ==
    ASSUME NEW c, NEW top, IsConf(c, top), NEW t \in 0..MaxAuth
    PROVE  /\ IsConf([c EXCEPT !.rt = t], t) /\ [c EXCEPT !.rt = t].rt = t
BY DEF IsConf, Config

LEMMA ConfReal == ASSUME NEW c, NEW top, IsConf(c, top) PROVE c # NULL /\ c.rt \in 0..MaxAuth /\ c.rt <= top
BY NoConfig DEF IsConf, Config

LEMMA Wider ==
    ASSUME NEW c, NEW top \in Nat, NEW top2 \in Nat, top <= top2, MaybeConf(c, top)
    PROVE  MaybeConf(c, top2)
BY DEF MaybeConf, IsConf, Config

\* A process is what it was, but for authorizations and tokens that are new.
Onwards ==
    /\ count'.token \in Nat /\ count'.token >= count.token
    /\ \A n \in Auths : flow[n].at # "none" => flow'[n].at # "none" /\ flow'[n].name = flow[n].name

LEMMA OthersTyped ==
    ASSUME ServerInv, TokenTypes, Onwards, NEW j \in Procs
    PROVE  ProcTyped(gen[j], count'.token) /\ (gen[j].pc \in Watching => flow'[gen[j].state].name = gen[j].name /\ flow'[gen[j].state].at # "none")
<1>1. ProcTyped(gen[j], count.token) /\ Follows(gen[j]) /\ count.token \in Nat
    BY DEF TokenTypes, StoreTyped, ProcsTyped, TokensTyped
<1>2. MaybeConf(gen[j].conf, count'.token)
    BY <1>1, Wider DEF ProcTyped, Onwards
<1>3. gen[j].pc \in Watching => gen[j].state \in Auths
    BY DEF ServerInv, Tidy
<1> QED BY <1>1, <1>2, <1>3 DEF ProcTyped, Follows, Onwards

LEMMA ProcTypes ==
    ASSUME ServerInv, TokenTypes, Onwards, NEW i \in Procs, NEW g, Set(i, g),
           ProcTyped(g, count'.token), g.pc \in Watching => flow'[g.state].name = g.name /\ flow'[g.state].at # "none"
    PROVE  ProcsTyped'
<1> SUFFICES ASSUME NEW j \in Procs PROVE ProcTyped(gen'[j], count'.token) /\ Follows(gen[j])'
    BY DEF ProcsTyped
<1>1. CASE j = i
    <2>1. gen'[j] = g
        BY <1>1 DEF Set, ServerInv
    <2> QED BY <2>1 DEF Follows
<1>2. CASE j # i
    <2>1. gen'[j] = gen[j]
        BY <1>2 DEF Set, ServerInv
    <2> QED BY <2>1, OthersTyped DEF Follows
<1> QED BY <1>1, <1>2
-----------------------------------------------------------------------------
LEMMA TokenIsAuth == ASSUME TokenTypes, NEW t \in 1..count.token PROVE t \in Auths
BY GenClientAssumption DEF TokenTypes, StoreTyped, TokensTyped, Auths

\* No token of account m comes, goes or becomes valid again.
SameTokens(m) ==
    /\ \A t \in 1..count'.token : owner'[t] = m => t \in 1..count.token /\ owner[t] = m
    /\ \A t \in 1..count.token : owner[t] = m => t \in 1..count'.token /\ owner'[t] = m
    /\ \A t \in 0..count.token : t \in valid' => t \in valid

LEMMA CurrentStays ==
    ASSUME TokenTypes, NEW m, SameTokens(m), NEW t, Current(m, t)'
    PROVE  Current(m, t)
<1>1. t \in 1..count'.token /\ owner'[t] = m /\ t \in valid' /\ \A u \in 1..count'.token : owner'[u] = m => u <= t
    BY DEF Current, Newest
<1>2. t \in 1..count.token /\ owner[t] = m
    BY <1>1 DEF SameTokens
<1>3. t \in valid
    BY <1>1, <1>2 DEF SameTokens
<1>4. \A u \in 1..count.token : owner[u] = m => u <= t
    BY <1>1 DEF SameTokens
<1> QED BY <1>2, <1>3, <1>4 DEF Current, Newest

LEMMA KnowsStays ==
    ASSUME TokenTypes, NEW m \in Names, NEW g, ProcTyped(g, count.token), ProcKnows(g, m), SameTokens(m),
           file'[m] = file[m], loaded'[m] = loaded[m], g.pc \in Polling => flow'[g.state].at = flow[g.state].at,
           \A t \in 1..count.token : Spare(m, t) => Spare(m, t)'
    PROVE  ProcKnows(g, m)'
<1>1. \A t : Current(m, t)' => Current(m, t)
    BY CurrentStays
<1>2. g.pc = "save" /\ g.new = NULL => \A t \in Auths : Current(m, t)' => g.conf.rt = t
    BY <1>1 DEF ProcKnows
<1>3. \A t : FileHas(m, t) => FileHas(m, t)'
    BY DEF FileHas
<1>4. g.pc = "save" /\ g.new # NULL => FileHas(m, g.conf.rt)'
    BY <1>3 DEF ProcKnows
<1>5. g.pc = "remove" => \A t \in 1..count'.token : owner'[t] # m
    BY DEF ProcKnows, SameTokens
<1>6. g.pc \in {"askClient", "delete"} => FileHas(m, g.conf.rt)' /\ (g.revoke \/ g.conf.rt \notin valid')
    <2>1. g.pc \in {"askClient", "delete"} => g.conf.rt \in 0..count.token
        <3>1. g.pc \in {"askClient", "delete"} => IsConf(g.conf, count.token)
            BY DEF ProcTyped, MaybeConf, Configured
        <3>2. IsConf(g.conf, count.token) => g.conf.rt \in 0..MaxAuth /\ g.conf.rt <= count.token
            BY ConfReal
        <3>3. count.token \in Nat /\ MaxAuth \in Nat
            BY GenClientAssumption DEF TokenTypes, StoreTyped, TokensTyped
        <3> QED BY <3>1, <3>2, <3>3
    <2>2. g.pc \in {"askClient", "delete"} => FileHas(m, g.conf.rt)'
        BY <1>3 DEF ProcKnows
    <2>3. g.pc \in {"askClient", "delete"} => (g.revoke \/ g.conf.rt \notin valid)
        BY DEF ProcKnows
    <2>4. g.pc \in {"askClient", "delete"} /\ g.conf.rt \notin valid => g.conf.rt \notin valid'
        BY <2>1 DEF SameTokens
    <2> QED BY <2>2, <2>3, <2>4
<1>7. g.pc \in Polling /\ flow'[g.state].at = "exchanged" =>
          \A t \in Auths : Current(m, t)' => loaded'[m] = t /\ Spare(m, t)'
    <2>1. \A t : Current(m, t) => t \in 1..count.token
        BY DEF Current, Newest
    <2> QED BY <1>1, <2>1 DEF ProcKnows
<1> QED BY <1>2, <1>4, <1>5, <1>6, <1>7 DEF ProcKnows

\* The processes that work on account m are those that did, and as they were.
SameUsers(m) == \A j \in Procs : Uses(gen[j], m) \/ Uses(gen'[j], m) => gen'[j] = gen[j]
SameFlows(m) ==
    \A n \in Auths :
       /\ flow[n].at # "none" /\ flow[n].name = m => flow'[n].at = flow[n].at
       /\ flow'[n].at # "none" /\ flow'[n].name = m =>
             flow[n].name = m /\ flow[n].at = flow'[n].at /\ (server'[n] = "up" => server[n] = "up")

LEMMA Unaffected ==
    ASSUME ServerInv, TokenTypes, NEW m \in Names, NameKept(m), SameTokens(m), SameUsers(m), SameFlows(m),
           file'[m] = file[m], loaded'[m] = loaded[m], \A t \in 1..count.token : Spare(m, t) => Spare(m, t)'
    PROVE  NameKept(m)'
<1>1. \A i, j \in Procs : Uses(gen'[i], m) /\ Uses(gen'[j], m) => i = j
    BY DEF NameKept, SameUsers
<1>2. ASSUME NEW j \in Procs, gen[j].name = m, gen[j].pc \in Polling PROVE flow'[gen[j].state].at = flow[gen[j].state].at
    <2>1. gen[j].state \in Auths
        BY <1>2 DEF ServerInv, Tidy, Polling, Watching
    <2>2. flow[gen[j].state].name = m /\ flow[gen[j].state].at # "none"
        BY <1>2 DEF TokenTypes, ProcsTyped, Follows, Polling, Watching
    <2> QED BY <2>1, <2>2 DEF SameFlows
<1>3. ASSUME NEW n \in Auths, Pending(n)', flow'[n].name = m PROVE \E i \in Procs : Watches(gen'[i], n)
    <2>1. Pending(n) /\ flow[n].name = m
        BY <1>3 DEF Pending, SameFlows
    <2>2. PICK i \in Procs : Watches(gen[i], n)
        BY <2>1 DEF NameKept
    <2>3. Uses(gen[i], m)
        BY <2>1, <2>2 DEF Watches, Uses, TokenTypes, ProcsTyped, Follows, Polling, Watching
    <2> QED BY <2>2, <2>3 DEF SameUsers
<1>4. ASSUME NEW t \in Auths, Current(m, t)' PROVE FileHas(m, t)' \/ \E i \in Procs : Keeps(gen[i], m)'
    <2>1. Current(m, t)
        BY <1>4, CurrentStays
    <2>2. CASE FileHas(m, t)
        BY <2>2 DEF FileHas
    <2>3. ASSUME NEW i \in Procs, Keeps(gen[i], m) PROVE Keeps(gen[i], m)'
        <3>1. Uses(gen[i], m)
            BY <2>3 DEF Keeps, Uses, Polling
        <3>2. gen'[i] = gen[i]
            BY <3>1 DEF SameUsers
        <3> QED BY <1>2, <2>3, <3>2 DEF Keeps
    <2> QED BY <2>1, <2>2, <2>3 DEF NameKept
<1>5. ASSUME NEW i \in Procs, gen'[i].pc # "idle", gen'[i].name = m PROVE ProcKnows(gen[i], m)'
    <2>1. gen'[i] = gen[i]
        BY <1>5 DEF Uses, SameUsers
    <2>2. PICK g : g = gen[i]
        OBVIOUS
    <2>3. ProcKnows(g, m) /\ ProcTyped(g, count.token) /\ (g.pc \in Polling => flow'[g.state].at = flow[g.state].at)
        BY <1>2, <1>5, <2>1, <2>2 DEF NameKept, TokenTypes, ProcsTyped
    <2>4. ProcKnows(g, m)'
        BY <2>3, KnowsStays
    <2> QED BY <2>1, <2>2, <2>4
<1>6. ASSUME NEW i \in Procs, gen'[i].pc = "save", gen'[i].new = m PROVE file'[m] = NULL
    BY <1>6 DEF Uses, SameUsers, NameKept
<1> QED BY <1>1, <1>3, <1>4, <1>5, <1>6 DEF NameKept

\* Only process i, which becomes g, works on account m.
Alone(i, m) == \A j \in Procs \ {i} : ~Uses(gen[j], m)

LEMMA OnlyMine ==
    ASSUME ServerInv, NEW m \in Names, NEW i \in Procs, NEW g, Set(i, g), Alone(i, m),
           \A n \in Auths : Pending(n)' /\ flow'[n].name = m => Watches(g, n),
           \A t \in Auths : Current(m, t)' => FileHas(m, t)' \/ Keeps(g, m)',
           g.pc # "idle" /\ g.name = m => ProcKnows(g, m)',
           g.pc = "save" /\ g.new = m => file'[m] = NULL
    PROVE  NameKept(m)'
<1>1. gen'[i] = g /\ \A j \in Procs \ {i} : gen'[j] = gen[j]
    BY DEF Set, ServerInv
<1>2. \A j \in Procs \ {i} : ~Uses(gen'[j], m)
    BY <1>1 DEF Alone
<1>3. \A j, k \in Procs : Uses(gen'[j], m) /\ Uses(gen'[k], m) => j = k
    BY <1>2
<1>4. \A n \in Auths : Pending(n)' /\ flow'[n].name = m => \E j \in Procs : Watches(gen'[j], n)
    BY <1>1
<1>5. ASSUME NEW t \in Auths, Current(m, t)' PROVE FileHas(m, t)' \/ \E j \in Procs : Keeps(gen[j], m)'
    <2>1. Keeps(g, m)' => Keeps(gen[i], m)'
        BY <1>1 DEF Keeps
    <2> QED BY <1>5, <2>1
<1>6. ASSUME NEW j \in Procs, gen'[j].pc # "idle", gen'[j].name = m PROVE ProcKnows(gen[j], m)'
    <2>1. j = i
        BY <1>2, <1>6 DEF Uses
    <2>2. ProcKnows(g, m)'
        BY <1>1, <1>6, <2>1
    <2> QED BY <1>1, <2>1, <2>2
<1>7. ASSUME NEW j \in Procs, gen'[j].pc = "save", gen'[j].new = m PROVE file'[m] = NULL
    <2>1. j = i
        BY <1>2, <1>7 DEF Uses
    <2> QED BY <1>1, <1>7, <2>1
<1> QED BY <1>3, <1>4, <1>5, <1>6, <1>7 DEF NameKept
-----------------------------------------------------------------------------
(* Process i becomes g, and nothing else happens to files and tokens, but  *)
(* that tokens become invalid.                                             *)

Still ==
    /\ UNCHANGED <<file, loaded, flow, owner>> /\ count'.token = count.token
    /\ valid' \subseteq valid /\ loose \subseteq loose'
    /\ ClientsTyped' /\ ServersTyped' /\ \A n \in Auths : server'[n] = "up" => server[n] = "up"

LEMMA StillTyped ==
    ASSUME TokenTypes, Still PROVE StoreTyped' /\ Onwards
<1>1. FilesTyped' /\ LoadedTyped' /\ FlowsTyped'
    BY DEF TokenTypes, StoreTyped, FilesTyped, LoadedTyped, FlowsTyped, Still
<1>2. TokensTyped'
    BY DEF TokenTypes, StoreTyped, TokensTyped, Still
<1>3. Onwards
    BY DEF TokenTypes, StoreTyped, TokensTyped, Still, Onwards
<1> QED BY <1>1, <1>2, <1>3 DEF StoreTyped, Still

\* Its configuration has a token that is in a file, that it had, or none.
KnownConf(i, g) ==
    \/ g.conf = NULL \/ g.conf.rt = 0
    \/ gen[i].conf # NULL /\ g.conf.rt = gen[i].conf.rt
    \/ \E x \in Names : FileHas(x, g.conf.rt)

Plain(i, g) ==
    /\ Still /\ Set(i, g)
    /\ ProcTyped(g, count.token) /\ Follows(g) /\ KnownConf(i, g)
    /\ \A m \in Names \ loose' :
          /\ Uses(g, m) => Uses(gen[i], m) \/ Alone(i, m)
          /\ Keeps(gen[i], m) => Keeps(g, m)
          /\ g.pc # "idle" /\ g.name = m => ProcKnows(g, m)'
          /\ g.pc = "save" /\ g.new = m => file[m] = NULL
    /\ \A n \in Auths : Watches(gen[i], n) /\ Pending(n)' /\ gen[i].name \notin loose' => Watches(g, n)

LEMMA PlainStep ==
    ASSUME ServerInv, TokenTypes, NamesKept, NEW i \in Procs, NEW g, Plain(i, g)
    PROVE  TokenTypes' /\ NamesKept'
<1>1. StoreTyped' /\ Onwards /\ Still /\ Set(i, g)
    BY StillTyped DEF Plain
<1>2. ProcsTyped'
    <2>1. ProcTyped(g, count'.token) /\ (g.pc \in Watching => flow'[g.state].name = g.name /\ flow'[g.state].at # "none")
        BY DEF Plain, Still, Follows
    <2> QED BY <1>1, <2>1, ProcTypes
<1>3. gen'[i] = g /\ \A j \in Procs \ {i} : gen'[j] = gen[j]
    BY <1>1 DEF Set, ServerInv
<1>4. ASSUME NEW m \in Names \ loose' PROVE NameKept(m)'
    <2>1. m \in Names \ loose /\ NameKept(m)
        BY <1>1 DEF Still, NamesKept
    <2>2. SameTokens(m) /\ SameFlows(m) /\ file'[m] = file[m] /\ loaded'[m] = loaded[m]
        BY <1>1 DEF SameTokens, SameFlows, Still
    <2>3. CASE Uses(gen[i], m) \/ Uses(g, m)
        <3>1. Alone(i, m)
            BY <1>3, <1>4, <2>1, <2>3 DEF NameKept, Alone, Plain
        <3>2. ASSUME NEW n \in Auths, Pending(n)', flow'[n].name = m PROVE Watches(g, n)
            <4>1. Pending(n) /\ flow[n].name = m
                BY <1>1, <3>2 DEF Pending, Still
            <4>2. PICK j \in Procs : Watches(gen[j], n)
                BY <2>1, <4>1 DEF NameKept
            <4>3. Uses(gen[j], m) /\ gen[j].name = m
                BY <4>1, <4>2 DEF Watches, Uses, TokenTypes, ProcsTyped, Follows, Polling, Watching
            <4>4. j = i
                BY <3>1, <4>3 DEF Alone
            <4> QED BY <3>2, <4>2, <4>3, <4>4 DEF Plain
        <3>3. ASSUME NEW t \in Auths, Current(m, t)' PROVE FileHas(m, t)' \/ Keeps(g, m)'
            <4>1. Current(m, t)
                BY <2>2, <3>3, CurrentStays
            <4>2. CASE FileHas(m, t)
                BY <2>2, <4>2 DEF FileHas
            <4>3. ASSUME NEW j \in Procs, Keeps(gen[j], m) PROVE Keeps(g, m)'
                <5>1. Uses(gen[j], m)
                    BY <4>3 DEF Keeps, Uses, Polling
                <5>2. j = i
                    BY <3>1, <5>1 DEF Alone
                <5>3. Keeps(g, m)
                    BY <4>3, <5>2 DEF Plain
                <5> QED BY <1>1, <5>3 DEF Keeps, Still
            <4> QED BY <2>1, <4>1, <4>2, <4>3 DEF NameKept
        <3>4. g.pc # "idle" /\ g.name = m => ProcKnows(g, m)'
            BY DEF Plain
        <3>5. g.pc = "save" /\ g.new = m => file'[m] = NULL
            BY <2>2 DEF Plain
        <3> QED BY <1>1, <3>1, <3>2, <3>3, <3>4, <3>5, OnlyMine
    <2>4. CASE ~(Uses(gen[i], m) \/ Uses(g, m))
        <3>1. SameUsers(m)
            BY <1>3, <2>4 DEF SameUsers
        <3>2. ASSUME NEW t \in 1..count.token, Spare(m, t) PROVE Spare(m, t)'
            <4>1. t # 0
                BY DEF TokenTypes, StoreTyped, TokensTyped
            <4>2. \A x \in Names : ~FileHas(x, t) /\ ~FileHas(x, t)'
                BY <1>1, <3>2 DEF Spare, FileHas, Still
            <4>3. g.conf # NULL => g.conf.rt # t
                BY <3>2, <4>1, <4>2 DEF Spare, Plain, KnownConf
            <4>4. \A j \in Procs : gen'[j].conf # NULL => gen'[j].conf.rt # t
                BY <1>3, <3>2, <4>3 DEF Spare
            <4> QED BY <1>1, <3>2, <4>2, <4>4 DEF Spare, Still
        <3> QED BY <2>1, <2>2, <3>1, <3>2, Unaffected
    <2> QED BY <2>3, <2>4
<1> QED BY <1>1, <1>2, <1>4 DEF TokenTypes, NamesKept

LEMMA QuietStill ==
    ASSUME ServerInv, TokenTypes, Quiet, Counted \/ UNCHANGED count, loose \subseteq loose'
    PROVE  Still
<1>1. count'.token = count.token /\ count'.client = count.client
    BY DEF ServerInv, Counts, Counted
<1>2. UNCHANGED <<file, loaded, flow, owner, tmp, server, servers, valid>>
    BY DEF Quiet, agent
<1>3. ClientsTyped' /\ ServersTyped'
    BY <1>1, <1>2 DEF TokenTypes, StoreTyped, ClientsTyped, ServersTyped
<1> QED BY <1>1, <1>2, <1>3 DEF Still

LEMMA EndPlain ==
    ASSUME ServerInv, TokenTypes, NamesKept, NEW i \in Procs, NEW how, End(i, how), Still,
           \/ gen[i].name \in loose'
           \/ /\ gen[i].pc = "save" => gen[i].new # NULL
              /\ \A n \in Auths : Watches(gen[i], n) => ~Pending(n)'
    PROVE  TokenTypes' /\ NamesKept'
<1>1. PICK g : Set(i, g) /\ g.pc = "idle" /\ g.conf = NULL /\ g.new = NULL
    <2> DEFINE x == IF how \in Orderly THEN gen[i].state ELSE 0
               g == [Idle EXCEPT !.polled = x]
    <2>1. Set(i, g)
        BY DEF End
    <2> HIDE DEF x
    <2>2. g.pc = "idle" /\ g.conf = NULL /\ g.new = NULL
        BY DEF Idle
    <2> HIDE DEF g
    <2> QED BY <2>1, <2>2
<1>2. ProcTyped(g, count.token) /\ Follows(g) /\ KnownConf(i, g)
    BY <1>1 DEF ProcTyped, Follows, KnownConf, MaybeConf, Configured, Watching
<1>3. ASSUME NEW m \in Names \ loose', Keeps(gen[i], m) PROVE FALSE
    <2>1. gen[i].name = m /\ gen[i].pc \in Polling /\ flow[gen[i].state].at = "exchanged"
        BY <1>3 DEF Keeps
    <2>2. PICK n \in Auths : n = gen[i].state
        BY <2>1 DEF ServerInv, Tidy, Polling, Watching
    <2>3. Pending(n)' /\ Watches(gen[i], n)
        BY <2>1, <2>2 DEF Pending, Still, Watches
    <2> QED BY <1>3, <2>1, <2>3
<1>4. \A n \in Auths : Watches(gen[i], n) /\ Pending(n)' /\ gen[i].name \notin loose' => Watches(g, n)
    OBVIOUS
<1>5. \A m \in Names \ loose' :
          /\ Uses(g, m) => Uses(gen[i], m) \/ Alone(i, m)
          /\ g.pc # "idle" /\ g.name = m => ProcKnows(g, m)'
          /\ g.pc = "save" /\ g.new = m => file[m] = NULL
    BY <1>1 DEF Uses
<1>6. Plain(i, g)
    BY <1>1, <1>2, <1>3, <1>4, <1>5 DEF Plain
<1> QED BY <1>6, PlainStep

\* A process is started.
Started(g, pc, name, conf, new, n) ==
    /\ IsProc(g) /\ g.pc = pc /\ g.name = name /\ g.conf = conf /\ g.new = new /\ g.state = n /\ g.revoke

LEMMA NewStarted ==
    ASSUME NEW pc, NEW name, NEW o, NEW conf, NEW merge, NEW new, NEW n
    PROVE  /\ Started([Idle EXCEPT !.pc = pc, !.name = name, !.opt = o, !.conf = conf], pc, name, conf, NULL, 0)
           /\ Started([Idle EXCEPT !.pc = pc, !.name = name, !.opt = o, !.noMerge = merge], pc, name, NULL, NULL, 0)
           /\ Started([Idle EXCEPT !.pc = pc, !.name = name, !.opt = o, !.conf = conf, !.noMerge = merge], pc, name, conf, NULL, 0)
           /\ Started([Idle EXCEPT !.pc = pc, !.name = name, !.new = new, !.opt = o, !.conf = conf], pc, name, conf, new, 0)
           /\ Started([Idle EXCEPT !.pc = pc, !.name = name, !.opt = o, !.state = n], pc, name, NULL, NULL, n)
BY DEF Started, Idle, IsProc, Fields

\* Where it may start, and with what.
Startable(pc, name, conf, new, n) ==
    \/ /\ pc \in {"register", "public", "gen"} /\ new = NULL /\ MaybeConf(conf, count.token)
       /\ pc = "gen" => conf # NULL
       /\ conf = NULL \/ conf.rt = 0 \/ FileHas(name, conf.rt)
    \/ pc \in {"askClient", "delete"} /\ new = NULL /\ IsConf(conf, count.token) /\ FileHas(name, conf.rt)
    \/ pc = "lookup" /\ new = NULL /\ conf = NULL /\ flow[n].name = name /\ flow[n].at # "none"
    \/ pc = "save" /\ new \in Names /\ file[new] = NULL /\ IsConf(conf, count.token) /\ FileHas(name, conf.rt)

LEMMA StartPlain ==
    ASSUME ServerInv, TokenTypes, NamesKept, NEW i \in Procs, ~Working(i), Quiet, Counted, loose \subseteq loose',
           NEW g, NEW pc, NEW name \in Names, NEW conf, NEW new, NEW n, Set(i, g), Started(g, pc, name, conf, new, n),
           Startable(pc, name, conf, new, n),
           \A m \in Names \ loose' : m = name \/ m = new => Alone(i, m)
    PROVE  TokenTypes' /\ NamesKept'
<1>1. Still
    BY QuietStill
<1>2. gen[i].pc = "idle"
    BY DEF Working
<1>3. conf # NULL => IsConf(conf, count.token)
    BY DEF Startable, MaybeConf
<1>4. ProcTyped(g, count.token)
    <2>1. new # NULL => new \in Names /\ pc = "save"
        BY DEF Startable
    <2>2. pc \in Configured => conf # NULL
        BY ConfReal DEF Startable, Configured
    <2> QED BY <1>3, <2>1, <2>2 DEF ProcTyped, Started, MaybeConf
<1>5. Follows(g)
    BY DEF Follows, Started, Startable, Watching
<1>6. KnownConf(i, g)
    BY DEF KnownConf, Started, Startable
<1>7. ASSUME NEW m \in Names \ loose', g.name = m PROVE ProcKnows(g, m)'
    <2>1. g.pc = "save" => g.new # NULL
        BY GenClientAssumption DEF Startable, Started
    <2>2. g.pc \in {"save", "askClient", "delete"} => FileHas(m, g.conf.rt)'
        BY <1>1, <1>7 DEF Startable, Started, FileHas, Still
    <2>3. g.pc # "remove" /\ g.pc \notin Polling
        BY DEF Startable, Started, Polling
    <2>4. g.revoke
        BY DEF Started
    <2> QED BY <2>1, <2>2, <2>3, <2>4 DEF ProcKnows
<1>8. ASSUME NEW m \in Names \ loose' PROVE
          /\ Uses(g, m) => Uses(gen[i], m) \/ Alone(i, m)
          /\ Keeps(gen[i], m) => Keeps(g, m)
          /\ g.pc = "save" /\ g.new = m => file[m] = NULL
    <2>1. Uses(g, m) => Alone(i, m)
        BY <1>8 DEF Uses, Started
    <2>2. ~Keeps(gen[i], m)
        BY <1>2 DEF Keeps, Polling
    <2>3. g.pc = "save" /\ g.new = m => file[m] = NULL
        BY <1>8 DEF Started, Startable
    <2> QED BY <2>1, <2>2, <2>3
<1>9. \A k \in Auths : ~Watches(gen[i], k)
    BY <1>2 DEF Watches, Polling
<1>10. Plain(i, g)
    BY <1>1, <1>4, <1>5, <1>6, <1>7, <1>8, <1>9 DEF Plain
<1> QED BY <1>10, PlainStep

LEMMA ClashAlone ==
    ASSUME ServerInv, TokenTypes, NEW i \in Procs, NEW name \in Names, Clash(i, name)
    PROVE  /\ loose \subseteq loose'
           /\ \A m \in Names \ loose' : m = name => Alone(i, m)
<1>1. loose \subseteq loose'
    BY DEF Clash
<1>2. ASSUME name \notin loose', NEW j \in Procs \ {i}, Uses(gen[j], name) PROVE FALSE
    BY <1>2 DEF Clash, Uses, Working
<1> QED BY <1>1, <1>2 DEF Alone

\* The command lines; the exchange of a code is apart.
LEMMA StartKept ==
    ASSUME ServerInv, TokenTypes, NamesKept, NEW i \in Procs, NEW o, NEW m \in Names,
           registerClient(i, m, o) \/ manual_genNewAccount(i, m, o) \/ reauthenticate(i, m, o) \/ handleDelete(i, m, o)
    PROVE  TokenTypes' /\ NamesKept'
<1>1. ~Working(i) /\ Quiet /\ Counted /\ Clash(i, m)
    BY DEF registerClient, manual_genNewAccount, reauthenticate, handleDelete, Free, Begin
<1>2. loose \subseteq loose' /\ \A x \in Names \ loose' : x = m => Alone(i, x)
    BY <1>1, ClashAlone
<1>3. ASSUME NEW g, NEW pc, NEW conf, Set(i, g), Started(g, pc, m, conf, NULL, 0), Startable(pc, m, conf, NULL, 0)
      PROVE  TokenTypes' /\ NamesKept'
    <2>1. \A x \in Names \ loose' : x = m \/ x = NULL => Alone(i, x)
        BY <1>2, GenClientAssumption
    <2> QED BY <1>1, <1>2, <1>3, <2>1, StartPlain
<1>4. tmp[tmpFile(m)] \in 0..MaxClient
    BY DEF TokenTypes, StoreTyped, ClientsTyped, tmpFile, Paths
<1>5. count.token \in Nat /\ 0 \in 0..MaxAuth /\ 0 <= count.token /\ 0 \in 0..MaxClient
    BY GenClientAssumption DEF TokenTypes, StoreTyped, TokensTyped
<1>6. \A c \in 0..MaxClient : Startable("gen", m, Conf(0, c, FALSE), NULL, 0)
    BY <1>5, ConfTyped DEF Startable, MaybeConf
<1>7. Startable("register", m, NULL, NULL, 0) /\ Startable("public", m, NULL, NULL, 0)
    BY DEF Startable, MaybeConf
<1>8. file[m] # NULL => IsConf(file[m], count.token)
    BY DEF TokenTypes, StoreTyped, FilesTyped, MaybeConf
<1>9. file[m] # NULL => Startable("gen", m, [file[m] EXCEPT !.reg = FALSE], NULL, 0)
    BY <1>8, ConfReg, ConfReal DEF Startable, MaybeConf, FileHas
<1>10. file[m] # NULL => Startable("askClient", m, file[m], NULL, 0) /\ Startable("delete", m, file[m], NULL, 0)
    BY <1>8 DEF Startable, FileHas
<1>11. CASE registerClient(i, m, o)
    <2>1. \/ Set(i, [Idle EXCEPT !.pc = "gen", !.name = m, !.opt = o, !.conf = Conf(0, tmp[tmpFile(m)], FALSE)])
          \/ Set(i, [Idle EXCEPT !.pc = "register", !.name = m, !.opt = o, !.noMerge = TRUE])
          \/ Set(i, [Idle EXCEPT !.pc = "public", !.name = m, !.opt = o, !.conf = NULL])
          \/ Set(i, [Idle EXCEPT !.pc = "register", !.name = m, !.opt = o, !.conf = NULL])
        BY <1>11 DEF registerClient, Begin
    <2>2. CASE Set(i, [Idle EXCEPT !.pc = "gen", !.name = m, !.opt = o, !.conf = Conf(0, tmp[tmpFile(m)], FALSE)])
        BY <1>3, <1>4, <1>6, <2>2, NewStarted, Zenon
    <2>3. CASE Set(i, [Idle EXCEPT !.pc = "register", !.name = m, !.opt = o, !.noMerge = TRUE])
        BY <1>3, <1>7, <2>3, NewStarted, Zenon
    <2>4. CASE Set(i, [Idle EXCEPT !.pc = "public", !.name = m, !.opt = o, !.conf = NULL])
        BY <1>3, <1>7, <2>4, NewStarted, Zenon
    <2>5. CASE Set(i, [Idle EXCEPT !.pc = "register", !.name = m, !.opt = o, !.conf = NULL])
        BY <1>3, <1>7, <2>5, NewStarted, Zenon
    <2> QED BY <2>1, <2>2, <2>3, <2>4, <2>5
<1>12. CASE manual_genNewAccount(i, m, o)
    <2>1. \/ file[m] # NULL /\ Set(i, [Idle EXCEPT !.pc = "gen", !.name = m, !.opt = o, !.conf = [file[m] EXCEPT !.reg = FALSE]])
          \/ Set(i, [Idle EXCEPT !.pc = "gen", !.name = m, !.opt = o, !.conf = Conf(0, tmp[tmpFile(m)], FALSE)])
          \/ \E merge : Set(i, [Idle EXCEPT !.pc = "gen", !.name = m, !.opt = o, !.conf = Conf(0, 0, FALSE), !.noMerge = merge])
        BY <1>12 DEF manual_genNewAccount, Begin
    <2>2. CASE file[m] # NULL /\ Set(i, [Idle EXCEPT !.pc = "gen", !.name = m, !.opt = o, !.conf = [file[m] EXCEPT !.reg = FALSE]])
        BY <1>3, <1>9, <2>2, NewStarted, Zenon
    <2>3. CASE Set(i, [Idle EXCEPT !.pc = "gen", !.name = m, !.opt = o, !.conf = Conf(0, tmp[tmpFile(m)], FALSE)])
        BY <1>3, <1>4, <1>6, <2>3, NewStarted, Zenon
    <2>4. ASSUME NEW merge, Set(i, [Idle EXCEPT !.pc = "gen", !.name = m, !.opt = o, !.conf = Conf(0, 0, FALSE), !.noMerge = merge])
          PROVE  TokenTypes' /\ NamesKept'
        BY <1>3, <1>5, <1>6, <2>4, NewStarted, Zenon
    <2> QED BY <2>1, <2>2, <2>3, <2>4
<1>13. CASE reauthenticate(i, m, o)
    <2>1. file[m] # NULL /\ Set(i, [Idle EXCEPT !.pc = "gen", !.name = m, !.opt = o, !.conf = [file[m] EXCEPT !.reg = FALSE]])
        BY <1>13 DEF reauthenticate, Begin
    <2> QED BY <1>3, <1>9, <2>1, NewStarted, Zenon
<1>14. CASE handleDelete(i, m, o)
    <2>1. file[m] # NULL
        BY <1>14 DEF handleDelete
    <2>2. PICK pc \in {"askClient", "delete"} : Set(i, [Idle EXCEPT !.pc = pc, !.name = m, !.opt = o, !.conf = file[m]])
        BY <1>14 DEF handleDelete, Begin
    <2>3. Startable(pc, m, file[m], NULL, 0)
        BY <1>10, <2>1, <2>2
    <2> QED BY <1>3, <2>2, <2>3, NewStarted, Zenon
<1> QED BY <1>11, <1>12, <1>13, <1>14

LEMMA RenameKept ==
    ASSUME ServerInv, TokenTypes, NamesKept, NEW i \in Procs, NEW o, NEW m \in Names, NEW new \in Names,
           gen_handleRename(i, m, new, o)
    PROVE  TokenTypes' /\ NamesKept'
<1>1. ~Working(i) /\ Quiet /\ Counted /\ file[m] # NULL /\ file[new] = NULL /\ loose \subseteq loose'
    BY DEF gen_handleRename, Free
<1>2. \A x \in Names \ loose' : x = m \/ x = new => Alone(i, x)
    BY DEF gen_handleRename, Alone, Uses, Working
<1>3. IsConf(file[m], count.token)
    BY <1>1 DEF TokenTypes, StoreTyped, FilesTyped, MaybeConf
<1> DEFINE conf == [file[m] EXCEPT !.reg = FALSE]
           g == [Idle EXCEPT !.pc = "save", !.name = m, !.new = new, !.opt = o, !.conf = conf]
<1>4. Startable("save", m, conf, new, 0)
    BY <1>1, <1>3, ConfReg DEF Startable, FileHas
<1>5. Set(i, g)
    BY DEF gen_handleRename
<1> HIDE DEF conf
<1>6. Started(g, "save", m, conf, new, 0)
    BY NewStarted, Zenon
<1> HIDE DEF g
<1> QED BY <1>1, <1>2, <1>4, <1>5, <1>6, StartPlain

LEMMA LookUpKept ==
    ASSUME ServerInv, TokenTypes, NamesKept, NEW i \in Procs, NEW o, NEW n \in Auths, stateLookUpWithConfigSave(i, n, o)
    PROVE  TokenTypes' /\ NamesKept'
<1>1. ~Working(i) /\ Quiet /\ Counted /\ flow[n].at # "none" /\ Clash(i, flow[n].name)
    BY DEF stateLookUpWithConfigSave, Free
<1>2. PICK m \in Names : m = flow[n].name
    BY <1>1 DEF TokenTypes, StoreTyped, FlowsTyped
<1>3. loose \subseteq loose' /\ \A x \in Names \ loose' : x = m \/ x = NULL => Alone(i, x)
    BY <1>1, <1>2, ClashAlone, GenClientAssumption
<1>4. Startable("lookup", m, NULL, NULL, n)
    BY <1>1, <1>2 DEF Startable
<1> DEFINE g == [Idle EXCEPT !.pc = "lookup", !.name = m, !.opt = o, !.state = n]
<1>5. Set(i, g)
    BY <1>2 DEF stateLookUpWithConfigSave
<1>6. Started(g, "lookup", m, NULL, NULL, n)
    BY NewStarted, Zenon
<1> HIDE DEF g
<1> QED BY <1>1, <1>3, <1>4, <1>5, <1>6, StartPlain

\* A process goes on with its account.
Moved(g, h, pc, conf) ==
    IsProc(g) /\ g.pc = pc /\ g.name = h.name /\ g.new = h.new /\ g.state = h.state /\ g.conf = conf

LEMMA MovePlain ==
    ASSUME ServerInv, TokenTypes, NamesKept, NEW i \in Procs, Still, NEW g, NEW pc, NEW conf, Set(i, g),
           Moved(g, gen[i], pc, conf), Working(i), pc \notin {"idle", "save", "lookup"},
           gen[i].new # NULL => pc = "remove", KnownConf(i, g),
           MaybeConf(conf, count.token), pc \in Configured => conf # NULL,
           gen[i].pc = "save" => gen[i].new # NULL, gen[i].pc \in Polling <=> pc \in Polling,
           \A m \in Names \ loose' : g.name = m => ProcKnows(g, m)'
    PROVE  TokenTypes' /\ NamesKept'
<1>1. ProcTyped(gen[i], count.token) /\ Follows(gen[i]) /\ gen[i].pc # "idle"
    BY DEF TokenTypes, ProcsTyped, Working
<1>2. ProcTyped(g, count.token)
    BY <1>1 DEF ProcTyped, Moved
<1>3. Follows(g)
    BY <1>1 DEF Follows, Moved, Polling, Watching
<1>4. ASSUME NEW m \in Names \ loose' PROVE
          /\ Uses(g, m) => Uses(gen[i], m) \/ Alone(i, m)
          /\ Keeps(gen[i], m) => Keeps(g, m)
          /\ ~(g.pc = "save" /\ g.new = m)
    BY <1>1, <1>4 DEF Uses, Keeps, Moved
<1>5. \A n \in Auths : Watches(gen[i], n) => Watches(g, n)
    BY DEF Watches, Moved
<1>6. Plain(i, g)
    BY <1>2, <1>3, <1>4, <1>5 DEF Plain
<1> QED BY <1>6, PlainStep

\* A process that holds nothing yet has nothing to make sure of.
LEMMA KnowsNothing ==
    ASSUME NEW g, NEW m, g.pc \in {"register", "public", "gen"}
    PROVE  ProcKnows(g, m)'
BY DEF ProcKnows, Polling

LEMMA RegisterKept ==
    ASSUME ServerInv, TokenTypes, NamesKept, NEW i \in Procs, handleRegister(i) \/ gen_handlePublicClient(i)
    PROVE  TokenTypes' /\ NamesKept'
<1>1. gen[i].pc \in {"register", "public"} /\ IsProc(gen[i]) /\ ProcTyped(gen[i], count.token)
    BY ProcAt DEF handleRegister, gen_handlePublicClient, TokenTypes, ProcsTyped
<1>2. gen[i].name \in Names /\ gen[i].new = NULL /\ MaybeConf(gen[i].conf, count.token)
    BY <1>1 DEF ProcTyped
<1>3. /\ UNCHANGED <<file, loaded, flow, owner, server, servers, valid, loose>>
    BY DEF handleRegister, gen_handlePublicClient, Quiet, agent
<1>4. count'.token = count.token /\ count'.client \in 0..MaxClient /\ (count.client < MaxClient => count.client + 1 \in 0..MaxClient)
    <2>1. UNCHANGED count \/ (count.client < MaxClient /\ count' = [count EXCEPT !.client = count.client + 1])
        BY DEF handleRegister, gen_handlePublicClient
    <2>2. count.client \in 0..MaxClient /\ MaxClient \in Nat
        BY GenClientAssumption DEF TokenTypes, StoreTyped, ClientsTyped
    <2> QED BY <2>1, <2>2 DEF ServerInv, Counts
<1>5. ClientsTyped'
    <2>1. tmpFile(gen[i].name) \in Paths
        BY <1>2 DEF tmpFile, Paths
    <2>2. \/ tmp' = tmp
          \/ tmp' = [tmp EXCEPT ![tmpFile(gen[i].name)] = count.client + 1] /\ count.client < MaxClient
        BY DEF handleRegister, gen_handlePublicClient, Quiet, agent
    <2> HIDE DEF tmpFile
    <2> QED BY <1>4, <2>1, <2>2 DEF TokenTypes, StoreTyped, ClientsTyped
<1>6. Still
    BY <1>3, <1>4, <1>5 DEF Still, TokenTypes, StoreTyped, ServersTyped
<1>7. \/ \E how : End(i, how)
      \/ \E x : \E c \in 0..MaxClient : Set(i, [gen[i] EXCEPT !.pc = "gen", !.noMerge = x, !.conf = Conf(0, c, FALSE)])
      \/ \E c \in 0..MaxClient : Set(i, [gen[i] EXCEPT !.pc = "gen", !.conf = Conf(0, c, FALSE)])
      \/ Set(i, [gen[i] EXCEPT !.pc = "public"])
    <2>1. 0 \in 0..MaxClient
        BY GenClientAssumption
    <2>2. \/ \E how : End(i, how)
          \/ /\ Set(i, [gen[i] EXCEPT !.pc = "gen", !.noMerge = FALSE, !.conf = Conf(0, count.client + 1, FALSE)])
             /\ count.client < MaxClient
          \/ Set(i, [gen[i] EXCEPT !.pc = "gen", !.noMerge = TRUE, !.conf = Conf(0, 0, FALSE)])
          \/ Set(i, [gen[i] EXCEPT !.pc = "gen", !.conf = Conf(0, 0, FALSE)])
          \/ Set(i, [gen[i] EXCEPT !.pc = "public"])
        BY DEF handleRegister, gen_handlePublicClient
    <2> QED BY <1>4, <2>1, <2>2
<1>8. ASSUME NEW how, End(i, how) PROVE TokenTypes' /\ NamesKept'
    BY <1>1, <1>6, <1>8, EndPlain DEF Polling, Watches
<1>9. ASSUME NEW g, NEW c \in 0..MaxClient, Set(i, g), Moved(g, gen[i], "gen", Conf(0, c, FALSE))
      PROVE  TokenTypes' /\ NamesKept'
    <2>1. count.token \in Nat /\ 0 \in 0..MaxAuth /\ 0 <= count.token
        BY GenClientAssumption DEF TokenTypes, StoreTyped, TokensTyped
    <2>2. PICK conf : conf = Conf(0, c, FALSE)
        OBVIOUS
    <2>3. IsConf(conf, count.token) /\ conf # NULL /\ conf.rt = 0
        BY <2>1, <2>2, ConfTyped
    <2>4. Moved(g, gen[i], "gen", conf) /\ MaybeConf(conf, count.token) /\ KnownConf(i, g)
        BY <1>9, <2>2, <2>3 DEF MaybeConf, KnownConf, Moved
    <2>5. \A m \in Names \ loose' : ProcKnows(g, m)'
        BY <2>4, KnowsNothing DEF Moved
    <2> QED BY <1>1, <1>2, <1>6, <1>9, <2>3, <2>4, <2>5, MovePlain DEF Working, Polling
<1>10. ASSUME NEW x, NEW c \in 0..MaxClient, Set(i, [gen[i] EXCEPT !.pc = "gen", !.noMerge = x, !.conf = Conf(0, c, FALSE)])
       PROVE  TokenTypes' /\ NamesKept'
    <2> DEFINE g == [gen[i] EXCEPT !.pc = "gen", !.noMerge = x, !.conf = Conf(0, c, FALSE)]
    <2>1. Set(i, g)
        BY <1>10
    <2>2. Moved(g, gen[i], "gen", Conf(0, c, FALSE))
        BY <1>1 DEF Moved, IsProc, Fields
    <2> HIDE DEF g
    <2> QED BY <1>9, <2>1, <2>2
<1>11. ASSUME NEW c \in 0..MaxClient, Set(i, [gen[i] EXCEPT !.pc = "gen", !.conf = Conf(0, c, FALSE)])
       PROVE  TokenTypes' /\ NamesKept'
    <2> DEFINE g == [gen[i] EXCEPT !.pc = "gen", !.conf = Conf(0, c, FALSE)]
    <2>1. Set(i, g)
        BY <1>11
    <2>2. Moved(g, gen[i], "gen", Conf(0, c, FALSE))
        BY <1>1 DEF Moved, IsProc, Fields
    <2> HIDE DEF g
    <2> QED BY <1>9, <2>1, <2>2
<1>12. CASE Set(i, [gen[i] EXCEPT !.pc = "public"])
    <2>1. PICK g : g = [gen[i] EXCEPT !.pc = "public"]
        OBVIOUS
    <2>2. Set(i, g) /\ Moved(g, gen[i], "public", gen[i].conf)
        BY <1>1, <1>12, <2>1 DEF Moved, IsProc, Fields
    <2>3. KnownConf(i, g)
        BY <2>2 DEF Moved, KnownConf
    <2>4. \A m \in Names \ loose' : ProcKnows(g, m)'
        BY <2>2, KnowsNothing DEF Moved
    <2> QED BY <1>1, <1>2, <1>6, <2>2, <2>3, <2>4, MovePlain DEF Working, Polling, Configured
<1> QED BY <1>7, <1>8, <1>10, <1>11, <1>12

\* A process that waits goes on waiting.
LEMMA WaitsOn ==
    ASSUME ServerInv, TokenTypes, NamesKept, NEW i \in Procs, Still, UNCHANGED valid, NEW g, NEW pc, Set(i, g),
           Moved(g, gen[i], pc, gen[i].conf), gen[i].pc \in Polling, pc \in Polling
    PROVE  TokenTypes' /\ NamesKept'
<1>1. ProcTyped(gen[i], count.token) /\ Working(i) /\ pc \notin {"idle", "save", "lookup"}
    BY DEF TokenTypes, ProcsTyped, Working, Polling
<1>2. gen[i].new = NULL /\ MaybeConf(gen[i].conf, count.token) /\ pc \notin Configured /\ gen[i].pc # "save"
    BY <1>1 DEF ProcTyped, Polling, Configured
<1>3. KnownConf(i, g)
    BY DEF KnownConf, Moved
<1>4. ASSUME NEW m \in Names \ loose', g.name = m PROVE ProcKnows(g, m)'
    <2>1. ProcKnows(gen[i], m) /\ NameKept(m)
        BY <1>1, <1>4 DEF NamesKept, NameKept, Moved, Still, Working
    <2>2. ProcKnows(g, m)
        BY <2>1 DEF ProcKnows, Moved, Polling
    <2>3. ProcTyped(g, count.token)
        BY <1>1, <1>2 DEF ProcTyped, Moved, Polling
    <2>4. SameTokens(m) /\ file'[m] = file[m] /\ loaded'[m] = loaded[m] /\ flow'[g.state].at = flow[g.state].at
        BY DEF SameTokens, Still
    <2>5. ASSUME NEW t \in 1..count.token, Spare(m, t) PROVE Spare(m, t)'
        <3>1. \A j \in Procs : gen'[j].conf = gen[j].conf
            BY DEF Set, ServerInv, Moved
        <3> QED BY <2>5, <3>1 DEF Spare, FileHas, Still
    <2> QED BY <2>2, <2>3, <2>4, <2>5, KnowsStays
<1> QED BY <1>1, <1>2, <1>3, <1>4, MovePlain

LEMMA SignalHandlerKept ==
    ASSUME ServerInv, TokenTypes, NamesKept, NEW i \in Procs, registerSignalHandler(i)
    PROVE  TokenTypes' /\ NamesKept'
<1>1. Still /\ UNCHANGED valid
    BY QuietStill DEF registerSignalHandler, Quiet
<1>2. PICK g : g = [gen[i] EXCEPT !.pc = "poll"]
    OBVIOUS
<1>3. Set(i, g) /\ Moved(g, gen[i], "poll", gen[i].conf)
    BY <1>2, ProcAt DEF registerSignalHandler, Moved, IsProc, Fields
<1> QED BY <1>1, <1>3, WaitsOn DEF registerSignalHandler, Polling

LEMMA TermStill ==
    ASSUME ServerInv, TokenTypes, NEW n \in Auths, termHttpServer(n),
           UNCHANGED <<file, tmp, loaded, flow, valid, count, owner>>, loose \subseteq loose'
    PROVE  Still /\ (flow[n].at # "exchanged" => ~Pending(n)')
<1>1. server = [k \in Auths |-> server[k]] /\ \A k \in Auths : server[k] = "up" => k \in servers
    BY DEF TokenTypes, StoreTyped, ServersTyped
<1>2. /\ server' = [k \in Auths |-> server'[k]]
      /\ \A k \in Auths : server'[k] = "up" => server[k] = "up" /\ k # n /\ k \in servers'
    BY <1>1 DEF termHttpServer
<1>3. ServersTyped' /\ ClientsTyped'
    BY <1>2 DEF ServersTyped, TokenTypes, StoreTyped, ClientsTyped
<1>4. Still
    BY <1>2, <1>3 DEF Still
<1> QED BY <1>2, <1>4 DEF Pending

LEMMA PollKept ==
    ASSUME ServerInv, TokenTypes, NamesKept, NEW i \in Procs, singleStateLookUp(i), flow[gen[i].state].at # "exchanged"
    PROVE  TokenTypes' /\ NamesKept'
<1>1. PICK n \in Auths : n = gen[i].state
    BY DEF singleStateLookUp, Waits, ServerInv, Tidy, Watching
<1>2. gen[i].pc \in Waits /\ UNCHANGED <<file, tmp, loaded, valid, count, owner>> /\ flow[n].at # "exchanged"
    BY <1>1 DEF singleStateLookUp
<1>3. UNCHANGED <<flow, server, servers, loose>> => Still
    BY <1>2, QuietStill DEF Quiet, agent
<1>4. CASE flow[n].at = "taken" /\ End(i, "found but done") /\ UNCHANGED <<flow, server, servers, loose>>
    <2>1. \A k \in Auths : Watches(gen[i], k) => ~Pending(k)'
        BY <1>1, <1>4 DEF Watches, Pending
    <2> QED BY <1>2, <1>3, <1>4, <2>1, EndPlain DEF Waits
<1>5. CASE /\ gen[i].pc = "poll" /\ Set(i, [gen[i] EXCEPT !.polls = @ + 1]) /\ UNCHANGED <<flow, server, servers, loose>>
    <2>1. PICK g : g = [gen[i] EXCEPT !.polls = @ + 1]
        OBVIOUS
    <2>2. Set(i, g) /\ Moved(g, gen[i], "poll", gen[i].conf)
        BY <1>5, <2>1, ProcAt DEF Moved, IsProc, Fields
    <2> QED BY <1>2, <1>3, <1>5, <2>2, WaitsOn DEF Polling
<1>6. CASE giveUp(i) /\ UNCHANGED <<flow, loose>>
    <2>1. End(i, "gave up") /\ termHttpServer(n)
        BY <1>1, <1>6 DEF giveUp
    <2>2. Still /\ ~Pending(n)'
        BY <1>2, <1>6, <2>1, TermStill
    <2>3. \A k \in Auths : Watches(gen[i], k) => ~Pending(k)'
        BY <1>1, <2>2 DEF Watches
    <2> QED BY <1>2, <2>1, <2>2, <2>3, EndPlain DEF Waits
<1>7. CASE gen[i].pc = "lookup" /\ End(i, "error") /\ UNCHANGED <<flow, server, servers, loose>>
    BY <1>2, <1>3, <1>7, EndPlain DEF Watches, Polling
<1> QED BY <1>1, <1>2, <1>4, <1>5, <1>6, <1>7 DEF singleStateLookUp

LEMMA CutOffKept ==
    ASSUME ServerInv, TokenTypes, NamesKept, NEW i \in Procs, lookUpFails(i) \/ gen_http_signal_handler(i) \/ Killed(i)
    PROVE  TokenTypes' /\ NamesKept'
<1>1. CASE lookUpFails(i)
    <2>1. flow[gen[i].state].name = gen[i].name
        BY <1>1 DEF lookUpFails, Waits, TokenTypes, ProcsTyped, Follows, Watching
    <2>2. Still
        BY <1>1, QuietStill DEF lookUpFails, Loosen
    <2>3. gen[i].name \in loose' /\ End(i, "error")
        BY <1>1, <2>1 DEF lookUpFails, Loosen
    <2> QED BY <2>2, <2>3, EndPlain
<1>2. CASE Killed(i)
    <2>1. gen[i].name \in Names
        BY <1>2 DEF Killed, Working, TokenTypes, ProcsTyped, ProcTyped
    <2>2. Still
        BY <1>2, QuietStill DEF Killed
    <2>3. gen[i].name \in loose' /\ End(i, "killed")
        BY <1>2, <2>1, GenClientAssumption DEF Killed
    <2> QED BY <2>2, <2>3, EndPlain
<1>3. CASE gen_http_signal_handler(i)
    <2>1. PICK n \in Auths : n = gen[i].state
        BY <1>3 DEF gen_http_signal_handler, ServerInv, Tidy, Watching
    <2>2. Still
        BY <1>3, <2>1, TermStill DEF gen_http_signal_handler, Loosen
    <2>3. gen[i].name \in loose' /\ End(i, "interrupted")
        BY <1>3 DEF gen_http_signal_handler, Loosen
    <2> QED BY <2>2, <2>3, EndPlain
<1> QED BY <1>1, <1>2, <1>3

LEMMA DeleteTyped ==
    ASSUME ServerInv, TokenTypes, NEW i \in Procs, gen[i].pc \in {"askClient", "delete"}
    PROVE  /\ gen[i].new = NULL /\ gen[i].name \in Names /\ IsConf(gen[i].conf, count.token) /\ gen[i].conf # NULL
           /\ MaybeConf(gen[i].conf, count.token)
BY DEF TokenTypes, ProcsTyped, ProcTyped, Configured, MaybeConf

LEMMA DeleteMoves ==
    ASSUME ServerInv, TokenTypes, NamesKept, NEW i \in Procs, gen[i].pc \in {"askClient", "delete"}, Still,
           NEW g, NEW pc \in {"askClient", "delete"}, Set(i, g), Moved(g, gen[i], pc, gen[i].conf),
           gen[i].name \notin loose' => (g.revoke /\ gen[i].revoke) \/ (~g.revoke /\ gen[i].conf.rt \notin valid')
                                         \/ (~gen[i].revoke)
    PROVE  TokenTypes' /\ NamesKept'
<1>1. /\ gen[i].new = NULL /\ gen[i].name \in Names /\ gen[i].conf # NULL
      /\ MaybeConf(gen[i].conf, count.token)
    BY DeleteTyped
<1>2. Working(i) /\ pc \notin {"idle", "save", "lookup"} /\ gen[i].pc \notin Polling /\ pc \notin Polling
    BY DEF Working, Polling
<1>3. KnownConf(i, g)
    BY DEF KnownConf, Moved
<1>4. ASSUME NEW m \in Names \ loose', g.name = m PROVE ProcKnows(g, m)'
    <2>1. ProcKnows(gen[i], m) /\ g.pc \in {"askClient", "delete"} /\ gen[i].name = m /\ g.conf = gen[i].conf
        BY <1>2, <1>4 DEF NamesKept, NameKept, Moved, Still, Working
    <2>2. FileHas(m, g.conf.rt)'
        BY <2>1 DEF ProcKnows, FileHas, Still
    <2>3. g.revoke \/ g.conf.rt \notin valid'
        BY <1>4, <2>1 DEF ProcKnows, Still
    <2> QED BY <2>1, <2>2, <2>3 DEF ProcKnows, Polling
<1> QED BY <1>1, <1>2, <1>3, <1>4, MovePlain

LEMMA DeleteClientKept ==
    ASSUME ServerInv, TokenTypes, NamesKept, NEW i \in Procs, deleteClient(i)
    PROVE  TokenTypes' /\ NamesKept'
<1>1. gen[i].pc \in {"askClient", "delete"} /\ gen[i].pc = "askClient" /\ IsProc(gen[i])
    BY ProcAt DEF deleteClient
<1>2. Still
    BY DEF deleteClient, agent, Still, TokenTypes, StoreTyped, ClientsTyped, ServersTyped
<1>3. CASE /\ valid' = valid \ {gen[i].conf.rt}
           /\ Set(i, [gen[i] EXCEPT !.pc = "delete", !.revoke = FALSE])
    <2>1. PICK g : g = [gen[i] EXCEPT !.pc = "delete", !.revoke = FALSE]
        OBVIOUS
    <2>2. Set(i, g) /\ Moved(g, gen[i], "delete", gen[i].conf) /\ ~g.revoke
        BY <1>1, <1>3, <2>1 DEF Moved, IsProc, Fields
    <2>3. gen[i].conf.rt \notin valid'
        BY <1>3
    <2> QED BY <1>1, <1>2, <2>2, <2>3, DeleteMoves
<1>4. CASE Set(i, [gen[i] EXCEPT !.pc = "delete"])
    <2>1. PICK g : g = [gen[i] EXCEPT !.pc = "delete"]
        OBVIOUS
    <2>2. Set(i, g) /\ Moved(g, gen[i], "delete", gen[i].conf)
        BY <1>1, <1>4, <2>1 DEF Moved, IsProc, Fields
    <2>3. g.revoke = gen[i].revoke
        BY <1>1, <2>1 DEF IsProc, Fields
    <2>4. (g.revoke /\ gen[i].revoke) \/ ~gen[i].revoke
        BY <2>3, Zenon
    <2> QED BY <1>1, <1>2, <2>2, <2>4, DeleteMoves
<1>5. CASE End(i, "error")
    BY <1>1, <1>2, <1>5, EndPlain DEF Watches, Polling
<1> QED BY <1>3, <1>4, <1>5 DEF deleteClient

LEMMA DeleteFails ==
    ASSUME ServerInv, TokenTypes, NamesKept, NEW i \in Procs, gen[i].pc = "delete",
           UNCHANGED <<file, loaded, valid, tmp, flow, server, servers, count, owner>>,
           \/ /\ Loosen(gen[i].name)
              /\ Set(i, [gen[i] EXCEPT !.pc = IF gen[i].conf.reg THEN "askClient" ELSE "delete", !.revoke = FALSE])
           \/ End(i, "error") /\ UNCHANGED loose
    PROVE  TokenTypes' /\ NamesKept'
<1>1. Still
    BY QuietStill DEF Quiet, agent, Loosen
<1>2. CASE End(i, "error")
    BY <1>1, <1>2, EndPlain DEF Watches, Polling
<1>3. CASE /\ Loosen(gen[i].name)
           /\ Set(i, [gen[i] EXCEPT !.pc = IF gen[i].conf.reg THEN "askClient" ELSE "delete", !.revoke = FALSE])
    <2>1. PICK pc \in {"askClient", "delete"} : pc = IF gen[i].conf.reg THEN "askClient" ELSE "delete"
        OBVIOUS
    <2>2. PICK g : g = [gen[i] EXCEPT !.pc = pc, !.revoke = FALSE]
        OBVIOUS
    <2>3. Set(i, g)
        BY <1>3, <2>1, <2>2
    <2>4. Moved(g, gen[i], pc, gen[i].conf)
        BY <2>2, ProcAt DEF Moved, IsProc, Fields
    <2>5. gen[i].name \in loose'
        BY <1>3 DEF Loosen
    <2> QED BY <1>1, <2>3, <2>4, <2>5, DeleteMoves
<1> QED BY <1>2, <1>3

\* The save fails, or is not wanted.
LEMMA UnsavedKept ==
    ASSUME ServerInv, TokenTypes, NamesKept, NEW i \in Procs, gen[i].pc = "save",
           UNCHANGED <<loaded, flow, server, servers, valid, count, file, tmp, owner>>,
           \/ /\ AfterSave(i, FALSE)
              /\ IF gen[i].new = NULL THEN Loosen(gen[i].name) ELSE UNCHANGED loose
           \/ AfterSave(i, TRUE) /\ Loosen(gen[i].name)
    PROVE  TokenTypes' /\ NamesKept'
<1>1. Still
    BY QuietStill DEF Quiet, agent, Loosen
<1>2. gen[i].new = NULL => gen[i].name \in loose'
    BY DEF Loosen
<1>3. \/ End(i, "done")
      \/ gen[i].new # NULL /\ Loosen(gen[i].name) /\ Set(i, [gen[i] EXCEPT !.pc = "remove"])
    BY DEF AfterSave
<1>4. CASE End(i, "done")
    BY <1>1, <1>2, <1>4, EndPlain DEF Watches, Polling
<1>5. CASE gen[i].new # NULL /\ Loosen(gen[i].name) /\ Set(i, [gen[i] EXCEPT !.pc = "remove"])
    <2>1. PICK g : g = [gen[i] EXCEPT !.pc = "remove"]
        OBVIOUS
    <2>2. Set(i, g) /\ Moved(g, gen[i], "remove", gen[i].conf)
        BY <1>5, <2>1, ProcAt DEF Moved, IsProc, Fields
    <2>3. \A m \in Names \ loose' : g.name # m
        BY <1>5, <2>2 DEF Moved, Loosen
    <2>4. KnownConf(i, g) /\ MaybeConf(gen[i].conf, count.token) /\ "remove" \notin Configured
        BY <2>2 DEF Moved, KnownConf, TokenTypes, ProcsTyped, ProcTyped, Configured
    <2> QED BY <1>1, <1>5, <2>2, <2>3, <2>4, MovePlain DEF Working, Polling
<1> QED BY <1>3, <1>4, <1>5

LEMMA GenFails ==
    ASSUME ServerInv, TokenTypes, NamesKept, NEW i \in Procs, gen[i].pc = "gen", End(i, "error"),
           UNCHANGED <<loaded, flow, server, servers, valid, count, owner, file, tmp, loose>>
    PROVE  TokenTypes' /\ NamesKept'
<1>1. Still
    BY QuietStill DEF Quiet, agent
<1> QED BY <1>1, EndPlain DEF Watches, Polling
-----------------------------------------------------------------------------
(* The steps that write, remove, issue or revoke.                          *)

LEMMA AloneThere ==
    ASSUME NEW m, NameKept(m), NEW i \in Procs, Uses(gen[i], m) PROVE Alone(i, m)
BY DEF NameKept, Alone

LEMMA NotPending ==
    ASSUME TokenTypes, NEW m, NameKept(m), NEW i \in Procs, Alone(i, m), NEW n \in Auths, flow[n].name = m,
           ~Watches(gen[i], n)
    PROVE  ~Pending(n)
<1> SUFFICES ASSUME Pending(n) PROVE FALSE
    OBVIOUS
<1>1. PICK j \in Procs : Watches(gen[j], n)
    BY DEF NameKept
<1>2. Uses(gen[j], m)
    BY <1>1 DEF Watches, Uses, TokenTypes, ProcsTyped, Follows, Polling, Watching
<1> QED BY <1>1, <1>2 DEF Alone

LEMMA OnlyInFile ==
    ASSUME NEW m, NameKept(m), NEW i \in Procs, Alone(i, m), ~Keeps(gen[i], m), NEW t \in Auths, Current(m, t)
    PROVE  FileHas(m, t)
<1> SUFFICES ASSUME NEW j \in Procs, Keeps(gen[j], m) PROVE FALSE
    BY DEF NameKept
<1>1. Uses(gen[j], m)
    BY DEF Keeps, Uses, Polling
<1> QED BY <1>1 DEF Alone

\* Process i, which becomes g, has nothing to do with account x.
LEMMA OthersUse ==
    ASSUME ServerInv, NEW i \in Procs, NEW g, Set(i, g), NEW x, ~Uses(gen[i], x), ~Uses(g, x)
    PROVE  SameUsers(x)
<1>1. gen'[i] = g /\ \A j \in Procs \ {i} : gen'[j] = gen[j]
    BY DEF Set, ServerInv
<1> QED BY <1>1 DEF SameUsers

LEMMA SpareStays ==
    ASSUME ServerInv, TokenTypes, NEW i \in Procs, NEW g, Set(i, g), NEW x, NEW t \in 1..count.token, Spare(x, t),
           \A y \in Names \ {x} : loaded'[y] # t,
           \A y \in Names : ~FileHas(y, t)',
           g.conf # NULL => g.conf.rt # t
    PROVE  Spare(x, t)'
<1>1. gen'[i] = g /\ \A j \in Procs \ {i} : gen'[j] = gen[j]
    BY DEF Set, ServerInv
<1> QED BY <1>1 DEF Spare

\* What is not there to begin with.
Ended(g) == g.pc = "idle" /\ g.conf = NULL /\ g.new = NULL

LEMMA EndIs == ASSUME NEW i, NEW how, End(i, how) PROVE \E g : Set(i, g) /\ Ended(g)
<1> DEFINE x == IF how \in Orderly THEN gen[i].state ELSE 0
           g == [Idle EXCEPT !.polled = x]
<1>1. Set(i, g)
    BY DEF End
<1> HIDE DEF x
<1>2. Ended(g)
    BY DEF Idle, Ended
<1> HIDE DEF g
<1> QED BY <1>1, <1>2

LEMMA EndedTyped == ASSUME NEW g, Ended(g), NEW top PROVE ProcTyped(g, top) /\ g.pc \notin Watching
BY DEF Ended, ProcTyped, MaybeConf, Configured, Watching

LEMMA RemoveOldKept ==
    ASSUME ServerInv, TokenTypes, NamesKept, NEW i \in Procs, removeOldFile(i)
    PROVE  TokenTypes' /\ NamesKept'
<1>1. /\ gen[i].pc = "remove" /\ file' = [file EXCEPT ![gen[i].name] = NULL]
      /\ UNCHANGED <<valid, count, owner, loose, tmp, loaded, flow, server, servers>> /\ End(i, "done")
    BY DEF removeOldFile, agent
<1>2. PICK g : Set(i, g) /\ Ended(g)
    BY <1>1, EndIs
<1>3. PICK m \in Names : m = gen[i].name
    BY <1>1 DEF TokenTypes, ProcsTyped, ProcTyped
<1>4. file'[m] = NULL /\ \A x \in Names : x # m => file'[x] = file[x]
    BY <1>1, <1>3 DEF TokenTypes, StoreTyped, FilesTyped
<1>5. TokenTypes'
    <2>1. FilesTyped'
        BY <1>1, <1>3, <1>4 DEF TokenTypes, StoreTyped, FilesTyped, MaybeConf
    <2>2. LoadedTyped' /\ ClientsTyped' /\ ServersTyped' /\ TokensTyped' /\ FlowsTyped'
        BY <1>1 DEF TokenTypes, StoreTyped, LoadedTyped, ClientsTyped, ServersTyped, TokensTyped, FlowsTyped
    <2>3. Onwards
        BY <1>1 DEF Onwards, TokenTypes, StoreTyped, TokensTyped
    <2>4. ProcsTyped'
        BY <1>2, <2>3, EndedTyped, ProcTypes
    <2> QED BY <2>1, <2>2, <2>4 DEF TokenTypes, StoreTyped
<1>6. ASSUME NEW x \in Names \ loose' PROVE NameKept(x)'
    <2>1. NameKept(x)
        BY <1>1, <1>6 DEF NamesKept
    <2>2. SameTokens(x) /\ SameFlows(x) /\ loaded'[x] = loaded[x]
        BY <1>1 DEF SameTokens, SameFlows
    <2>3. CASE Uses(gen[i], x)
        <3>1. Alone(i, x)
            BY <2>1, <2>3, AloneThere
        <3>2. \A n \in Auths : Pending(n)' /\ flow'[n].name = x => FALSE
            <4>1. \A n \in Auths : ~Watches(gen[i], n)
                BY <1>1 DEF Watches, Polling
            <4>2. \A n \in Auths : flow[n].name = x => ~Pending(n)
                BY <2>1, <3>1, <4>1, NotPending
            <4> QED BY <1>1, <4>2 DEF Pending
        <3>3. ASSUME NEW t \in Auths, Current(x, t)' PROVE FileHas(x, t)'
            <4>1. Current(x, t)
                BY <2>2, <3>3, CurrentStays
            <4>2. x # m
                <5>1. x = m => \A u \in 1..count.token : owner[u] # x
                    BY <1>1, <1>3, <2>1 DEF NameKept, ProcKnows
                <5> QED BY <4>1, <5>1 DEF Current, Newest
            <4>3. ~Keeps(gen[i], x)
                BY <1>1 DEF Keeps, Polling
            <4>4. FileHas(x, t)
                BY <2>1, <3>1, <4>1, <4>3, OnlyInFile
            <4> QED BY <1>4, <4>2, <4>4 DEF FileHas
        <3> QED BY <1>2, <3>1, <3>2, <3>3, OnlyMine DEF Ended
    <2>4. CASE ~Uses(gen[i], x)
        <3>1. SameUsers(x)
            BY <1>2, <2>4, OthersUse DEF Ended, Uses
        <3>2. x # m
            BY <1>1, <1>3, <2>4 DEF Uses
        <3>3. ASSUME NEW t \in 1..count.token, Spare(x, t) PROVE Spare(x, t)'
            <4>1. \A y \in Names \ {x} : loaded'[y] # t
                BY <1>1, <3>3 DEF Spare
            <4>2. \A y \in Names : ~FileHas(y, t)'
                BY <1>4, <3>3 DEF Spare, FileHas
            <4> QED BY <1>2, <3>3, <4>1, <4>2, SpareStays DEF Ended
        <3> QED BY <1>4, <2>1, <2>2, <3>1, <3>2, <3>3, Unaffected
    <2> QED BY <2>3, <2>4
<1> QED BY <1>5, <1>6 DEF NamesKept

LEMMA DeleteKept ==
    ASSUME ServerInv, TokenTypes, NamesKept, NEW i \in Procs, deleteAccount(i)
    PROVE  TokenTypes' /\ NamesKept'
<1>0. gen[i].pc = "delete" /\ UNCHANGED <<tmp, flow, server, servers, count, owner>>
    BY DEF deleteAccount
<1>1. CASE /\ removeFile(i) /\ UNCHANGED loose /\ valid' \subseteq valid
           /\ gen[i].conf.rt \notin valid' \/ (~gen[i].revoke /\ UNCHANGED valid)
    <2>1. /\ file' = [file EXCEPT ![gen[i].name] = NULL] /\ loaded' = [loaded EXCEPT ![gen[i].name] = 0]
          /\ End(i, "done")
        BY <1>1 DEF removeFile
    <2>2. PICK g : Set(i, g) /\ Ended(g)
        BY <2>1, EndIs
    <2>3. PICK m \in Names : m = gen[i].name
        BY <1>0 DEF TokenTypes, ProcsTyped, ProcTyped
    <2>4. /\ file'[m] = NULL /\ \A x \in Names : x # m => file'[x] = file[x]
          /\ loaded'[m] = 0 /\ \A x \in Names : x # m => loaded'[x] = loaded[x]
        BY <2>1, <2>3 DEF TokenTypes, StoreTyped, FilesTyped, LoadedTyped
    <2>5. TokenTypes'
        <3>0. count.token \in Nat
            BY DEF TokenTypes, StoreTyped, TokensTyped
        <3>1. FilesTyped'
            BY <1>0, <2>1, <2>3, <2>4 DEF TokenTypes, StoreTyped, FilesTyped, MaybeConf
        <3>2. LoadedTyped'
            BY <1>0, <2>1, <2>3, <2>4, <3>0 DEF TokenTypes, StoreTyped, LoadedTyped
        <3>3. ClientsTyped' /\ ServersTyped' /\ TokensTyped' /\ FlowsTyped'
            BY <1>0, <1>1 DEF TokenTypes, StoreTyped, ClientsTyped, ServersTyped, TokensTyped, FlowsTyped
        <3>4. Onwards
            BY <1>0, <3>0 DEF Onwards
        <3>5. ProcsTyped'
            BY <2>2, <3>4, EndedTyped, ProcTypes
        <3> QED BY <3>1, <3>2, <3>3, <3>5 DEF TokenTypes, StoreTyped
    <2>6. ASSUME NEW x \in Names \ loose' PROVE NameKept(x)'
        <3>1. NameKept(x)
            BY <1>1, <2>6 DEF NamesKept
        <3>2. SameTokens(x) /\ SameFlows(x)
            BY <1>0, <1>1 DEF SameTokens, SameFlows
        <3>3. CASE x = m
            <4>1. Alone(i, x) /\ ProcKnows(gen[i], x)
                BY <1>0, <2>3, <3>1, <3>3, AloneThere DEF Uses, NameKept
            <4>2. \A n \in Auths : Pending(n)' /\ flow'[n].name = x => FALSE
                <5>1. \A n \in Auths : ~Watches(gen[i], n)
                    BY <1>0 DEF Watches, Polling
                <5>2. \A n \in Auths : flow[n].name = x => ~Pending(n)
                    BY <3>1, <4>1, <5>1, NotPending
                <5> QED BY <1>0, <5>2 DEF Pending
            <4>3. ASSUME NEW t \in Auths, Current(x, t)' PROVE FALSE
                <5>1. Current(x, t) /\ t \in valid'
                    BY <3>2, <4>3, CurrentStays DEF Current
                <5>2. ~Keeps(gen[i], x)
                    BY <1>0 DEF Keeps, Polling
                <5>3. FileHas(x, t)
                    BY <3>1, <4>1, <5>1, <5>2, OnlyInFile
                <5>4. gen[i].conf.rt = t
                    BY <1>0, <4>1, <5>3 DEF ProcKnows, FileHas
                <5>5. gen[i].conf.rt \notin valid'
                    BY <1>0, <1>1, <4>1 DEF ProcKnows
                <5> QED BY <5>1, <5>4, <5>5
            <4> QED BY <2>2, <4>1, <4>2, <4>3, OnlyMine DEF Ended
        <3>4. CASE x # m
            <4>1. SameUsers(x)
                <5>1. gen[i].new = NULL
                    BY <1>0, DeleteTyped
                <5>2. ~Uses(gen[i], x)
                    BY <2>3, <2>6, <3>4, <5>1, GenClientAssumption DEF Uses
                <5> QED BY <2>2, <5>2, OthersUse DEF Ended, Uses
            <4>2. ASSUME NEW t \in 1..count.token, Spare(x, t) PROVE Spare(x, t)'
                <5>1. t # 0
                    BY DEF TokenTypes, StoreTyped, TokensTyped
                <5>2. \A y \in Names \ {x} : loaded'[y] # t
                    BY <2>4, <4>2, <5>1 DEF Spare
                <5>3. \A y \in Names : ~FileHas(y, t)'
                    BY <2>4, <4>2 DEF Spare, FileHas
                <5> QED BY <2>2, <4>2, <5>2, <5>3, SpareStays DEF Ended
            <4> QED BY <2>4, <3>1, <3>2, <3>4, <4>1, <4>2, Unaffected
        <3> QED BY <3>3, <3>4
    <2> QED BY <2>5, <2>6 DEF NamesKept
<1>2. CASE \/ /\ gen[i].revoke /\ Loosen(gen[i].name)
              /\ Set(i, [gen[i] EXCEPT !.pc = IF gen[i].conf.reg THEN "askClient" ELSE "delete", !.revoke = FALSE])
              /\ UNCHANGED <<file, loaded, valid>>
           \/ End(i, "error") /\ UNCHANGED <<file, loaded, valid, loose>>
    BY <1>0, <1>2, DeleteFails
<1> QED BY <1>1, <1>2 DEF deleteAccount

LEMMA MergedIs ==
    ASSUME ServerInv, TokenTypes, NEW i \in Procs, gen[i].pc = "save"
    PROVE  IsConf(Merged(i), count.token) /\ Merged(i).rt = gen[i].conf.rt /\ Merged(i) # NULL
           /\ gen[i].conf # NULL
<1>1. IsConf(gen[i].conf, count.token) /\ gen[i].conf # NULL
    BY DEF TokenTypes, ProcsTyped, ProcTyped, Configured, MaybeConf
<1>2. Merged(i) = gen[i].conf \/ Merged(i) = [gen[i].conf EXCEPT !.reg = TRUE]
    BY DEF Merged
<1> HIDE DEF Merged
<1>3. IsConf(Merged(i), count.token) /\ Merged(i).rt = gen[i].conf.rt
    BY <1>1, <1>2, ConfReg
<1> QED BY <1>1, <1>3, ConfReal

\* The account is saved.
LEMMA SavedKept ==
    ASSUME ServerInv, TokenTypes, NamesKept, NEW i \in Procs, gen[i].pc = "save", gen[i].new = NULL, NEW conf,
           IsConf(conf, count.token), conf # NULL, conf.rt = gen[i].conf.rt, gen[i].conf # NULL,
           file' = [file EXCEPT ![gen[i].name] = conf], UNCHANGED owner, UNCHANGED loose, End(i, "done"),
           UNCHANGED <<loaded, flow, server, servers, valid, count>>, ClientsTyped'
    PROVE  TokenTypes' /\ NamesKept'
<1>2. PICK g : Set(i, g) /\ Ended(g)
    BY EndIs
<1>3. PICK m \in Names : m = gen[i].name
    BY DEF TokenTypes, ProcsTyped, ProcTyped
<1>4. file'[m] = conf /\ \A x \in Names : x # m => file'[x] = file[x]
    BY <1>3 DEF TokenTypes, StoreTyped, FilesTyped
<1>5. TokenTypes'
    <2>1. FilesTyped'
        BY <1>3, <1>4 DEF TokenTypes, StoreTyped, FilesTyped, MaybeConf
    <2>2. LoadedTyped' /\ ServersTyped' /\ TokensTyped' /\ FlowsTyped'
        BY DEF TokenTypes, StoreTyped, LoadedTyped, ServersTyped, TokensTyped, FlowsTyped
    <2>3. Onwards
        BY DEF Onwards, TokenTypes, StoreTyped, TokensTyped
    <2>4. ProcsTyped'
        BY <1>2, <2>3, EndedTyped, ProcTypes
    <2> QED BY <2>1, <2>2, <2>4 DEF TokenTypes, StoreTyped
<1>6. ASSUME NEW x \in Names \ loose' PROVE NameKept(x)'
    <2>1. NameKept(x)
        BY <1>6 DEF NamesKept
    <2>2. SameTokens(x) /\ SameFlows(x) /\ loaded'[x] = loaded[x]
        BY DEF SameTokens, SameFlows
    <2>3. CASE x = m
        <3>1. Alone(i, x) /\ ProcKnows(gen[i], x)
            BY <1>3, <2>1, <2>3, AloneThere DEF Uses, NameKept
        <3>2. \A n \in Auths : Pending(n)' /\ flow'[n].name = x => FALSE
            <4>1. \A n \in Auths : ~Watches(gen[i], n)
                BY DEF Watches, Polling
            <4>2. \A n \in Auths : flow[n].name = x => ~Pending(n)
                BY <2>1, <3>1, <4>1, NotPending
            <4> QED BY <4>2 DEF Pending
        <3>3. ASSUME NEW t \in Auths, Current(x, t)' PROVE FileHas(x, t)'
            <4>1. Current(x, t)
                BY <2>2, <3>3, CurrentStays
            <4>2. gen[i].conf.rt = t
                BY <3>1, <4>1 DEF ProcKnows
            <4> QED BY <1>4, <2>3, <4>2 DEF FileHas
        <3> QED BY <1>2, <3>1, <3>2, <3>3, OnlyMine DEF Ended
    <2>4. CASE x # m
        <3>1. SameUsers(x)
            <4>1. ~Uses(gen[i], x)
                BY <1>3, <1>6, <2>4, GenClientAssumption DEF Uses
            <4> QED BY <1>2, <4>1, OthersUse DEF Ended, Uses
        <3>2. ASSUME NEW t \in 1..count.token, Spare(x, t) PROVE Spare(x, t)'
            <4>1. \A y \in Names \ {x} : loaded'[y] # t
                BY <3>2 DEF Spare
            <4>2. \A y \in Names : ~FileHas(y, t)'
                BY <1>4, <3>2 DEF Spare, FileHas
            <4> QED BY <1>2, <3>2, <4>1, <4>2, SpareStays DEF Ended
        <3> QED BY <1>4, <2>1, <2>2, <2>4, <3>1, <3>2, Unaffected
    <2> QED BY <2>3, <2>4
<1> QED BY <1>5, <1>6 DEF NamesKept

\* The account is saved under its new name: its tokens go with it.
LEMMA RenamedKept ==
    ASSUME ServerInv, TokenTypes, NamesKept, NEW i \in Procs, gen[i].pc = "save", gen[i].new # NULL, NEW conf,
           IsConf(conf, count.token), conf # NULL, conf.rt = gen[i].conf.rt, gen[i].conf # NULL,
           file' = [file EXCEPT ![gen[i].new] = conf],
           owner' = [t \in Auths |-> IF owner[t] = gen[i].name THEN gen[i].new ELSE owner[t]],
           loose' = IF gen[i].name \in loose THEN loose \cup {gen[i].new} ELSE loose,
           Set(i, [gen[i] EXCEPT !.pc = "remove"]),
           UNCHANGED <<loaded, flow, server, servers, valid, count>>, ClientsTyped'
    PROVE  TokenTypes' /\ NamesKept'
<1>1. PICK g : g = [gen[i] EXCEPT !.pc = "remove"]
    OBVIOUS
<1>2. Set(i, g) /\ Moved(g, gen[i], "remove", gen[i].conf)
    BY <1>1, ProcAt DEF Moved, IsProc, Fields
<1>3. PICK m \in Names, new \in Names : m = gen[i].name /\ new = gen[i].new
    BY DEF TokenTypes, ProcsTyped, ProcTyped
<1>4. file'[new] = conf /\ \A x \in Names : x # new => file'[x] = file[x]
    BY <1>3 DEF TokenTypes, StoreTyped, FilesTyped
<1>5. \A t \in 1..count.token : t \in Auths /\ owner'[t] = IF owner[t] = m THEN new ELSE owner[t]
    BY <1>3, TokenIsAuth
<1>6. loose \subseteq loose'
    OBVIOUS
<1>7. TokenTypes'
    <2>1. FilesTyped'
        BY <1>3, <1>4 DEF TokenTypes, StoreTyped, FilesTyped, MaybeConf
    <2>2. LoadedTyped' /\ ServersTyped' /\ FlowsTyped'
        BY DEF TokenTypes, StoreTyped, LoadedTyped, ServersTyped, FlowsTyped
    <2>3. TokensTyped'
        BY DEF TokenTypes, StoreTyped, TokensTyped
    <2>4. Onwards
        BY DEF Onwards, TokenTypes, StoreTyped, TokensTyped
    <2>5. ProcTyped(g, count'.token) /\ g.pc \notin Watching
        BY <1>2 DEF Moved, TokenTypes, ProcsTyped, ProcTyped, Configured, Watching
    <2>6. ProcsTyped'
        BY <1>2, <2>4, <2>5, ProcTypes
    <2> QED BY <2>1, <2>2, <2>3, <2>6 DEF TokenTypes, StoreTyped
<1>8. ASSUME NEW x \in Names \ loose' PROVE NameKept(x)'
    <2>1. NameKept(x) /\ x \notin loose
        BY <1>6, <1>8 DEF NamesKept
    <2>2. SameFlows(x) /\ loaded'[x] = loaded[x]
        BY DEF SameFlows
    <2>3. ASSUME x = m \/ x = new PROVE Alone(i, x) /\ \A n \in Auths : Pending(n)' /\ flow'[n].name = x => FALSE
        <3>1. Alone(i, x)
            BY <1>3, <2>1, <2>3, AloneThere DEF Uses
        <3>2. \A n \in Auths : ~Watches(gen[i], n)
            BY DEF Watches, Polling
        <3>3. \A n \in Auths : flow[n].name = x => ~Pending(n)
            BY <2>1, <3>1, <3>2, NotPending
        <3> QED BY <3>1, <3>3 DEF Pending
    <2>4. \A y : ~Keeps(gen[i], y)
        BY DEF Keeps, Polling
    <2>5. m \notin loose => m # new /\ FileHas(m, conf.rt)
        <3>1. m \notin loose => NameKept(m)
            BY DEF NamesKept
        <3>2. m \notin loose => FileHas(m, conf.rt)
            BY <1>3, <3>1 DEF NameKept, ProcKnows
        <3>3. m \notin loose /\ m = new => file[m] = NULL
            BY <1>3, <3>1 DEF NameKept
        <3> QED BY <3>2, <3>3 DEF FileHas
    <2>6. CASE x = m
        <3>1. m # new
            BY <2>1, <2>5, <2>6
        <3>2. \A t \in 1..count'.token : owner'[t] # x
            BY <1>5, <2>6, <3>1
        <3>3. \A t \in Auths : ~Current(x, t)'
            BY <3>2 DEF Current, Newest
        <3>4. ProcKnows(g, x)'
            BY <1>2, <3>2 DEF ProcKnows, Moved, Polling
        <3>5. g.pc # "save"
            BY <1>2 DEF Moved
        <3> QED BY <1>2, <2>3, <2>6, <3>3, <3>4, <3>5, OnlyMine
    <2>7. CASE x = new /\ x # m
        <3>1. m \notin loose /\ NameKept(m)
            BY <1>3, <1>8, <2>7 DEF NamesKept
        <3>2. file[new] = NULL
            BY <1>3, <2>1, <2>7 DEF NameKept
        <3>3. ASSUME NEW t \in Auths, Current(x, t)' PROVE FileHas(x, t)'
            <4>1. t \in 1..count.token /\ owner'[t] = x /\ t \in valid /\ \A u \in 1..count.token : owner'[u] = x => u <= t
                BY <3>3 DEF Current, Newest
            <4>2. CASE owner[t] = m
                <5>1. Current(m, t)
                    BY <1>5, <2>7, <4>1, <4>2 DEF Current, Newest
                <5>2. Alone(i, m)
                    BY <1>3, <3>1, AloneThere DEF Uses
                <5>3. FileHas(m, t)
                    BY <2>4, <3>1, <5>1, <5>2, OnlyInFile
                <5> QED BY <1>4, <2>5, <2>7, <3>1, <5>3 DEF FileHas
            <4>3. CASE owner[t] # m
                <5>1. Current(x, t)
                    BY <1>5, <2>7, <4>1, <4>3 DEF Current, Newest
                <5>2. FileHas(x, t)
                    BY <2>1, <2>3, <2>4, <2>7, <5>1, OnlyInFile
                <5> QED BY <2>7, <3>2, <5>2 DEF FileHas
            <4> QED BY <4>2, <4>3
        <3>4. g.pc # "save" /\ g.name # x
            BY <1>2, <1>3, <2>7 DEF Moved
        <3> QED BY <1>2, <2>3, <2>7, <3>3, <3>4, OnlyMine
    <2>8. CASE x # m /\ x # new
        <3>1. SameUsers(x)
            <4>1. ~Uses(gen[i], x) /\ ~Uses(g, x)
                BY <1>2, <1>3, <2>8 DEF Uses, Moved
            <4> QED BY <1>2, <4>1, OthersUse
        <3>2. SameTokens(x)
            BY <1>5, <2>8 DEF SameTokens
        <3>3. ASSUME NEW t \in 1..count.token, Spare(x, t) PROVE Spare(x, t)'
            <4>1. \A y \in Names \ {x} : loaded'[y] # t
                BY <3>3 DEF Spare
            <4>2. \A y \in Names : ~FileHas(y, t)'
                BY <1>4, <3>3 DEF Spare, FileHas
            <4>3. g.conf # NULL => g.conf.rt # t
                BY <1>2, <3>3 DEF Spare, Moved
            <4> QED BY <1>2, <3>3, <4>1, <4>2, <4>3, SpareStays
        <3> QED BY <1>4, <2>1, <2>2, <2>8, <3>1, <3>2, <3>3, Unaffected
    <2> QED BY <2>6, <2>7, <2>8
<1> QED BY <1>7, <1>8 DEF NamesKept

LEMMA SaveKept ==
    ASSUME ServerInv, TokenTypes, NamesKept, NEW i \in Procs, gen_saveAccountConfig(i)
    PROVE  TokenTypes' /\ NamesKept'
<1>1. gen[i].pc = "save" /\ UNCHANGED <<loaded, flow, server, servers, valid, count>>
    BY DEF gen_saveAccountConfig
<1>2. CASE /\ file' = [file EXCEPT ![Target(i)] = Merged(i)]
           /\ tmp' = IF Merged(i).reg /\ ~gen[i].conf.reg THEN [tmp EXCEPT ![tmpFileToMerge(Target(i))] = 0] ELSE tmp
           /\ owner' = [t \in Auths |-> IF gen[i].new # NULL /\ owner[t] = gen[i].name THEN gen[i].new ELSE owner[t]]
           /\ loose' = IF gen[i].new # NULL /\ gen[i].name \in loose THEN loose \cup {gen[i].new} ELSE loose
           /\ AfterSave(i, TRUE)
    <2>1. PICK conf : conf = Merged(i)
        OBVIOUS
    <2>2. IsConf(conf, count.token) /\ conf.rt = gen[i].conf.rt /\ conf # NULL /\ gen[i].conf # NULL
        BY <1>1, <2>1, MergedIs
    <2>3. ClientsTyped'
        <3>1. tmp' = tmp \/ tmp' = [tmp EXCEPT ![tmpFileToMerge(Target(i))] = 0]
            BY <1>2
        <3>2. 0 \in 0..MaxClient
            BY GenClientAssumption
        <3> QED BY <1>1, <3>1, <3>2 DEF TokenTypes, StoreTyped, ClientsTyped
    <2>4. CASE gen[i].new = NULL
        <3>1. file' = [file EXCEPT ![gen[i].name] = conf]
            BY <1>2, <2>1, <2>4 DEF Target
        <3>2. owner' = owner
            BY <1>2, <2>4 DEF TokenTypes, StoreTyped, TokensTyped
        <3>3. loose' = loose /\ End(i, "done")
            BY <1>2, <2>4 DEF AfterSave
        <3> QED BY <1>1, <2>2, <2>3, <2>4, <3>1, <3>2, <3>3, SavedKept
    <2>5. CASE gen[i].new # NULL
        <3>1. file' = [file EXCEPT ![gen[i].new] = conf]
            BY <1>2, <2>1, <2>5 DEF Target
        <3>2. owner' = [t \in Auths |-> IF owner[t] = gen[i].name THEN gen[i].new ELSE owner[t]]
            BY <1>2, <2>5
        <3>3. /\ loose' = IF gen[i].name \in loose THEN loose \cup {gen[i].new} ELSE loose
              /\ Set(i, [gen[i] EXCEPT !.pc = "remove"])
            BY <1>2, <2>5 DEF AfterSave
        <3> QED BY <1>1, <2>2, <2>3, <2>5, <3>1, <3>2, <3>3, RenamedKept
    <2> QED BY <2>4, <2>5
<1>3. CASE /\ AfterSave(i, FALSE)
           /\ IF gen[i].new = NULL THEN Loosen(gen[i].name) ELSE UNCHANGED loose
           /\ UNCHANGED <<file, tmp, owner>>
    BY <1>1, <1>3, UnsavedKept
<1>4. CASE AfterSave(i, TRUE) /\ Loosen(gen[i].name) /\ UNCHANGED <<file, tmp, owner>>
    BY <1>1, <1>4, UnsavedKept
<1> QED BY <1>2, <1>3, <1>4 DEF gen_saveAccountConfig

\* A token is issued for account m: no one else's tokens change, and no one
\* has had it before.
LEMMA Issued ==
    ASSUME ServerInv, TokenTypes, NEW m \in Names, NEW runs, Issue(m, runs), UNCHANGED file
    PROVE  /\ FilesTyped' /\ LoadedTyped' /\ TokensTyped'
           /\ count'.token = count.token + 1 /\ count'.client = count.client /\ count.token + 1 \in Auths
           /\ loaded'[m] = count.token + 1
           /\ \A x \in Names : x # m => SameTokens(x) /\ loaded'[x] = loaded[x]
           /\ \A t : Current(m, t)' => t = count.token + 1
           /\ \A x \in Names : ~FileHas(x, count.token + 1) /\ loaded[x] # count.token + 1
           /\ \A i \in Procs : gen[i].conf # NULL => gen[i].conf.rt # count.token + 1
<1>0. PICK new : new = count.token + 1
    OBVIOUS
<1>1. /\ count.token \in 1..MaxAuth /\ count.token < MaxAuth /\ MaxAuth \in Nat
      /\ count'.token = new /\ count'.client = count.client
    BY <1>0, GenClientAssumption DEF TokenTypes, StoreTyped, TokensTyped, Issue, ServerInv, Counts
<1>2. new \in Auths /\ new \in Nat /\ count.token \in Nat /\ count.token <= new
    BY <1>0, <1>1 DEF Auths
<1>3. loaded'[m] = new /\ \A x \in Names : x # m => loaded'[x] = loaded[x]
    BY <1>0 DEF Issue, TokenTypes, StoreTyped, LoadedTyped
<1>4. owner'[new] = m /\ \A t \in Auths : t # new => owner'[t] = owner[t]
    BY <1>0, <1>2 DEF Issue, TokenTypes, StoreTyped, TokensTyped
<1>5. FilesTyped'
    <2>1. \A x \in Names : MaybeConf(file[x], new)
        BY <1>2, Wider DEF TokenTypes, StoreTyped, FilesTyped
    <2> QED BY <1>1, <2>1 DEF TokenTypes, StoreTyped, FilesTyped
<1>6. LoadedTyped'
    <2>1. loaded' = [x \in Names |-> loaded'[x]]
        BY DEF Issue, TokenTypes, StoreTyped, LoadedTyped
    <2>2. \A x \in Names : loaded'[x] \in 0..new
        BY <1>0, <1>2, <1>3 DEF TokenTypes, StoreTyped, LoadedTyped
    <2> QED BY <1>1, <2>1, <2>2 DEF LoadedTyped
<1>7. TokensTyped'
    <2>1. owner' = [t \in Auths |-> owner'[t]]
        BY DEF Issue, TokenTypes, StoreTyped, TokensTyped
    <2>2. valid' \subseteq 1..new
        BY <1>0, <1>2 DEF Issue, TokenTypes, StoreTyped, TokensTyped
    <2> QED BY <1>0, <1>1, <2>1, <2>2 DEF TokensTyped
<1>8. ASSUME NEW x \in Names, x # m PROVE SameTokens(x)
    <2>1. \A t \in 1..count.token : t \in Auths /\ t # new /\ t \in 1..new
        BY <1>0, <1>1, TokenIsAuth
    <2>2. \A t \in 1..new : t = new \/ t \in 1..count.token
        BY <1>0, <1>1
    <2>3. \A t \in 0..count.token : t \in valid' => t \in valid
        BY <1>0, <1>1 DEF Issue
    <2> QED BY <1>1, <1>4, <1>8, <2>1, <2>2, <2>3 DEF SameTokens
<1>9. ASSUME NEW t, Current(m, t)' PROVE t = new
    <2>1. t \in 1..new /\ \A u \in 1..new : owner'[u] = m => u <= t
        BY <1>1, <1>9 DEF Current, Newest
    <2>2. new \in 1..new
        BY <1>0, <1>1
    <2>3. new <= t
        BY <1>4, <2>1, <2>2
    <2> QED BY <1>2, <2>1, <2>3
<1>10. ASSUME NEW x \in Names PROVE ~FileHas(x, new) /\ loaded[x] # new
    <2>1. file[x] # NULL => IsConf(file[x], count.token)
        BY DEF TokenTypes, StoreTyped, FilesTyped, MaybeConf
    <2>2. file[x] # NULL => file[x].rt \in 0..MaxAuth /\ file[x].rt <= count.token
        BY <2>1, ConfReal
    <2>3. loaded[x] \in 0..count.token
        BY DEF TokenTypes, StoreTyped, LoadedTyped
    <2> QED BY <1>0, <1>1, <2>2, <2>3 DEF FileHas
<1>11. ASSUME NEW i \in Procs, gen[i].conf # NULL PROVE gen[i].conf.rt # new
    <2>1. IsConf(gen[i].conf, count.token)
        BY <1>11 DEF TokenTypes, ProcsTyped, ProcTyped, MaybeConf
    <2>2. gen[i].conf.rt \in 0..MaxAuth /\ gen[i].conf.rt <= count.token
        BY <2>1, ConfReal
    <2> QED BY <1>0, <1>1, <2>2
<1> QED BY <1>0, <1>1, <1>2, <1>3, <1>5, <1>6, <1>7, <1>8, <1>9, <1>10, <1>11

\* For another account, a new token that only the agent and perhaps process
\* i have changes nothing.
LEMMA IssuedElsewhere ==
    ASSUME ServerInv, TokenTypes, NEW m \in Names, NEW runs, Issue(m, runs), UNCHANGED file,
           NEW i \in Procs, NEW g, Set(i, g), g.conf = gen[i].conf \/ g.conf.rt = count.token + 1,
           NEW x \in Names, x # m, NameKept(x), ~Uses(gen[i], x) /\ ~Uses(g, x), SameFlows(x)
    PROVE  NameKept(x)'
<1>1. SameUsers(x)
    BY OthersUse
<1>2. SameTokens(x) /\ loaded'[x] = loaded[x] /\ file'[x] = file[x] /\ count'.token = count.token + 1
    BY Issued
<1>3. ASSUME NEW t \in 1..count.token, Spare(x, t) PROVE Spare(x, t)'
    <2>1. t # count.token + 1 /\ loaded'[m] # t
        BY Issued DEF TokenTypes, StoreTyped, TokensTyped
    <2>2. \A y \in Names \ {x} : loaded'[y] # t
        BY <1>3, <2>1, Issued DEF Spare
    <2>3. \A y \in Names : ~FileHas(y, t)'
        BY <1>3 DEF Spare, FileHas
    <2>4. g.conf # NULL => g.conf.rt # t
        BY <1>3, <2>1 DEF Spare
    <2> QED BY <1>3, <2>2, <2>3, <2>4, SpareStays
<1> QED BY <1>1, <1>2, <1>3, Unaffected

\* The process that gets the token is about to save it.
LEMMA IssuedToProcess ==
    ASSUME ServerInv, TokenTypes, NEW m \in Names, NEW runs, Issue(m, runs), UNCHANGED file,
           NEW i \in Procs, NEW g, Set(i, g), g.pc = "save", g.name = m, g.new = NULL, g.conf.rt = count.token + 1,
           NameKept(m), Alone(i, m), \A n \in Auths : Pending(n)' /\ flow'[n].name = m => FALSE
    PROVE  NameKept(m)'
<1>1. \A t \in Auths : Current(m, t)' => t = count.token + 1
    BY Issued
<1>2. ProcKnows(g, m)'
    BY <1>1 DEF ProcKnows, Polling
<1>3. Keeps(g, m)'
    BY DEF Keeps
<1>4. g.new # m
    BY GenClientAssumption
<1> QED BY <1>2, <1>3, <1>4, OnlyMine

LEMMA GenTyped ==
    ASSUME ServerInv, TokenTypes, NEW i \in Procs, gen[i].pc = "gen"
    PROVE  /\ gen[i].name \in Names /\ gen[i].new = NULL /\ IsConf(gen[i].conf, count.token)
           /\ gen[i].conf.client \in 0..MaxClient
BY DEF TokenTypes, ProcsTyped, ProcTyped, Configured, MaybeConf, IsConf, Config

LEMMA GenIssues ==
    ASSUME ServerInv, TokenTypes, NamesKept, NEW i \in Procs, gen[i].pc = "gen", Issue(gen[i].name, 0),
           Set(i, [gen[i] EXCEPT !.pc = "save", !.conf.rt = count.token + 1]),
           UNCHANGED <<flow, server, servers, file, tmp, loose>>
    PROVE  TokenTypes' /\ NamesKept'
<1>1. PICK m \in Names : m = gen[i].name
    BY GenTyped
<1>2. Issue(m, 0) /\ gen[i].new = NULL /\ IsConf(gen[i].conf, count.token)
    BY <1>1, GenTyped
<1>3. count.token + 1 \in Auths /\ count'.token = count.token + 1 /\ count'.client = count.client
    BY <1>2, Issued
<1>4. PICK conf : conf = [gen[i].conf EXCEPT !.rt = count.token + 1]
    OBVIOUS
<1>5. IsConf(conf, count.token + 1) /\ conf.rt = count.token + 1 /\ conf # NULL
    <2>1. count.token + 1 \in 0..MaxAuth
        BY <1>3 DEF Auths
    <2>2. IsConf(conf, count.token + 1) /\ conf.rt = count.token + 1
        BY <1>2, <1>4, <2>1, ConfToken
    <2> QED BY <2>2, ConfReal
<1>6. PICK g : g = [gen[i] EXCEPT !.pc = "save", !.conf = conf]
    OBVIOUS
<1>7. Set(i, g)
    <2>1. [gen[i] EXCEPT !.pc = "save", !.conf.rt = count.token + 1] = g
        BY <1>4, <1>6, ProcAt DEF IsProc, Fields
    <2> QED BY <2>1
<1>8. IsProc(g) /\ g.pc = "save" /\ g.name = m /\ g.new = NULL /\ g.conf = conf
    BY <1>1, <1>2, <1>6, ProcAt DEF IsProc, Fields
<1>9. TokenTypes'
    <2>1. FilesTyped' /\ LoadedTyped' /\ TokensTyped'
        BY <1>2, Issued
    <2>2. ClientsTyped' /\ ServersTyped' /\ FlowsTyped'
        BY <1>3 DEF TokenTypes, StoreTyped, ClientsTyped, ServersTyped, FlowsTyped
    <2>3. Onwards
        BY <1>3 DEF Onwards, TokenTypes, StoreTyped, TokensTyped
    <2>4. ProcTyped(g, count'.token) /\ g.pc \notin Watching
        BY <1>3, <1>5, <1>8 DEF ProcTyped, MaybeConf, Watching
    <2>5. ProcsTyped'
        BY <1>7, <2>3, <2>4, ProcTypes
    <2> QED BY <2>1, <2>2, <2>5 DEF TokenTypes, StoreTyped
<1>10. ASSUME NEW x \in Names \ loose' PROVE NameKept(x)'
    <2>1. NameKept(x)
        BY <1>10 DEF NamesKept
    <2>2. CASE x = m
        <3>1. Alone(i, m)
            BY <1>1, <2>1, <2>2, AloneThere DEF Uses
        <3>2. \A n \in Auths : ~Watches(gen[i], n)
            BY DEF Watches, Polling
        <3>3. \A n \in Auths : Pending(n)' /\ flow'[n].name = m => FALSE
            BY <2>1, <2>2, <3>1, <3>2, NotPending DEF Pending
        <3> QED BY <1>2, <1>5, <1>7, <1>8, <2>1, <2>2, <3>1, <3>3, IssuedToProcess
    <2>3. CASE x # m
        <3>1. ~Uses(gen[i], x) /\ ~Uses(g, x)
            BY <1>1, <1>2, <1>8, <1>10, <2>3, GenClientAssumption DEF Uses
        <3>2. SameFlows(x)
            BY DEF SameFlows
        <3> QED BY <1>2, <1>5, <1>7, <1>8, <2>1, <2>3, <3>1, <3>2, IssuedElsewhere
    <2> QED BY <2>2, <2>3
<1> QED BY <1>9, <1>10 DEF NamesKept

\* An authorization is opened, with a web server or without.
Opens(i, n) ==
    /\ n = count.auth + 1 /\ count.auth < MaxAuth /\ count' = [count EXCEPT !.auth = n]
    /\ flow' = [flow EXCEPT ![n] = [at |-> "waiting", name |-> gen[i].name, client |-> gen[i].conf.client]]
    /\ \/ UNCHANGED <<server, servers>> /\ End(i, "no state lookup")
       \/ fireHttpServer(n) /\ Set(i, [gen[i] EXCEPT !.pc = "sleep", !.state = n])
    /\ UNCHANGED <<loaded, valid, owner, file, tmp, loose>>

LEMMA GenOpens ==
    ASSUME ServerInv, TokenTypes, NamesKept, NEW i \in Procs, gen[i].pc = "gen", NEW n, Opens(i, n)
    PROVE  TokenTypes' /\ NamesKept'
<1>0. n = count.auth + 1 /\ count.auth < MaxAuth /\ UNCHANGED <<loaded, valid, owner, file, tmp, loose>>
    BY DEF Opens
<1>1. PICK m \in Names : m = gen[i].name
    BY GenTyped
<1>2. /\ gen[i].new = NULL /\ IsConf(gen[i].conf, count.token) /\ gen[i].conf.client \in 0..MaxClient
      /\ gen[i].conf # NULL
    BY GenTyped, ConfReal
<1>3. n \in Auths /\ n \notin servers /\ flow[n].at = "none" /\ server[n] # "up"
    <2>1. count.auth \in Nat /\ n \in Auths /\ ~(n <= count.auth) /\ n \notin 1..count.auth
        BY <1>0, GenClientAssumption DEF ServerInv, Counts, Auths
    <2>2. n \notin servers /\ flow[n].at = "none"
        BY <2>1 DEF ServerInv, FlowTidy
    <2> QED BY <2>1, <2>2 DEF TokenTypes, StoreTyped, ServersTyped
<1>4. count'.token = count.token /\ count'.client = count.client
    BY DEF ServerInv, Counts, Opens
<1>5. /\ flow'[n].at = "waiting" /\ flow'[n].name = m /\ flow'[n].client \in 0..MaxClient
      /\ \A k \in Auths : k # n => flow'[k] = flow[k]
    BY <1>1, <1>2, <1>3 DEF ServerInv, Opens
<1>6. PICK g : /\ Set(i, g) /\ g.new = NULL /\ (g.conf = NULL \/ g.conf = gen[i].conf)
               /\ \/ UNCHANGED <<server, servers>> /\ g.pc = "idle"
                  \/ fireHttpServer(n) /\ g.pc = "sleep" /\ g.name = m /\ g.state = n
    <2>1. CASE UNCHANGED <<server, servers>> /\ End(i, "no state lookup")
        <3>1. PICK g : Set(i, g) /\ Ended(g)
            BY <2>1, EndIs
        <3> QED BY <2>1, <3>1 DEF Ended
    <2>2. CASE fireHttpServer(n) /\ Set(i, [gen[i] EXCEPT !.pc = "sleep", !.state = n])
        <3>1. PICK g : g = [gen[i] EXCEPT !.pc = "sleep", !.state = n]
            OBVIOUS
        <3>2. g.pc = "sleep" /\ g.name = m /\ g.state = n /\ g.new = NULL /\ g.conf = gen[i].conf
            BY <1>1, <1>2, <3>1, ProcAt DEF IsProc, Fields
        <3>3. Set(i, g)
            BY <2>2, <3>1
        <3> QED BY <2>2, <3>2, <3>3
    <2> QED BY <2>1, <2>2 DEF Opens
<1>7. /\ server' = [k \in Auths |-> server'[k]] /\ \A k \in Auths : k # n => server'[k] = server[k]
      /\ \A k \in Auths : server'[k] = "up" => k \in servers'
      /\ g.pc = "idle" => server'[n] # "up"
    BY <1>3, <1>6 DEF fireHttpServer, TokenTypes, StoreTyped, ServersTyped
<1>8. TokenTypes'
    <2>1. FilesTyped' /\ LoadedTyped' /\ ClientsTyped'
        BY <1>0, <1>4 DEF TokenTypes, StoreTyped, FilesTyped, LoadedTyped, ClientsTyped
    <2>2. TokensTyped'
        BY <1>0, <1>4 DEF TokenTypes, StoreTyped, TokensTyped
    <2>3. ServersTyped'
        BY <1>7 DEF ServersTyped
    <2>4. FlowsTyped'
        BY <1>5 DEF TokenTypes, StoreTyped, FlowsTyped
    <2>5. Onwards
        BY <1>3, <1>4, <1>5 DEF Onwards, TokenTypes, StoreTyped, TokensTyped
    <2>6. ProcTyped(g, count'.token)
        BY <1>2, <1>4, <1>6 DEF ProcTyped, MaybeConf, Configured
    <2>7. g.pc \in Watching => flow'[g.state].name = g.name /\ flow'[g.state].at # "none"
        BY <1>5, <1>6 DEF Watching
    <2>8. ProcsTyped'
        BY <1>6, <2>5, <2>6, <2>7, ProcTypes
    <2> QED BY <2>1, <2>2, <2>3, <2>4, <2>8 DEF TokenTypes, StoreTyped
<1>9. ASSUME NEW x \in Names \ loose' PROVE NameKept(x)'
    <2>1. NameKept(x)
        BY <1>0, <1>9 DEF NamesKept
    <2>2. SameTokens(x)
        BY <1>0, <1>4 DEF SameTokens
    <2>3. CASE x = m
        <3>1. Alone(i, x)
            BY <1>1, <2>1, <2>3, AloneThere DEF Uses
        <3>2. ASSUME NEW k \in Auths, Pending(k)', flow'[k].name = x PROVE Watches(g, k)
            <4>1. CASE k = n
                <5>1. server'[n] = "up"
                    BY <1>5, <3>2, <4>1 DEF Pending
                <5> QED BY <1>6, <1>7, <4>1, <5>1 DEF Watches, Polling
            <4>2. CASE k # n
                <5>1. Pending(k) /\ flow[k].name = x
                    BY <1>5, <1>7, <3>2, <4>2 DEF Pending
                <5>2. ~Watches(gen[i], k)
                    BY DEF Watches, Polling
                <5> QED BY <2>1, <3>1, <5>1, <5>2, NotPending
            <4> QED BY <4>1, <4>2
        <3>3. ASSUME NEW t \in Auths, Current(x, t)' PROVE FileHas(x, t)'
            <4>1. Current(x, t)
                BY <2>2, <3>3, CurrentStays
            <4>2. ~Keeps(gen[i], x)
                BY DEF Keeps, Polling
            <4>3. FileHas(x, t)
                BY <2>1, <3>1, <4>1, <4>2, OnlyInFile
            <4> QED BY <1>0, <4>3 DEF FileHas
        <3>4. g.pc # "idle" => ProcKnows(g, x)'
            BY <1>5, <1>6 DEF ProcKnows
        <3>5. g.pc # "save"
            BY <1>6
        <3> QED BY <1>6, <3>1, <3>2, <3>3, <3>4, <3>5, OnlyMine
    <2>4. CASE x # m
        <3>1. SameUsers(x)
            <4>1. ~Uses(gen[i], x) /\ ~Uses(g, x)
                BY <1>1, <1>2, <1>6, <1>9, <2>4, GenClientAssumption DEF Uses
            <4> QED BY <1>6, <4>1, OthersUse
        <3>2. SameFlows(x)
            BY <1>3, <1>5, <1>7, <2>4 DEF SameFlows
        <3>3. ASSUME NEW t \in 1..count.token, Spare(x, t) PROVE Spare(x, t)'
            <4>1. \A y \in Names \ {x} : loaded'[y] # t
                BY <1>0, <3>3 DEF Spare
            <4>2. \A y \in Names : ~FileHas(y, t)'
                BY <1>0, <3>3 DEF Spare, FileHas
            <4>3. g.conf # NULL => g.conf.rt # t
                BY <1>6, <3>3 DEF Spare
            <4> QED BY <1>6, <3>3, <4>1, <4>2, <4>3, SpareStays
        <3> QED BY <1>0, <2>1, <2>2, <3>1, <3>2, <3>3, Unaffected
    <2> QED BY <2>3, <2>4
<1> QED BY <1>8, <1>9 DEF NamesKept

LEMMA GenKept ==
    ASSUME ServerInv, TokenTypes, NamesKept, NEW i \in Procs, gen_response(i)
    PROVE  TokenTypes' /\ NamesKept'
<1>1. gen[i].pc = "gen" /\ UNCHANGED <<file, tmp, loose>>
    BY DEF gen_response
<1>2. CASE /\ Issue(gen[i].name, 0)
           /\ Set(i, [gen[i] EXCEPT !.pc = "save", !.conf.rt = count.token + 1])
           /\ UNCHANGED <<flow, server, servers>>
    BY <1>1, <1>2, GenIssues
<1>3. ASSUME NEW n, Opens(i, n) PROVE TokenTypes' /\ NamesKept'
    BY <1>1, <1>3, GenOpens
<1>4. CASE End(i, "error") /\ UNCHANGED <<loaded, flow, server, servers, valid, count, owner>>
    BY <1>1, <1>4, GenFails
<1> QED BY <1>1, <1>2, <1>3, <1>4 DEF gen_response, Opens

LEMMA Terminated ==
    ASSUME TokenTypes, NEW n, termHttpServer(n)
    PROVE  ServersTyped' /\ \A k \in Auths : server'[k] = "up" => server[k] = "up"
<1>1. server = [k \in Auths |-> server[k]] /\ \A k \in Auths : server[k] = "up" => k \in servers
    BY DEF TokenTypes, StoreTyped, ServersTyped
<1>2. /\ server' = [k \in Auths |-> server'[k]]
      /\ \A k \in Auths : server'[k] = "up" => server[k] = "up" /\ k \in servers'
    BY <1>1 DEF termHttpServer
<1> QED BY <1>2 DEF ServersTyped

\* Authorization n of account m moves on; its name and client stay.
LEMMA FlowMoves ==
    ASSUME ServerInv, TokenTypes, NEW n \in Auths, NEW at, at # "none", flow[n].at # "none",
           flow' = [flow EXCEPT ![n].at = at], count'.token \in Nat, count'.token >= count.token
    PROVE  /\ FlowsTyped' /\ Onwards
           /\ flow'[n].at = at /\ flow'[n].name = flow[n].name /\ flow'[n].client = flow[n].client
           /\ \A k \in Auths : k # n => flow'[k] = flow[k]
<1>1. IsFlow(flow[n]) /\ flow = [k \in Auths |-> flow[k]]
    BY DEF ServerInv, FlowTidy
<1>2. /\ flow'[n] = [at |-> at, name |-> flow[n].name, client |-> flow[n].client]
      /\ \A k \in Auths : k # n => flow'[k] = flow[k]
    BY <1>1 DEF IsFlow
<1>3. flow'[n].at = at /\ flow'[n].name = flow[n].name /\ flow'[n].client = flow[n].client
    BY <1>2
<1>4. FlowsTyped'
    BY <1>2, <1>3 DEF FlowsTyped, TokenTypes, StoreTyped
<1>5. Onwards
    BY <1>2, <1>3 DEF Onwards
<1> QED BY <1>2, <1>3, <1>4, <1>5

LEMMA FoundKept ==
    ASSUME ServerInv, TokenTypes, NamesKept, NEW i \in Procs, singleStateLookUp(i), flow[gen[i].state].at = "exchanged"
    PROVE  TokenTypes' /\ NamesKept'
<1>1. PICK n \in Auths : n = gen[i].state
    BY DEF singleStateLookUp, Waits, ServerInv, Tidy, Watching
<1>2. /\ gen[i].pc \in Waits /\ UNCHANGED <<file, tmp, loaded, valid, count, owner>> /\ flow[n].at = "exchanged"
      /\ flow' = [flow EXCEPT ![n].at = "taken"] /\ termHttpServer(n)
      /\ Set(i, [gen[i] EXCEPT !.pc = "save", !.name = flow[n].name,
                               !.conf = Conf(loaded[flow[n].name], flow[n].client, FALSE)])
      /\ loose \subseteq loose'
    BY <1>1 DEF singleStateLookUp
<1>3. PICK m \in Names : m = flow[n].name /\ m = gen[i].name
    BY <1>1, <1>2 DEF TokenTypes, StoreTyped, FlowsTyped, ProcsTyped, Follows, Waits, Watching
<1>4. gen[i].new = NULL /\ loaded[m] \in 0..count.token /\ count.token \in 1..MaxAuth /\ flow[n].client \in 0..MaxClient
    BY <1>2 DEF TokenTypes, StoreTyped, FlowsTyped, ProcsTyped, ProcTyped, LoadedTyped, TokensTyped, Waits
<1>5. PICK conf : conf = Conf(loaded[m], flow[n].client, FALSE)
    OBVIOUS
<1>6. IsConf(conf, count.token) /\ conf # NULL /\ conf.rt = loaded[m]
    <2>1. loaded[m] \in 0..MaxAuth /\ count.token \in Nat /\ loaded[m] <= count.token
        BY <1>4, GenClientAssumption
    <2> QED BY <1>4, <1>5, <2>1, ConfTyped
<1>7. PICK g : g = [gen[i] EXCEPT !.pc = "save", !.name = m, !.conf = conf]
    OBVIOUS
<1>8. Set(i, g)
    BY <1>2, <1>3, <1>5, <1>7
<1>9. IsProc(g) /\ g.pc = "save" /\ g.name = m /\ g.new = NULL /\ g.conf = conf
    BY <1>4, <1>7, ProcAt DEF IsProc, Fields
<1>10. /\ FlowsTyped' /\ Onwards
       /\ flow'[n].at = "taken" /\ flow'[n].name = m /\ \A k \in Auths : k # n => flow'[k] = flow[k]
    <2>1. count'.token \in Nat /\ count'.token >= count.token /\ "taken" # "none" /\ flow[n].at # "none"
        BY <1>2, <1>4
    <2>2. flow' = [flow EXCEPT ![n].at = "taken"]
        BY <1>2
    <2> QED BY <1>3, <2>1, <2>2, FlowMoves
<1>11. ServersTyped' /\ \A k \in Auths : server'[k] = "up" => server[k] = "up"
    BY <1>2, Terminated
<1>12. TokenTypes'
    <2>1. FilesTyped' /\ LoadedTyped' /\ ClientsTyped' /\ TokensTyped'
        BY <1>2 DEF TokenTypes, StoreTyped, FilesTyped, LoadedTyped, ClientsTyped, TokensTyped
    <2>2. ProcTyped(g, count'.token) /\ g.pc \notin Watching
        BY <1>2, <1>6, <1>9 DEF ProcTyped, MaybeConf, Watching
    <2>3. ProcsTyped'
        BY <1>8, <1>10, <2>2, ProcTypes
    <2> QED BY <1>10, <1>11, <2>1, <2>3 DEF TokenTypes, StoreTyped
<1>13. ASSUME NEW x \in Names \ loose' PROVE NameKept(x)'
    <2>1. NameKept(x)
        BY <1>2, <1>13 DEF NamesKept
    <2>2. SameTokens(x) /\ file'[x] = file[x] /\ loaded'[x] = loaded[x]
        BY <1>2 DEF SameTokens
    <2>3. CASE x = m
        <3>1. Alone(i, x) /\ ProcKnows(gen[i], x)
            BY <1>2, <1>3, <2>1, <2>3, AloneThere DEF Uses, Waits, NameKept
        <3>2. ASSUME NEW k \in Auths, Pending(k)', flow'[k].name = x PROVE FALSE
            <4>1. k # n
                BY <1>10, <3>2 DEF Pending
            <4>2. Pending(k) /\ flow[k].name = x
                BY <1>10, <1>11, <3>2, <4>1 DEF Pending
            <4>3. ~Watches(gen[i], k)
                BY <1>1, <4>1 DEF Watches
            <4> QED BY <2>1, <3>1, <4>2, <4>3, NotPending
        <3>3. gen[i].pc \in Polling
            <4>1. Pending(n) /\ flow[n].name = x
                BY <1>2, <1>3, <2>3 DEF Pending
            <4>2. Watches(gen[i], n)
                BY <2>1, <3>1, <4>1, NotPending
            <4> QED BY <4>2 DEF Watches
        <3>4. ASSUME NEW t \in Auths, Current(x, t)' PROVE g.conf.rt = t
            <4>1. Current(x, t)
                BY <2>2, <3>4, CurrentStays
            <4>2. loaded[x] = t
                BY <1>1, <1>2, <3>1, <3>3, <4>1 DEF ProcKnows
            <4> QED BY <1>6, <1>9, <2>3, <4>2
        <3>5. ProcKnows(g, x)'
            BY <1>9, <3>4 DEF ProcKnows, Polling
        <3>6. Keeps(g, x)'
            BY <1>9, <2>3 DEF Keeps
        <3>7. g.new # x
            BY <1>9, <1>13, GenClientAssumption
        <3> QED BY <1>8, <3>1, <3>2, <3>5, <3>6, <3>7, OnlyMine
    <2>4. CASE x # m
        <3>1. SameUsers(x)
            <4>1. ~Uses(gen[i], x) /\ ~Uses(g, x)
                BY <1>3, <1>4, <1>9, <1>13, <2>4, GenClientAssumption DEF Uses
            <4> QED BY <1>8, <4>1, OthersUse
        <3>2. SameFlows(x)
            BY <1>3, <1>10, <1>11, <2>4 DEF SameFlows
        <3>3. ASSUME NEW t \in 1..count.token, Spare(x, t) PROVE Spare(x, t)'
            <4>1. \A y \in Names \ {x} : loaded'[y] # t
                BY <1>2, <3>3 DEF Spare
            <4>2. \A y \in Names : ~FileHas(y, t)'
                BY <1>2, <3>3 DEF Spare, FileHas
            <4>3. g.conf # NULL => g.conf.rt # t
                BY <1>6, <1>9, <2>4, <3>3 DEF Spare
            <4> QED BY <1>8, <3>3, <4>1, <4>2, <4>3, SpareStays
        <3> QED BY <2>1, <2>2, <3>1, <3>2, <3>3, Unaffected
    <2> QED BY <2>3, <2>4
<1> QED BY <1>12, <1>13 DEF NamesKept

LEMMA ExchangeKept ==
    ASSUME ServerInv, TokenTypes, NamesKept, NEW i \in Procs, NEW o, NEW n \in Auths, handleCodeExchange(i, n, o)
    PROVE  TokenTypes' /\ NamesKept'
<1>1. /\ ~Working(i) /\ flow[n].at = "waiting" /\ Issue(flow[n].name, 1)
      /\ flow' = [flow EXCEPT ![n].at = "taken"] /\ termHttpServer(n) /\ Clash(i, flow[n].name)
      /\ Set(i, [Idle EXCEPT !.pc = "save", !.name = flow[n].name, !.opt = o,
                             !.conf = Conf(count.token + 1, flow[n].client, FALSE)])
      /\ UNCHANGED <<file, tmp>>
    BY DEF handleCodeExchange, Free, Begin
<1>2. PICK m \in Names : m = flow[n].name
    BY <1>1 DEF TokenTypes, StoreTyped, FlowsTyped
<1>3. Issue(m, 1) /\ flow[n].client \in 0..MaxClient /\ gen[i].pc = "idle"
    BY <1>1, <1>2 DEF Working, TokenTypes, StoreTyped, FlowsTyped
<1>4. /\ count.token + 1 \in Auths /\ count'.token = count.token + 1 /\ count'.client = count.client
      /\ FilesTyped' /\ LoadedTyped' /\ TokensTyped' /\ count.token \in Nat
    BY <1>1, <1>3, Issued DEF TokenTypes, StoreTyped, TokensTyped
<1>5. PICK conf : conf = Conf(count.token + 1, flow[n].client, FALSE)
    OBVIOUS
<1>6. IsConf(conf, count.token + 1) /\ conf # NULL /\ conf.rt = count.token + 1
    <2>1. count.token + 1 \in 0..MaxAuth /\ count.token + 1 \in Nat /\ count.token + 1 <= count.token + 1
        BY <1>4 DEF Auths
    <2> QED BY <1>3, <1>5, <2>1, ConfTyped
<1>7. PICK g : g = [Idle EXCEPT !.pc = "save", !.name = m, !.opt = o, !.conf = conf]
    OBVIOUS
<1>8. Set(i, g)
    BY <1>1, <1>2, <1>5, <1>7
<1>9. g.pc = "save" /\ g.name = m /\ g.new = NULL /\ g.conf = conf
    BY <1>7 DEF Idle
<1>10. /\ FlowsTyped' /\ Onwards
       /\ flow'[n].at = "taken" /\ flow'[n].name = m /\ \A k \in Auths : k # n => flow'[k] = flow[k]
    <2>1. count'.token \in Nat /\ count'.token >= count.token
        BY <1>4
    <2> QED BY <1>1, <1>2, <2>1, FlowMoves
<1>11. ServersTyped' /\ \A k \in Auths : server'[k] = "up" => server[k] = "up"
    BY <1>1, Terminated
<1>12. TokenTypes'
    <2>1. ClientsTyped'
        BY <1>1, <1>4 DEF TokenTypes, StoreTyped, ClientsTyped
    <2>2. ProcTyped(g, count'.token) /\ g.pc \notin Watching
        BY <1>4, <1>6, <1>9 DEF ProcTyped, MaybeConf, Watching
    <2>3. ProcsTyped'
        BY <1>8, <1>10, <2>2, ProcTypes
    <2> QED BY <1>4, <1>10, <1>11, <2>1, <2>3 DEF TokenTypes, StoreTyped
<1>13. loose \subseteq loose' /\ \A x \in Names \ loose' : x = m => Alone(i, x)
    BY <1>1, <1>2, ClashAlone
<1>14. ASSUME NEW x \in Names \ loose' PROVE NameKept(x)'
    <2>1. NameKept(x)
        BY <1>13, <1>14 DEF NamesKept
    <2>2. CASE x = m
        <3>1. Alone(i, m)
            BY <1>13, <1>14, <2>2
        <3>2. ASSUME NEW k \in Auths, Pending(k)', flow'[k].name = m PROVE FALSE
            <4>1. k # n
                BY <1>10, <3>2 DEF Pending
            <4>2. Pending(k) /\ flow[k].name = m
                BY <1>10, <1>11, <3>2, <4>1 DEF Pending
            <4>3. ~Watches(gen[i], k)
                BY <1>3 DEF Watches, Polling
            <4> QED BY <2>1, <2>2, <3>1, <4>2, <4>3, NotPending
        <3> QED BY <1>1, <1>3, <1>6, <1>8, <1>9, <2>1, <2>2, <3>1, <3>2, IssuedToProcess
    <2>3. CASE x # m
        <3>1. ~Uses(gen[i], x) /\ ~Uses(g, x)
            BY <1>3, <1>9, <1>14, <2>3, GenClientAssumption DEF Uses
        <3>2. SameFlows(x)
            BY <1>2, <1>10, <1>11, <2>3 DEF SameFlows
        <3> QED BY <1>1, <1>3, <1>6, <1>8, <1>9, <2>1, <2>3, <3>1, <3>2, IssuedElsewhere
    <2> QED BY <2>2, <2>3
<1> QED BY <1>12, <1>14 DEF NamesKept

\* The agent loads a token that it got for a code: a process waits for it.
LEMMA RequestKept ==
    ASSUME ServerInv, TokenTypes, NamesKept, NEW n \in Auths, server[n] = "up", server' = [server EXCEPT ![n] = "freed"],
           flow[n].at = "waiting", Issue(flow[n].name, 0), flow' = [flow EXCEPT ![n].at = "exchanged"],
           UNCHANGED <<file, tmp, servers, gen, loose>>
    PROVE  TokenTypes' /\ NamesKept'
<1>1. PICK m \in Names : m = flow[n].name
    BY DEF TokenTypes, StoreTyped, FlowsTyped
<1>2. Issue(m, 0) /\ UNCHANGED file
    BY <1>1
<1>3. /\ count.token + 1 \in Auths /\ count'.token = count.token + 1 /\ count'.client = count.client
      /\ FilesTyped' /\ LoadedTyped' /\ TokensTyped' /\ count.token \in Nat
    BY <1>2, Issued DEF TokenTypes, StoreTyped, TokensTyped
<1>4. /\ FlowsTyped' /\ Onwards
      /\ flow'[n].at = "exchanged" /\ flow'[n].name = m /\ \A k \in Auths : k # n => flow'[k] = flow[k]
    <2>1. count'.token \in Nat /\ count'.token >= count.token /\ "exchanged" # "none" /\ flow[n].at # "none"
        BY <1>3
    <2> QED BY <1>1, <2>1, FlowMoves
<1>5. ServersTyped' /\ \A k \in Auths : server'[k] = "up" => server[k] = "up"
    BY DEF TokenTypes, StoreTyped, ServersTyped
<1>6. TokenTypes'
    <2>1. ClientsTyped'
        BY <1>3 DEF TokenTypes, StoreTyped, ClientsTyped
    <2>2. ProcsTyped'
        BY <1>4, OthersTyped DEF ProcsTyped, Follows
    <2> QED BY <1>3, <1>4, <1>5, <2>1, <2>2 DEF TokenTypes, StoreTyped
<1>7. ASSUME NEW x \in Names \ loose' PROVE NameKept(x)'
    <2>1. NameKept(x)
        BY <1>7 DEF NamesKept
    <2>2. CASE x = m
        <3>1. PICK i \in Procs : Watches(gen[i], n)
            BY <1>1, <2>1, <2>2 DEF NameKept, Pending
        <3>2. PICK g : g = gen[i]
            OBVIOUS
        <3>3. g.pc \in Polling /\ g.state = n /\ g.name = x /\ Set(i, g)
            BY <1>1, <2>2, <3>1, <3>2 DEF Watches, TokenTypes, ProcsTyped, Follows, Polling, Watching, Set, ServerInv
        <3>4. Alone(i, x)
            BY <2>1, <3>2, <3>3, AloneThere DEF Uses, Polling
        <3>5. ASSUME NEW k \in Auths, Pending(k)', flow'[k].name = x PROVE Watches(g, k)
            <4>1. CASE k = n
                BY <3>1, <3>2, <4>1
            <4>2. CASE k # n
                <5>1. Pending(k) /\ flow[k].name = x
                    BY <1>4, <1>5, <3>5, <4>2 DEF Pending
                <5> QED BY <2>1, <3>2, <3>4, <5>1, NotPending
            <4> QED BY <4>1, <4>2
        <3>6. Keeps(g, x)'
            BY <1>4, <3>3 DEF Keeps
        <3>7. ASSUME NEW t \in Auths, Current(x, t)' PROVE loaded'[x] = t /\ Spare(x, t)'
            <4>1. t = count.token + 1 /\ loaded'[x] = t
                BY <1>2, <2>2, <3>7, Issued
            <4>2. \A y \in Names \ {x} : loaded'[y] # t
                BY <1>2, <2>2, <4>1, Issued
            <4>3. \A y \in Names : ~FileHas(y, t)'
                BY <1>2, <4>1, Issued DEF FileHas
            <4>4. \A j \in Procs : gen'[j].conf # NULL => gen'[j].conf.rt # t
                BY <1>2, <4>1, Issued
            <4> QED BY <4>1, <4>2, <4>3, <4>4 DEF Spare
        <3>8. ProcKnows(g, x)'
            BY <3>3, <3>7 DEF ProcKnows, Polling
        <3>9. g.pc # "save"
            BY <3>3 DEF Polling
        <3> QED BY <3>3, <3>4, <3>5, <3>6, <3>8, <3>9, OnlyMine
    <2>3. CASE x # m
        <3>1. SameUsers(x)
            BY DEF SameUsers
        <3>2. SameFlows(x)
            BY <1>1, <1>4, <1>5, <2>3 DEF SameFlows
        <3>3. SameTokens(x) /\ loaded'[x] = loaded[x] /\ file'[x] = file[x]
            BY <1>2, <2>3, Issued
        <3>4. ASSUME NEW t \in 1..count.token, Spare(x, t) PROVE Spare(x, t)'
            <4>1. t # count.token + 1 /\ loaded'[m] # t
                BY <1>2, <1>3, Issued
            <4>2. \A y \in Names \ {x} : loaded'[y] # t
                BY <1>2, <3>4, <4>1, Issued DEF Spare
            <4>3. \A y \in Names : ~FileHas(y, t)'
                BY <3>4 DEF Spare, FileHas
            <4> QED BY <3>4, <4>2, <4>3 DEF Spare
        <3> QED BY <2>1, <3>1, <3>2, <3>3, <3>4, Unaffected
    <2> QED BY <2>2, <2>3
<1> QED BY <1>6, <1>7 DEF NamesKept

\* A web server ends, or is done with its one request.
LEMMA ServerEndsKept ==
    ASSUME ServerInv, TokenTypes, NamesKept, NEW n \in Auths, NEW s, s # "up", server' = [server EXCEPT ![n] = s],
           UNCHANGED <<file, tmp, loaded, flow, servers, valid, count, owner, gen, loose>>
    PROVE  TokenTypes' /\ NamesKept'
<1>1. ServersTyped' /\ \A k \in Auths : server'[k] = "up" => server[k] = "up"
    BY DEF TokenTypes, StoreTyped, ServersTyped
<1>2. ClientsTyped'
    BY DEF TokenTypes, StoreTyped, ClientsTyped
<1>3. Still
    BY <1>1, <1>2 DEF Still
<1>4. TokenTypes'
    <2>1. StoreTyped'
        BY <1>3, StillTyped
    <2>2. ProcsTyped'
        BY DEF TokenTypes, ProcsTyped, Follows
    <2> QED BY <2>1, <2>2 DEF TokenTypes
<1>5. ASSUME NEW x \in Names \ loose' PROVE NameKept(x)'
    <2>1. NameKept(x)
        BY <1>5 DEF NamesKept
    <2>2. SameTokens(x) /\ SameUsers(x) /\ SameFlows(x)
        BY <1>1 DEF SameTokens, SameUsers, SameFlows
    <2>3. \A t \in 1..count.token : Spare(x, t) => Spare(x, t)'
        BY DEF Spare, FileHas
    <2> QED BY <2>1, <2>2, <2>3, Unaffected
<1> QED BY <1>4, <1>5 DEF NamesKept

LEMMA RemovedKept ==
    ASSUME ServerInv, TokenTypes, NamesKept, NEW m \in Names, oidcd_handleRm(m)
    PROVE  TokenTypes' /\ NamesKept'
<1>1. /\ loaded' = [loaded EXCEPT ![m] = 0] /\ UNCHANGED <<file, tmp, flow, server, servers, valid, count, owner, gen>>
      /\ loose \subseteq loose' /\ (m \in loose' \/ \E y \in Names : FileHas(y, loaded[m]))
    BY DEF oidcd_handleRm, FileHas
<1>2. loaded'[m] = 0 /\ \A x \in Names : x # m => loaded'[x] = loaded[x]
    BY <1>1 DEF TokenTypes, StoreTyped, LoadedTyped
<1>3. TokenTypes'
    <2>1. count.token \in Nat
        BY DEF TokenTypes, StoreTyped, TokensTyped
    <2>2. LoadedTyped'
        BY <1>1, <1>2, <2>1 DEF TokenTypes, StoreTyped, LoadedTyped
    <2>3. FilesTyped' /\ ClientsTyped' /\ ServersTyped' /\ TokensTyped' /\ FlowsTyped'
        BY <1>1 DEF TokenTypes, StoreTyped, FilesTyped, ClientsTyped, ServersTyped, TokensTyped, FlowsTyped
    <2>4. ProcsTyped'
        BY <1>1 DEF TokenTypes, ProcsTyped, Follows
    <2> QED BY <2>2, <2>3, <2>4 DEF TokenTypes, StoreTyped
<1>4. ASSUME NEW x \in Names \ loose' PROVE NameKept(x)'
    <2>1. NameKept(x)
        BY <1>1, <1>4 DEF NamesKept
    <2>2. SameTokens(x) /\ SameUsers(x) /\ SameFlows(x) /\ file'[x] = file[x]
        BY <1>1 DEF SameTokens, SameUsers, SameFlows
    <2>3. CASE x # m
        <3>1. ASSUME NEW t \in 1..count.token, Spare(x, t) PROVE Spare(x, t)'
            <4>1. t # 0
                BY DEF TokenTypes, StoreTyped, TokensTyped
            <4> QED BY <1>1, <1>2, <3>1, <4>1 DEF Spare, FileHas
        <3> QED BY <1>2, <2>1, <2>2, <2>3, <3>1, Unaffected
    <2>4. CASE x = m
        <3>1. PICK y \in Names : FileHas(y, loaded[m])
            BY <1>1, <1>4, <2>4
        <3>2. \A t : Current(x, t)' <=> Current(x, t)
            BY <1>1 DEF Current, Newest
        <3>3. ASSUME NEW i \in Procs, gen'[i].pc # "idle", gen'[i].name = x PROVE ProcKnows(gen[i], x)'
            <4>1. PICK g : g = gen[i] /\ g = gen'[i]
                BY <1>1
            <4>2. ProcKnows(g, x)
                BY <2>1, <3>3, <4>1 DEF NameKept
            <4>3. ~\E t \in Auths : g.pc \in Polling /\ flow[g.state].at = "exchanged" /\ Current(x, t)
                BY <2>4, <3>1, <4>2 DEF ProcKnows, Spare
            <4>4. ProcKnows(g, x)'
                BY <1>1, <3>2, <4>2, <4>3 DEF ProcKnows, FileHas
            <4> QED BY <4>1, <4>4
        <3>4. \A t : FileHas(x, t)' <=> FileHas(x, t)
            BY <1>1 DEF FileHas
        <3>5. \A i : Keeps(gen[i], x)' <=> Keeps(gen[i], x)
            BY <1>1 DEF Keeps
        <3>6. \A n : Pending(n)' <=> Pending(n)
            BY <1>1 DEF Pending
        <3> QED BY <1>1, <2>1, <3>2, <3>3, <3>4, <3>5, <3>6 DEF NameKept
    <2> QED BY <2>3, <2>4
<1> QED BY <1>3, <1>4 DEF NamesKept
-----------------------------------------------------------------------------
LEMMA KeptNext ==
    ASSUME ServerInv, TokenTypes, NamesKept, [Next]_vars
    PROVE  TokenTypes' /\ NamesKept'
<1>1. CASE UNCHANGED vars
    <2>1. UNCHANGED <<file, tmp, loaded, flow, server, servers, valid, count, owner, gen, loose>>
        BY <1>1 DEF vars
    <2>2. TokenTypes'
        BY <2>1 DEF TokenTypes, StoreTyped, FilesTyped, LoadedTyped, ClientsTyped, ServersTyped, TokensTyped, FlowsTyped,
                    ProcsTyped, Follows
    <2>3. ASSUME NEW x \in Names \ loose' PROVE NameKept(x)'
        <3>1. NameKept(x) /\ SameTokens(x) /\ SameUsers(x) /\ SameFlows(x)
            BY <2>1, <2>3 DEF NamesKept, SameTokens, SameUsers, SameFlows
        <3>2. \A t \in 1..count.token : Spare(x, t) => Spare(x, t)'
            BY <2>1 DEF Spare, FileHas
        <3> QED BY <2>1, <3>1, <3>2, Unaffected
    <2> QED BY <2>2, <2>3 DEF NamesKept
<1>2. ASSUME NEW i \in Procs, Start(i) PROVE TokenTypes' /\ NamesKept'
    <2>1. PICK o \in Options :
           \/ \E m \in Names :
                 \/ registerClient(i, m, o) \/ manual_genNewAccount(i, m, o) \/ reauthenticate(i, m, o)
                 \/ handleDelete(i, m, o)
                 \/ \E new \in Names : gen_handleRename(i, m, new, o)
           \/ \E n \in Auths : stateLookUpWithConfigSave(i, n, o) \/ handleCodeExchange(i, n, o)
        BY <1>2 DEF Start
    <2> QED BY <2>1, StartKept, RenameKept, LookUpKept, ExchangeKept
<1>3. ASSUME NEW i \in Procs, Step(i) PROVE TokenTypes' /\ NamesKept'
    BY <1>3, RegisterKept, GenKept, SignalHandlerKept, PollKept, FoundKept, SaveKept, RemoveOldKept, DeleteClientKept,
       DeleteKept DEF Step
<1>4. ASSUME NEW n \in Auths, handleRequest(n) \/ handleRequestAgain(n) \/ makeResponseError(n)
      PROVE  TokenTypes' /\ NamesKept'
    <2>1. UNCHANGED <<file, tmp, servers, gen, loose>>
        BY <1>4 DEF handleRequest, handleRequestAgain, makeResponseError
    <2>2. CASE /\ server[n] = "up" /\ server' = [server EXCEPT ![n] = "freed"]
               /\ flow[n].at = "waiting" /\ Issue(flow[n].name, 0)
               /\ flow' = [flow EXCEPT ![n].at = "exchanged"]
        BY <2>1, <2>2, RequestKept
    <2>3. CASE /\ \E s \in {"freed", "gone"} : server' = [server EXCEPT ![n] = s]
               /\ UNCHANGED <<flow, loaded, valid, count, owner>>
        BY <2>1, <2>3, ServerEndsKept
    <2> QED BY <1>4, <2>2, <2>3 DEF handleRequest, handleRequestAgain, makeResponseError
<1> QED BY <1>1, <1>2, <1>3, <1>4, CutOffKept, RemovedKept DEF Next

LEMMA KeptInit == Init => TokenTypes /\ NamesKept
<1> SUFFICES ASSUME Init PROVE TokenTypes /\ NamesKept
    OBVIOUS
<1>1. PICK n \in Names, c \in {NULL, Conf(1, 0, TRUE)} : file = [m \in Names |-> IF m = n THEN c ELSE NULL]
    BY DEF Init
<1>2. count = [auth |-> 0, token |-> 1, client |-> 0, run |-> 0] /\ gen = [i \in Procs |-> Idle] /\ loose = {}
    BY DEF Init
<1>3. /\ tmp = [p \in Paths |-> 0] /\ loaded = [m \in Names |-> 0] /\ server = [k \in Auths |-> "none"]
      /\ flow = [k \in Auths |-> [at |-> "none", name |-> NULL, client |-> 0]]
    BY DEF Init
<1>4. PICK m \in Names : (\A x \in Names \ {m} : file[x] = NULL) /\ owner = [t \in Auths |-> IF file[m] = NULL THEN NULL ELSE m]
    BY DEF Init
<1>5. valid \subseteq {1}
    BY DEF Init
<1>6. 1 \in 0..MaxAuth /\ 1 \in Auths /\ 0 \in 0..MaxClient /\ 1 <= 1 /\ count.token = 1 /\ count.client = 0
    BY <1>2, GenClientAssumption DEF Auths
<1>7. MaybeConf(c, 1) /\ (c # NULL => c.rt = 1)
    <2>1. Conf(1, 0, TRUE) \in Config
        BY <1>6 DEF Conf, Config
    <2>2. Conf(1, 0, TRUE).rt = 1
        BY DEF Conf
    <2>3. PICK d : d = Conf(1, 0, TRUE)
        OBVIOUS
    <2>4. c = NULL \/ c = d
        BY <2>3, Zenon
    <2>5. d \in Config /\ d.rt = 1
        BY <2>1, <2>2, <2>3, Zenon
    <2> QED BY <1>6, <2>4, <2>5 DEF MaybeConf, IsConf
<1>8. FilesTyped
    <2>1. \A x \in Names : MaybeConf(file[x], 1)
        BY <1>1, <1>7 DEF MaybeConf
    <2> QED BY <1>1, <1>6, <2>1 DEF FilesTyped
<1>9. LoadedTyped /\ ClientsTyped /\ ServersTyped
    BY <1>3, <1>6 DEF LoadedTyped, ClientsTyped, ServersTyped
<1>10. TokensTyped
    BY <1>4, <1>5, <1>6, GenClientAssumption DEF TokensTyped
<1>11. FlowsTyped
    BY <1>3, <1>6 DEF FlowsTyped
<1>12. \A i \in Procs : gen[i].pc = "idle" /\ gen[i].conf = NULL /\ gen[i].new = NULL
    BY <1>2 DEF Idle
<1>13. ProcsTyped
    BY <1>12 DEF ProcsTyped, ProcTyped, Follows, MaybeConf, Configured, Watching
<1>14. ASSUME NEW x \in Names PROVE NameKept(x)
    <2>1. \A i \in Procs : ~Uses(gen[i], x)
        BY <1>12 DEF Uses
    <2>2. \A k \in Auths : ~Pending(k)
        BY <1>3 DEF Pending
    <2>3. ASSUME NEW t \in Auths, Current(x, t) PROVE FileHas(x, t)
        <3>1. t = 1 /\ owner[1] = x
            BY <1>5, <2>3 DEF Current, Newest
        <3>2. x = m /\ file[x] # NULL
            BY <1>4, <1>6, <3>1, GenClientAssumption
        <3> QED BY <1>1, <1>7, <3>1, <3>2 DEF FileHas
    <2> QED BY <1>12, <2>1, <2>2, <2>3 DEF NameKept
<1> QED BY <1>8, <1>9, <1>10, <1>11, <1>13, <1>14 DEF TokenTypes, StoreTyped, NamesKept

\* A set of numbers with a bound has a greatest.
LEMMA Greatest ==
    ASSUME NEW top \in Nat, NEW S \in SUBSET (1..top), S # {}
    PROVE  \E t \in S : \A u \in S : u <= t
<1> DEFINE D == {k \in Nat : top - k \in S}
<1>1. PICK s \in S : TRUE
    OBVIOUS
<1>2. top - s \in D
    BY <1>1
<1>3. D # {} /\ D \subseteq Nat
    BY <1>2
<1>4. PICK x \in D : \A y \in D : ~(<<y, x>> \in OpToRel(<, Nat))
    BY <1>3, WFMin, NatLessThanWellFounded
<1>5. \A y \in D : ~(y < x)
    BY <1>3, <1>4 DEF OpToRel
<1>6. ASSUME NEW u \in S PROVE u <= top - x
    <2>1. top - u \in D
        OBVIOUS
    <2> QED BY <1>5, <2>1
<1> QED BY <1>6

LEMMA KeptHolds == ServerInv /\ TokenTypes /\ NamesKept => TokenKept
<1> SUFFICES ASSUME ServerInv, TokenTypes, NamesKept, NEW m \in Names \ loose,
                    NEW mine, mine = {t \in 1..count.token : owner[t] = m}, mine # {},
                    NEW newest, newest = CHOOSE t \in mine : \A u \in mine : u <= t, newest \in valid
             PROVE  newest \in Held
    BY DEF TokenKept
<1>1. count.token \in Nat
    BY DEF TokenTypes, StoreTyped, TokensTyped
<1>2. \E t \in mine : \A u \in mine : u <= t
    BY <1>1, Greatest
<1>3. newest \in mine /\ \A u \in mine : u <= newest
    BY <1>2
<1>4. Current(m, newest)
    BY <1>3 DEF Current, Newest
<1>5. newest \in Auths /\ NameKept(m)
    BY <1>3, TokenIsAuth DEF NamesKept
<1>6. CASE FileHas(m, newest)
    BY <1>6 DEF FileHas, Held
<1>7. ASSUME NEW i \in Procs, Keeps(gen[i], m) PROVE newest \in Held
    <2>1. ProcKnows(gen[i], m)
        BY <1>5, <1>7 DEF NameKept, Keeps, Polling
    <2>2. CASE gen[i].pc \in Polling /\ flow[gen[i].state].at = "exchanged"
        <3>1. loaded[m] = newest
            BY <1>4, <1>5, <2>1, <2>2 DEF ProcKnows
        <3> QED BY <3>1 DEF Held
    <2>3. CASE gen[i].pc = "save" /\ gen[i].new = NULL
        <3>1. gen[i].conf.rt = newest
            BY <1>4, <1>5, <2>1, <2>3 DEF ProcKnows
        <3>2. gen[i].conf # NULL
            BY <2>3 DEF TokenTypes, ProcsTyped, ProcTyped, Configured
        <3> QED BY <3>1, <3>2 DEF Held
    <2> QED BY <1>7, <2>2, <2>3 DEF Keeps
<1> QED BY <1>4, <1>5, <1>6, <1>7 DEF NameKept

\* Whatever oidc-gen registers, renames, deletes or gives up, and whatever fails at the provider on
\* the way: the newest refresh token of an account is in its file, in the agent (oidcd_handleGen,
\* oidcd_handleRm) or with the process about to write it (saveAccountConfig), as long as the provider
\* accepts it and no save was cancelled or cut off.
THEOREM NewestKept == Spec => []TokenKept
<1>1. Init => ServerInv /\ TokenTypes /\ NamesKept
    BY ServerInit, KeptInit
<1>2. (ServerInv /\ TokenTypes /\ NamesKept) /\ [Next]_vars => (ServerInv /\ TokenTypes /\ NamesKept)'
    BY ServerNext, KeptNext
<1> QED BY <1>1, <1>2, KeptHolds, PTL DEF Spec
=============================================================================
