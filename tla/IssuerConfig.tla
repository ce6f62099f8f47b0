---------------------------- MODULE IssuerConfig ----------------------------
(***************************************************************************)
(* issuerConfig.c: what the agents know of the issuers.  An agent puts the *)
(* configuration files together when it starts, answers from that copy     *)
(* from then on, and writes all of it to the user's issuer.config whenever *)
(* an account is added or deleted.  Files are JSON values or, in the old   *)
(* format and after a write that was cut off, lines.  Of the string        *)
(* settings contact stands for all, of the two flags with a set bit oauth. *)
(***************************************************************************)
EXTENDS Text

CONSTANTS
    NULL,
    Agents,
    Names,      \* short names of accounts
    Issuers,    \* urls of issuers
    Contact,    \* what the user may write as contact
    Confs,      \* contents of the user's issuer.config at first
    Lows        \* contents of the other files, the first one that counts first

ASSUME IssuerConfigAssumption == Names \cap {NoText, PrintedNull} = {} /\ NoText \notin Issuers

VARIABLES
    conf,    \* the user's issuer.config
    low,     \* the other files
    list,    \* what each agent that runs has read
    saving,  \* what it is about to write
    mine,    \* what the user himself wrote into issuer.config
    known,   \* accounts that were added and not deleted, in order, with the host of their issuer
    calm     \* no two agents at once, no crash within a write, no edit while an agent ran

vars == <<conf, low, list, saving, mine, known, calm>>

\* Keys.
issuer == <<105>>
accounts == <<97>>
default_account == <<100, 97>>
contact == <<99>>
oauth == <<111>>
legacy_aud_mode == <<108>>
pubclient == <<112>>
user_client == <<117>>
client_id == <<105, 100>>
flow == <<102>>

NoList == Fail
List(l) == [ok |-> TRUE, l |-> l]
ItemsOf(l) == IF l.ok THEN l.l ELSE <<>>
Host(iss) == IF iss[Len(iss)] = SLASH THEN Front(iss) ELSE iss

-----------------------------------------------------------------------------
(* Between JSON and the structs.                                           *)

\* jsonAddStringValue adds no NULL.
AddIfValid(j, key, s) == IF s = NoText THEN j ELSE jsonAddStringValue(j, key, s)
AddList(j, key, l) == IF l.ok THEN cJSON_AddItemToObject(j, key, stringListToJSONArray(l.l)) ELSE j

\* getJSONValue of a string or a flag.  Objects and arrays are printed and
\* parsed again, which gives the same value (Algorithms!JsonRoundTrip).
Value(j, key) ==
    LET v == cJSON_GetObjectItemCaseSensitive(j, key) IN
    CASE v.t = "string" /\ strValid(v.s) -> v.s
      [] v.t = "true"                    -> <<49>>
      [] v.t = "false"                   -> <<48>>
      [] OTHER                           -> NoText
ListAt(j, key) ==
    LET v == cJSON_GetObjectItemCaseSensitive(j, key)
    IN  IF v.t = "array" THEN List([i \in DOMAIN v.c |-> v.c[i].s]) ELSE NoList

getClientConfigFromJSON(j) ==
    IF j.t # "object" THEN NoList
    ELSE [ok |-> TRUE, id |-> Value(j, client_id), scope |-> Value(j, scope), flows |-> ListAt(j, flow)]

getIssuerConfigFromJSON(j) ==
    [issuer |-> Value(j, issuer), contact |-> Value(j, contact), default_account |-> Value(j, default_account),
     oauth |-> Value(j, oauth) = <<49>>, oauth_set |-> Value(j, oauth) # NoText,
     legacy_aud_mode |-> Value(j, legacy_aud_mode) = <<49>>,
     pub_client |-> getClientConfigFromJSON(cJSON_GetObjectItemCaseSensitive(j, pubclient)),
     user_client |-> getClientConfigFromJSON(cJSON_GetObjectItemCaseSensitive(j, user_client)),
     accounts |-> ListAt(j, accounts)]

clientConfigToJSON(p) ==
    AddList(AddIfValid(AddIfValid(Object(<<>>), client_id, p.id), scope, p.scope), flow, p.flows)

\* Mutant: a flag is written only when it is set.
issuerConfigToJSON_true(c) ==
    LET j == AddIfValid(AddList(jsonAddStringValue(Object(<<>>), issuer, c.issuer), accounts, c.accounts),
                        contact, c.contact)
        k == AddIfValid(IF c.pub_client.ok THEN cJSON_AddItemToObject(j, pubclient, clientConfigToJSON(c.pub_client))
                        ELSE j, default_account, c.default_account)
    IN  IF c.oauth THEN cJSON_AddItemToObject(k, oauth, Bool(TRUE)) ELSE k

\* The user client is not written, nor a legacy_aud_mode that is false.
issuerConfigToJSON(c) ==
    LET with_accounts == AddList(jsonAddStringValue(Object(<<>>), issuer, c.issuer), accounts, c.accounts)
        with_pub == IF c.pub_client.ok
                    THEN cJSON_AddItemToObject(with_accounts, pubclient, clientConfigToJSON(c.pub_client))
                    ELSE with_accounts
        with_strings == AddIfValid(AddIfValid(with_pub, contact, c.contact), default_account, c.default_account)
        with_oauth == IF c.oauth_set THEN cJSON_AddItemToObject(with_strings, oauth, Bool(c.oauth))
                      ELSE with_strings
    IN  IF c.legacy_aud_mode THEN cJSON_AddItemToObject(with_oauth, legacy_aud_mode, Bool(TRUE))
        ELSE with_oauth

listToJSONArray(l) == Array([i \in DOMAIN l |-> issuerConfigToJSON(l[i])])

-----------------------------------------------------------------------------
(* Reading the files.                                                      *)

\* Mutant: what is read later wins.
collect_handleObject_later(collection, j) ==
    LET iss == Value(j, issuer)
    IN  jsonMergePatch(collection, IF iss = NoText THEN Object(<<>>) ELSE Object(<<Member(iss, j)>>))

\* What was collected is a patch of what is read now.
collect_handleObject(collection, j) ==
    LET iss == Value(j, issuer)
    IN  jsonMergePatch(IF iss = NoText THEN Object(<<>>) ELSE Object(<<Member(iss, j)>>), collection)

Elements(v) == CASE v.t = "object" -> <<v>> [] v.t = "array" -> v.c [] OTHER -> <<>>

\* collectJSONIssuers over the files, each one object or an array of them.
collectJSONIssuers(files) ==
    FoldLeft(collect_handleObject, Object(<<>>), FlattenSeq([i \in DOMAIN files |-> Elements(files[i])]))

\* By the number of accounts, those without a list last.
issuerConfig_compByAccountCount(c) == IF c.accounts.ok THEN -Len(c.accounts.l) ELSE 1

\* Every issuer collected is pushed to the front of the list, which is sorted.
Collected(files) ==
    LET items == collectJSONIssuers(files).c
        pushed == Reverse([i \in DOMAIN items |-> getIssuerConfigFromJSON(items[i].v)])
        sorted == list_mergeSort([i \in DOMAIN pushed |->
                     [key |-> issuerConfig_compByAccountCount(pushed[i]), c |-> pushed[i]]])
    IN  [i \in DOMAIN sorted |-> sorted[i].c]

findIssuer(l, iss) ==
    LET hits == {i \in DOMAIN l : compIssuerUrls(l[i].issuer, iss)} IN IF hits = {} THEN 0 ELSE Min(hits)

NoConfig == [issuer |-> NoText, contact |-> NoText, default_account |-> NoText, oauth |-> FALSE,
             oauth_set |-> FALSE, legacy_aud_mode |-> FALSE, pub_client |-> NoList,
             user_client |-> NoList, accounts |-> NoList]

\* A line of the old format is an issuer and possibly an account; an issuer
\* that comes again adds its account.
addLine(l, line) ==
    LET at == findIssuer(l, line.iss)
        single == IF line.account = NoText THEN List(<<>>) ELSE List(<<line.account>>)
    IN  IF at = 0
        THEN Append(l, [NoConfig EXCEPT !.issuer = line.iss, !.default_account = line.account, !.accounts = single])
        ELSE [l EXCEPT ![at].accounts.l = list_addStringIfNotFound(@, line.account)]

updateIssuerConfigFileFormat(lines) == listToJSONArray(FoldLeft(addLine, <<>>, lines))

Json(v) == [json |-> TRUE, v |-> v]
Lines(l) == [json |-> FALSE, l |-> l]
Truncated == Lines(<<>>)

Contents(c) ==
    IF c = NULL THEN <<>>
    ELSE IF c.json THEN <<c.v>> ELSE <<updateIssuerConfigFileFormat(c.l)>>

ReadNow == Collected(Contents(conf) \o low)

Up(a) == list[a] # NULL

\* The history counts while it is calm.
History(c, k, m) == calm' = c /\ known' = (IF c THEN k ELSE <<>>) /\ mine' = (IF c THEN m ELSE Array(<<>>))

Ready(a) == Up(a) /\ saving[a] = NULL

\* Writing truncates the file first.
writeOidcFile(a, v) == conf' = Truncated /\ saving' = [saving EXCEPT ![a] = v]

\* An agent asks for the issuers the first time.  A file that holds no JSON
\* array is taken for one of the old format, and written anew.
readIssuerConfigs(a) ==
    /\ ~Up(a) /\ list' = [list EXCEPT ![a] = ReadNow]
    /\ IF conf # NULL /\ ~conf.json
       THEN writeOidcFile(a, updateIssuerConfigFileFormat(conf.l))
       ELSE UNCHANGED <<conf, saving>>
    /\ History(calm /\ \A b \in Agents : ~Up(b), known, mine) /\ UNCHANGED low

written(a) ==
    /\ saving[a] # NULL
    /\ conf' = Json(saving[a]) /\ saving' = [saving EXCEPT ![a] = NULL]
    /\ UNCHANGED <<low, list, mine, known, calm>>

-----------------------------------------------------------------------------
(* Accounts come and go.                                                   *)

withAccount(l, iss, name) ==
    LET at == findIssuer(l, iss) IN
    IF at = 0 THEN Append(l, [NoConfig EXCEPT !.issuer = iss, !.accounts = List(<<name>>)])
    ELSE [l EXCEPT ![at].accounts = List(list_addStringIfNotFound(ItemsOf(@), name))]

\* Nothing is written for an account that is listed.
oidcp_updateIssuerConfigAdd(a, iss, name) ==
    LET l == withAccount(list[a], iss, name) IN
    /\ Ready(a)
    /\ IF l = list[a] THEN UNCHANGED <<conf, list, saving>>
       ELSE list' = [list EXCEPT ![a] = l] /\ writeOidcFile(a, listToJSONArray(l))
    /\ History(calm, list_addStringIfNotFound(known, <<Host(iss), name>>), mine) /\ UNCHANGED low

\* Mutant: the issuer has to be spelled as it is in the list.
withoutAccount_exact(l, iss, name) ==
    [i \in DOMAIN l |-> IF l[i].issuer = iss /\ l[i].accounts.ok
                        THEN [l[i] EXCEPT !.accounts.l = list_removeIfFound(@, name)] ELSE l[i]]

withoutAccount(l, iss, name) ==
    LET at == findIssuer(l, iss) IN
    IF at = 0 \/ ~l[at].accounts.ok THEN l
    ELSE [l EXCEPT ![at].accounts.l = list_removeIfFound(@, name)]

oidcp_updateIssuerConfigDelete(a, iss, name) ==
    /\ Ready(a)
    /\ IF findIssuer(list[a], iss) = 0 THEN UNCHANGED <<conf, list, saving>>
       ELSE /\ list' = [list EXCEPT ![a] = withoutAccount(@, iss, name)]
            /\ writeOidcFile(a, listToJSONArray(list'[a]))
    /\ History(calm, list_removeIfFound(known, <<Host(iss), name>>), mine) /\ UNCHANGED low

\* The user writes a contact into an entry of the file.
userEdits(i, text) ==
    /\ conf # NULL /\ conf.json /\ i \in DOMAIN conf.v.c
    /\ conf' = [conf EXCEPT !.v.c[i] = setJSONValue(@, contact, text)]
    /\ LET iss == Value(conf.v.c[i], issuer)
           at == {k \in DOMAIN mine.c : Value(mine.c[k], issuer) = iss}
           new == Object(<<Member(issuer, String(iss)), Member(contact, String(text))>>)
       IN  History(calm /\ \A a \in Agents : ~Up(a), known,
                   Array(IF at = {} THEN Append(mine.c, new)
                         ELSE [mine.c EXCEPT ![Min(at)] = setJSONValue(@, contact, text)]))
    /\ UNCHANGED <<low, list, saving>>

stop(a) ==
    /\ Ready(a) /\ list' = [list EXCEPT ![a] = NULL]
    /\ UNCHANGED <<conf, low, saving, mine, known, calm>>

\* An agent that is killed while it writes leaves a part of the text, here
\* none or the line with the opening bracket.
crash(a) ==
    /\ saving[a] # NULL /\ saving' = [saving EXCEPT ![a] = NULL]
    /\ list' = [list EXCEPT ![a] = NULL]
    /\ conf' \in {Truncated, Lines(<<[iss |-> <<LBRACKET>>, account |-> NoText]>>)}
    /\ History(FALSE, known, mine) /\ UNCHANGED low

-----------------------------------------------------------------------------
\* What the user's first file says: its objects, or of the old format the
\* first line of every issuer, whose account is the default.
Own(c) ==
    IF c = NULL THEN <<>>
    ELSE IF c.json THEN Elements(c.v)
    ELSE LET first == {i \in DOMAIN c.l : \A k \in 1..(i-1) : Host(c.l[k].iss) # Host(c.l[i].iss)}
             object(i) == AddIfValid(Object(<<Member(issuer, String(c.l[i].iss))>>),
                                     default_account, c.l[i].account)
         IN  FlattenSeq([i \in DOMAIN c.l |-> IF i \in first THEN <<object(i)>> ELSE <<>>])

Listed(c) ==
    IF c = NULL THEN <<>>
    ELSE IF c.json
    THEN FlattenSeq([i \in DOMAIN Elements(c.v) |->
           LET k == getIssuerConfigFromJSON(Elements(c.v)[i])
           IN  [n \in DOMAIN ItemsOf(k.accounts) |-> <<Host(k.issuer), k.accounts.l[n]>>]])
    ELSE FoldLeft(list_addStringIfNotFound, <<>>,
                  [i \in DOMAIN c.l |-> IF c.l[i].account = NoText THEN NoText
                                        ELSE <<Host(c.l[i].iss), c.l[i].account>>])

Init ==
    /\ conf \in Confs /\ low \in Lows
    /\ list = [a \in Agents |-> NULL] /\ saving = [a \in Agents |-> NULL]
    /\ mine = Array(Own(conf)) /\ known = Listed(conf) /\ calm = TRUE

Next ==
    \/ \E a \in Agents :
         \/ readIssuerConfigs(a) \/ written(a) \/ stop(a) \/ crash(a)
         \/ \E iss \in Issuers, n \in Names :
              oidcp_updateIssuerConfigAdd(a, iss, n) \/ oidcp_updateIssuerConfigDelete(a, iss, n)
    \/ \E i \in 1..Cardinality(Issuers), text \in Contact : userEdits(i, text)

Spec == Init /\ [][Next]_vars

-----------------------------------------------------------------------------
(* What the agent answers.                                                 *)

getSuggestableIssuers(l) ==
    FoldLeft(LAMBDA s, c : IF \E i \in DOMAIN s : compIssuerUrls(s[i], c.issuer) THEN s ELSE Append(s, c.issuer),
             <<>>, l)

\* The issuer of the account, which is appended if it is not suggested; else
\* the first issuer that contains the account's name.  Counted from 0.
getFavIssuer(suggestable, iss, name) ==
    LET same == {i \in DOMAIN suggestable : compIssuerUrls(suggestable[i], iss)}
        like == {i \in DOMAIN suggestable : strSubString(suggestable[i], name)}
    IN  IF iss # NoText
        THEN IF same # {} THEN [at |-> Min(same) - 1, l |-> suggestable]
             ELSE [at |-> Len(suggestable), l |-> Append(suggestable, iss)]
        ELSE [at |-> IF like = {} THEN 0 ELSE Min(like) - 1, l |-> suggestable]

getAccountInfos(l) ==
    [i \in DOMAIN l |-> [issuer |-> l[i].issuer, accounts |-> ItemsOf(l[i].accounts),
                         has_pub |-> l[i].pub_client.ok /\ l[i].pub_client.id # NoText]]

getDefaultAccountConfigForIssuer(l, iss) ==
    LET at == findIssuer(l, iss) IN
    IF at = 0 THEN NoText
    ELSE IF strValid(l[at].default_account) THEN l[at].default_account
    ELSE IF ItemsOf(l[at].accounts) = <<>> THEN NoText ELSE l[at].accounts.l[1]

-----------------------------------------------------------------------------
(* Properties.                                                             *)

\* Every issuer has one entry by its spelling, and every account is listed
\* once in it, whatever the agents do to each other's file.
ListedOnce ==
    \A a \in Agents : Up(a) =>
         /\ IsInjective([i \in DOMAIN list[a] |-> list[a][i].issuer])
         /\ \A i \in DOMAIN list[a] :
              list[a][i].issuer # NoText /\ IsInjective(ItemsOf(list[a][i].accounts))

\* The accounts an agent reports are those that were ever added and not
\* deleted, by it or by an agent before it, however their issuer was spelled
\* each time: they come back from the file after a restart.
AccountsListed ==
    \A a \in Agents : calm /\ Up(a) =>
        LET infos == getAccountInfos(list[a])
            all == FlattenSeq([i \in DOMAIN infos |->
                     [n \in DOMAIN infos[i].accounts |-> <<Host(infos[i].issuer), infos[i].accounts[n]>>]])
        IN  Range(all) = Range(known) /\ Len(all) = Len(known)

\* The value given for a key and an issuer by the first object that has one.
Given(objects, iss, key) ==
    LET has == SelectSeq(objects, LAMBDA j : Value(j, issuer) = iss /\ Value(j, key) # NoText)
    IN  IF has = <<>> THEN NoText ELSE Value(has[1], key)

InOrder == mine.c \o FlattenSeq([i \in DOMAIN low |-> Elements(low[i])])

\* Of the configuration files the one that is named last in the documentation
\* counts: the user's issuer.config before issuer.config.d, before /etc; and
\* rewriting the file changes nothing about that.
FirstFileWins ==
    \A a \in Agents : calm /\ Up(a) => \A i \in DOMAIN list[a] :
        LET c == list[a][i] IN
        /\ c.contact = Given(InOrder, c.issuer, contact)
        /\ (c.oauth_set <=> Given(InOrder, c.issuer, oauth) # NoText)
        /\ (c.oauth <=> Given(InOrder, c.issuer, oauth) = <<49>>)
        /\ c.default_account = Given(InOrder, c.issuer, default_account)

\* Without a default account of the user's the default is the oldest account
\* of the issuer that is left, after any number of restarts.
DefaultIsOldest ==
    \A a \in Agents, iss \in Issuers : calm /\ Up(a) =>
        LET at == findIssuer(list[a], iss)
            set == IF at = 0 THEN NoText ELSE Given(InOrder, list[a][at].issuer, default_account)
            left == SelectSeq(known, LAMBDA k : k[1] = Host(iss))
        IN  getDefaultAccountConfigForIssuer(list[a], iss) =
              IF set # NoText THEN set ELSE IF left = <<>> THEN NoText ELSE left[1][2]

\* Which of several values is used does not depend on the history: of the
\* files the first, of the accounts the oldest.
PrecedenceKept == FirstFileWins /\ DefaultIsOldest

\* What an agent would read if it were started again is what it answers from,
\* the user clients and legacy_aud_mode apart, which are lost in the file.
RestartReadsTheSame ==
    \A a \in Agents : calm /\ Ready(a) =>
        LET kept(c) == [c EXCEPT !.user_client = NoList, !.legacy_aud_mode = FALSE]
            all(l) == {kept(l[i]) : i \in DOMAIN l}
        IN  all(ReadNow) = all(list[a])

\* oidc-gen suggests every issuer once, with or without its slash, and its
\* favourite is one of them: the account's own issuer if that is known.
IssuersSuggested ==
    \A a \in Agents : Up(a) =>
        LET s == getSuggestableIssuers(list[a]) IN
        /\ \A i \in DOMAIN list[a] : Cardinality({k \in DOMAIN s : compIssuerUrls(s[k], list[a][i].issuer)}) = 1
        /\ \A iss \in Issuers \cup {NoText}, n \in Names : iss # NoText \/ s # <<>> =>
             LET fav == getFavIssuer(s, iss, n)
             IN  fav.at + 1 \in DOMAIN fav.l /\ (iss # NoText => compIssuerUrls(fav.l[fav.at + 1], iss))

\* What oidc-gen and oidc-add are told of issuers and accounts is complete and
\* without repetition.
AccountsReported == ListedOnce /\ AccountsListed /\ IssuersSuggested
=============================================================================
