--------------------------- MODULE Configuration ----------------------------
(***************************************************************************)
(* The settings of the programs (configUtils.c, agent_config.c,            *)
(* gen_config.c, add_config.c, client_config.c), the parameters a user may *)
(* add to requests (custom_parameter.c), and the grant and response types  *)
(* that a client is registered with (issuer_helper.c).  Of several flags   *)
(* or strings that a file treats alike one stands for all.                 *)
(***************************************************************************)
EXTENDS Text

CONSTANTS
    Environment,    \* environment variables, [name -> value]
    FirstLines      \* the first lines of files, [path -> line]

-----------------------------------------------------------------------------
(* The text of a configuration file is its lines without the comments, one *)
(* behind the other, NoText if it is missing.                              *)

Absent == [t |-> "absent"]
Broken == [t |-> "broken"]
Exit == [t |-> "exit"]

\* What readConfig makes of a text: strValid drops also one that is just `null'.
ParsedFile(r) == IF r.ok THEN r.v ELSE Broken
FileValue(text) == IF strValid(text) THEN ParsedFile(stringToJson(text)) ELSE Absent

\* Mutant: the global file overrides the user's.
Combined_swapped(global, user) ==
    CASE user.t = "broken" -> Exit
      [] user.t = "absent" -> IF global.t \in {"absent", "broken"} THEN NoValue ELSE global
      [] global.t = "broken" -> Exit
      [] global.t = "absent" -> user
      [] OTHER -> jsonMergePatch(user, global)

\* Which file failed is told from the last error, and a missing user file
\* makes one of its own: then a broken global file passes as none.
Combined(global, user) ==
    CASE user.t = "broken" -> Exit
      [] user.t = "absent" -> IF global.t \in {"absent", "broken"} THEN NoValue ELSE global
      [] global.t = "broken" -> Exit
      [] global.t = "absent" -> user
      [] OTHER -> jsonMergePatch(global, user)

readConfig(global, user) == Combined(FileValue(global), FileValue(user))

\* The section of one program, all defaults if there is no configuration.  One
\* that is missing, or is no object, ends the program.
Section(config, name) ==
    LET v == IF config.t = "object" THEN cJSON_GetObjectItemCaseSensitive(config, name) ELSE NoValue
    IN  CASE config.t = "exit" -> Exit
          [] config.t = "none" -> Object(<<>>)
          [] v.t = "object" -> v
          [] OTHER -> Exit

strToBit(s) ==
    IF strcaseequal(s, Literals.true) \/ strcaseequal(s, Literals.false) THEN strcaseequal(s, Literals.true)
    ELSE strToLong(s) % 256 /= 0

\* Sections and keys.
agent == <<65>>
gen == <<71>>
add == <<66>>
client == <<67>>
debug == <<68>>
group == <<78>>
cnid == <<78>>
lifetime == <<76>>
prompt == <<80>>
mode == <<77>>

parse_prompt_mode(s) ==
    CASE ~strValid(s) \/ strcaseequal(s, <<99>>) -> "cli"
      [] strcaseequal(s, <<103>>) -> "gui"
      [] strcaseequal(s, <<110>>) -> "none"
      [] OTHER -> "invalid"

\* A word that has to be one of some, or be missing.
Word(j, words) ==
    LET s == getJSONValue(j, mode)
    IN  CASE ~strValid(s) -> "unset"
          [] \E w \in DOMAIN words : strcaseequal(s, w) -> words[CHOOSE w \in DOMAIN words : strcaseequal(s, w)]
          [] OTHER -> "refused"

getAgentConfig(config) ==
    LET j == Section(config, agent)
        scopemode == Word(j, <<101>> :> "exact" @@ <<109>> :> "max")
    IN  IF j.t = "exit" THEN Exit ELSE IF scopemode = "refused" THEN Exit
        ELSE [t |-> "set", text |-> getJSONValue(j, group), flag |-> strToBit(getJSONValue(j, debug)),
              lifetime |-> strToLong(getJSONValue(j, lifetime)), mode |-> scopemode]

getGenConfig(config) ==
    LET j == Section(config, gen)
        answer == Word(j, <<121>> :> "yes" @@ <<110>> :> "no" @@ <<100>> :> "default")
    IN  IF j.t = "exit" THEN Exit ELSE IF answer = "refused" THEN Exit
        ELSE [t |-> "set", text |-> getJSONValue(j, cnid), flag |-> strToBit(getJSONValue(j, debug)),
              prompt |-> parse_prompt_mode(getJSONValue(j, prompt)), mode |-> answer]

getAddConfig(config) ==
    LET j == Section(config, add)
    IN  IF j.t = "exit" THEN Exit
        ELSE [t |-> "set", flag |-> strToBit(getJSONValue(j, debug)),
              prompt |-> parse_prompt_mode(getJSONValue(j, prompt))]

getClientConfig(config) ==
    LET j == Section(config, client)
    IN  IF j.t = "exit" THEN Exit
        ELSE [t |-> "set", text |-> getJSONValue(j, cnid), lifetime |-> strToLong(getJSONValue(j, lifetime))]

-----------------------------------------------------------------------------
(* Custom parameters.  A file is a JSON value, or NoValue.                 *)

parameter == <<112>>
value == <<118>>
for_issuer == <<105>>
for_account == <<97>>
request == <<114>>

getValue(v) ==
    IF ~strValid(v) THEN NoText
    ELSE LET at(f, k) == IF k \in DOMAIN f THEN f[k] ELSE NoText
         IN  CASE v[1] = 36    -> at(Environment, Tail(v))
               [] v[1] = SLASH -> at(FirstLines, v)
               [] OTHER        -> v

Items(l) == IF l.ok THEN l.l ELSE <<>>
ListIn(j, key) == Items(JSONArrayStringToList(getJSONValue(j, key)))

tuple_new(j, r, i, a) ==
    [parameter |-> getJSONValue(j, parameter), request |-> r, issuer |-> i, account |-> a, value |-> getJSONValue(j, value)]

\* A tuple for every request with every issuer, then with every account.
tuples_new(j, requests, issuers, accounts) ==
    FlattenSeq([k \in DOMAIN requests |->
        [i \in DOMAIN issuers |-> tuple_new(j, requests[k], issuers[i], NoText)]
        \o [i \in DOMAIN accounts |-> tuple_new(j, requests[k], NoText, accounts[i])]])

parseCustomParametersObject(j) ==
    IF j.t /= "object" THEN <<>>
    ELSE tuples_new(j, ListIn(j, request), ListIn(j, for_issuer), ListIn(j, for_account))

match_custom_parameter_tuples(a, b) == [a EXCEPT !.value = NoText] = [b EXCEPT !.value = NoText]

\* Tuples that the list had before this file are not added.
parseCustomParametersFileContent(all, file) ==
    LET new == FlattenSeq([i \in DOMAIN file.c |-> parseCustomParametersObject(file.c[i])])
        known(p) == \E i \in DOMAIN all : match_custom_parameter_tuples(all[i], p)
    IN  IF file.t /= "array" THEN all ELSE all \o SelectSeq(new, LAMBDA p : ~known(p))

custom_parameters(user, etc) ==
    parseCustomParametersFileContent(parseCustomParametersFileContent(<<>>, user), etc)

addCustomParameters(params, iss, name, request_type) ==
    LET applies(p) == p.request = request_type /\ (p.issuer = iss \/ p.account = name)
        sent == SelectSeq(params, applies)
    IN  [i \in DOMAIN sent |-> [parameter |-> sent[i].parameter, value |-> getValue(sent[i].value)]]

-----------------------------------------------------------------------------
(* What a client is registered for, from the flows in the user's order.    *)

Before(flows, i, f) == \E k \in 1..(i - 1) : flows[k] \in f

\* Of the password and the code flow the one that comes first.
Chosen(flows) == SelectSeq(flows, LAMBDA f : f \in {"password", "code"})

\* The device grant is added for a device endpoint of the user's, whether it
\* is there or not.
getUsableGrantTypes(supported, flows, dae) ==
    LET c == Chosen(flows)
        counts(f) == f = "device" \/ (c /= <<>> /\ f = c[1])
        grant(f) == IF f = "code" THEN "authorization_code" ELSE f
        wanted == <<"refresh_token">> \o [i \in DOMAIN SelectSeq(flows, counts) |-> grant(SelectSeq(flows, counts)[i])]
    IN  intersectLists(wanted, supported) \o (IF dae THEN <<"device">> ELSE <<>>)

\* A token is asked for once, for the password or the device flow, and a code
\* once, if no token was before.
getUsableResponseTypes(supported, flows) ==
    LET type(i) == CASE flows[i] \in {"password", "device"} /\ ~Before(flows, i, {"password", "device"}) -> <<"token">>
                     [] flows[i] = "code" /\ ~Before(flows, i, {"password", "device", "code"}) -> <<"code">>
                     [] OTHER -> <<>>
    IN  intersectLists(FlattenSeq([i \in DOMAIN flows |-> type(i)]), supported)
=============================================================================
