---------------------------- MODULE Algorithms -----------------------------
(***************************************************************************)
(* The pure functions of JsonText, Json, ListUtils, Text, Configuration,   *)
(* AccountData and IdRangeList against reference definitions, over enumerated inputs:  *)
(* a state is one call, kind says of what, input with what.                *)
(***************************************************************************)
EXTENDS Configuration, AccountData, IdRangeList

CONSTANT Inputs     \* [kind -> set of inputs]

VARIABLES kind, input

vars == <<kind, input>>

Init == kind = "none" /\ input = <<>>

Call(k) == kind = "none" /\ kind' = k /\ input' \in Inputs[k]
Again == kind /= "none" /\ kind' = "none" /\ input' = <<>>

Next == \/ Call("ids") \/ Call("value") \/ Call("escapes") \/ Call("text")
        \/ Call("objects") \/ Call("lists") \/ Call("keys") \/ Call("words")
        \/ Call("scopes") \/ Call("durations") \/ Call("uri") \/ Call("issuers")
        \/ Call("settings") \/ Call("parameters") \/ Call("flows")
        \/ Call("uris") \/ Call("provider") \/ Call("file") \/ Call("device")
        \/ Again

Spec == Init /\ [][Next]_vars

-----------------------------------------------------------------------------
RangesOf(part, db, max) == {d \in Denoted(part, db, max) : d.min <= d.max}

Denotes(r, denoted) ==
  /\ r.ok <=> {} \notin denoted
  /\ r.ok => \A id \in 0..(IdMod - 1) :
       safe_is_id_in_list(r.list, id) <=> \E d \in UNION denoted : d.min <= id /\ id <= d.max

\* The list of ids the parser builds holds exactly the ids that the text
\* denotes, read part by part between the colons; the parser refuses exactly
\* the texts with a part that denotes no range, among them those with a number
\* beyond unsigned long (safe_id_range_list.c).  So for users, for groups, and
\* for plain numbers, where no name is known and '*' gives 0.  A number beyond
\* id_t that strtoul still reads is not refused: it denotes its low bits.
IdListsDenote ==
  kind = "ids" =>
    /\ Denotes(safe_parse_id_list(input), {RangesOf(part, NoNames, 0) : part \in Parts(input)})
    /\ Denotes(safe_parse_uid_list(input), {RangesOf(part, Users, safe_err_id) : part \in Parts(input)})
    /\ Denotes(safe_parse_gid_list(input), {RangesOf(part, Groups, safe_err_id) : part \in Parts(input)})

-----------------------------------------------------------------------------
RECURSIVE Strings(_)
Strings(v) ==
  CASE v.t = "string" -> {v.s}
    [] v.t = "array"  -> UNION {Strings(v.c[i]) : i \in DOMAIN v.c}
    [] v.t = "object" -> UNION {{v.c[i].k} \cup Strings(v.c[i].v) : i \in DOMAIN v.c}
    [] OTHER          -> {}

EndsInBackslash(s) == s /= <<>> /\ s[Len(s)] = BACKSLASH

RECURSIVE Depth(_)
Depth(v) ==
  CASE v.t = "array"  -> 1 + Max({0} \cup {Depth(v.c[i]) : i \in DOMAIN v.c})
    [] v.t = "object" -> 1 + Max({0} \cup {Depth(v.c[i].v) : i \in DOMAIN v.c})
    [] OTHER          -> 0

\* The value that parsing gave, none when it failed.
Reading(r) == IF r.ok THEN {r.v} ELSE {}

\* What one process prints, formatted or not, another reads back as the same
\* value, whatever bytes its strings hold.  Through json.c's stringToJson this
\* needs that no string ends in a backslash: cJSON_Minify takes the escaped
\* backslash in front of the closing quote for an escaped quote.
JsonRoundTrip ==
  kind = "value" =>
    \E printed \in {cJSON_Print(input)}, compact \in {cJSON_PrintUnformatted(input)} :
      /\ \A text \in {printed, compact} : Reading(cJSON_Parse(text)) = {input}
      /\ (\A s \in Strings(input) : ~EndsInBackslash(s)) =>
           \A text \in {jsonToString(input)} :
             /\ Reading(stringToJson(text)) = {input}
             /\ jsonToStringUnformatted(input) = compact

\* The code points of two UTF-16 units in a row; none when they do not pair.
CodePoints(a, b) ==
  LET high(u) == u \in 55296..56319
      low(u) == u \in 56320..57343
  IN  IF high(a) /\ low(b) THEN <<65536 + (a - 55296) * 1024 + (b - 56320)>>
      ELSE IF high(a) \/ low(a) \/ high(b) \/ low(b) THEN <<>>
      ELSE <<a, b>>

\* A byte sequence that UTF-8 reads as the code point cp, in the shortest form:
\* the first byte of each length, and the least code point that needs it.
Leads == <<0, 192, 224, 240>>
Least == <<0, 128, 2048, 65536>>

Reads8(bytes, cp) ==
  LET read[i \in 1..Len(bytes)] ==
        IF i = 1 THEN bytes[1] - Leads[Len(bytes)] ELSE 64 * read[i - 1] + bytes[i] - 128
  IN  /\ Len(bytes) \in 1..4 /\ cp >= Least[Len(bytes)]
      /\ read[Len(bytes)] = cp /\ \A i \in 2..Len(bytes) : bytes[i] \in 128..191

ReadsAs(s, cps) ==
  IF Len(cps) = 1 THEN Reads8(s, cps[1])
  ELSE \E k \in 1..(Len(s) - 1) : Reads8(SubSeq(s, 1, k), cps[1]) /\ Reads8(SubSeq(s, k + 1, Len(s)), cps[2])

Hex4(u) == <<HexChar(u \div 4096), HexChar((u \div 256) % 16),
             HexChar((u \div 16) % 16), HexChar(u % 16)>>

\* Two \u escapes are read as the UTF-8 bytes of the code points they stand for;
\* a half of a surrogate pair without the other half is refused.
EscapesDecoded ==
  kind = "escapes" =>
    \E cps \in {CodePoints(input[1], input[2])},
       r \in {cJSON_Parse(<<QUOTE, BACKSLASH, 117>> \o Hex4(input[1])
                         \o <<BACKSLASH, 117>> \o Hex4(input[2]) \o <<QUOTE>>)} :
      IF cps = <<>> THEN ~r.ok ELSE r.ok /\ ReadsAs(r.v.s, cps)

\* Whatever text is accepted, the value it gives is one that survives printing,
\* and no value is nested deeper than CJSON_NESTING_LIMIT.
AcceptedIsPrintable ==
  kind = "text" =>
    \A r \in {cJSON_Parse(input)} :
      r.ok => /\ Depth(r.v) <= CJSON_NESTING_LIMIT
              /\ r.at <= Len(input) + 1
              /\ Reading(cJSON_Parse(cJSON_Print(r.v))) = {r.v}

-----------------------------------------------------------------------------
AllKeys(o) == {o.c[i].k : i \in DOMAIN o.c}

\* The first of several with one key is the one that is read.
ValueOf(o, k) == IF k \in AllKeys(o) THEN o.c[Min({i \in DOMAIN o.c : o.c[i].k = k})].v ELSE NoValue

RECURSIVE Equal(_, _)
Equal(a, b) ==
  IF a.t /= b.t THEN FALSE
  ELSE CASE a.t = "object" -> /\ AllKeys(a) = AllKeys(b)
                              /\ \A k \in AllKeys(a) : Equal(ValueOf(a, k), ValueOf(b, k))
         [] a.t = "array" -> /\ Len(a.c) = Len(b.c)
                             /\ \A i \in DOMAIN a.c : Equal(a.c[i], b.c[i])
         [] OTHER -> a = b

\* RFC 7396, on objects as functions from keys to values.
RECURSIVE Patched(_, _)
Patched(target, patch) ==
  IF patch.t /= "object" THEN patch
  ELSE LET o == IF target.t = "object" THEN target ELSE Object(<<>>)
           keys == SetToSeq({k \in AllKeys(o) \cup AllKeys(patch) : ValueOf(patch, k).t /= "null"})
           new(k) == IF k \in AllKeys(patch) THEN Patched(ValueOf(o, k), ValueOf(patch, k))
                     ELSE ValueOf(o, k)
       IN  Object([i \in DOMAIN keys |-> Member(keys[i], new(keys[i]))])

\* jsonMergePatch, which puts the issuer configurations of several files
\* together, is the JSON merge patch of RFC 7396; cJSON_Compare, by which it is
\* observed, does not depend on the order of members.
PatchesLikeRfc7396 ==
  kind = "objects" =>
    /\ Equal(jsonMergePatch(input[1], input[2]), Patched(input[1], input[2]))
    /\ cJSON_Compare(input[1], input[2]) <=> Equal(input[1], input[2])

\* The functions over texts do what those over values do; a value that is set
\* is read back and no other changes, and one that is there is not set again.
ValuesKept ==
  kind = "objects" =>
    LET a == input[1]
        keys == SetToSeq(AllKeys(a) \cup AllKeys(input[2]))
        strings == SelectSeq(a.c, LAMBDA m : m.v.t = "string")
    IN  \E text \in {jsonToString(a)}, other \in {jsonToString(input[2])} :
          /\ isJSONObject(text) /\ ~isJSONArray(text)
          /\ getJSONValues(a, keys).values = [i \in DOMAIN keys |-> getJSONValueFromString(text, keys[i])]
          /\ \A k \in Range(keys) :
               /\ jsonStringHasKey(text, k) <=> getJSONValue(a, k) /= NoText
               /\ getJSONValue(setJSONValue(a, k, scope), k) = scope
               /\ setJSONValueIfNotSet(a, k, scope) = IF jsonHasKey(a, k) THEN a ELSE jsonAddStringValue(a, k, scope)
               /\ \A l \in Range(keys) \ {k} : getJSONValue(setJSONValue(a, k, scope), l) = getJSONValue(a, l)
          /\ generateJSONObject([i \in DOMAIN strings |->
                [key |-> strings[i].k, type |-> "string", value |-> strings[i].v.s]]) = Object(strings)
          /\ \A m \in {mergeJSONObjects(a, input[2])} :
               mergeJSONObjectStrings(text, other) = print_json(m)

\* Merging two configurations (json.c's mergeJSONObjects) keeps every key of
\* either, the zeros of the second apart, with a value one of them has, and
\* fails exactly on a conflict: two values that differ and are not empty, for a
\* key without a rule of its own, or a new null or boolean.  A key whose value
\* in the first is null or an empty string counts as missing there: what the
\* second has for it comes as another member behind the first one, so that the
\* empty value is still what is read, although the comment above the function
\* says that an empty value gives way.
MergeLosesNothing ==
  kind = "objects" =>
    LET a == input[1]
        b == input[2]
        unset(k) == ValueOf(a, k).t \in {"none", "null"} \/ (ValueOf(a, k).t = "string" /\ Empty(ValueOf(a, k)))
        both(k) == k \in AllKeys(b) /\ ~unset(k)
        numbers(k) == ValueOf(a, k).t = "number" /\ ValueOf(b, k).t = "number"
        conflict(k) ==
          \/ both(k) /\ k /= scope /\ ~(k = daeSetByUser /\ numbers(k))
             /\ ~Equal(ValueOf(a, k), ValueOf(b, k)) /\ ~Empty(ValueOf(a, k)) /\ ~Empty(ValueOf(b, k))
          \/ ~both(k) /\ ValueOf(b, k).t \in {"null", "true", "false"}
        added == {k \in AllKeys(b) : unset(k) /\ ValueOf(b, k) /= Number(0)}
        wins(k) == /\ both(k) /\ ~Empty(ValueOf(b, k))
                   /\ Empty(ValueOf(a, k)) \/ (k = daeSetByUser /\ ValueOf(a, k) = Number(0))
    IN  \A m \in {mergeJSONObjects(a, b)} :
          /\ m.t = "none" <=> \E k \in AllKeys(b) : conflict(k)
          /\ m.t /= "none" =>
               /\ AllKeys(m) = AllKeys(a) \cup added
               /\ Len(m.c) = Cardinality(AllKeys(a)) + Cardinality(added)
               /\ \A k \in added : Member(k, ValueOf(b, k)) \in Range(m.c)
               /\ \A k \in AllKeys(a) : ValueOf(m, k) = IF wins(k) THEN ValueOf(b, k) ELSE ValueOf(a, k)

-----------------------------------------------------------------------------
\* On lists without repetition the list functions are those of sets, and keep
\* the order of their first argument; a value is in the merged list once.
ListsLikeSets ==
  kind = "lists" =>
    LET a == input[1]
        b == input[2]
    IN  /\ Range(intersectLists(a, b)) = Range(a) \cap Range(b)
        /\ Range(subtractLists(a, b)) = Range(a) \ Range(b)
        /\ Range(mergeLists(a, b)) = Range(a) \cup Range(b)
        /\ IsInjective(a) /\ IsInjective(b) => IsInjective(mergeLists(a, b))
        /\ IsPrefix(a, mergeLists(a, b))
        /\ subtractListStrings(listToDelimitedString(a, <<COMMA>>), listToDelimitedString(b, <<COMMA>>), COMMA)
             = listToDelimitedString(subtractLists(a, b), <<COMMA>>)
        /\ JSONArrayToDelimitedString(stringListToJSONArray(a), <<COMMA>>) = listToDelimitedString(a, <<COMMA>>)
        /\ \A v \in Range(a) : listValid(findAllInList(b, v)) <=> Contains(intersectLists(a, b), v)
        /\ LET u == uniquifyArray(appendArrayToArray(stringListToJSONArray(a), stringListToJSONArray(b))).c
           IN  IsInjective(u) /\ {u[i].s : i \in DOMAIN u} = Range(mergeLists(a, b))
        /\ \A v \in Range(b) : findInList(a, v) = 0 <=> v \notin Range(a)
        /\ b /= <<>> => LET l == list_addStringIfNotFound(list_removeIfFound(a, b[1]), b[1])
                        IN  Range(l) = Range(a) \cup {b[1]}

\* list_mergeSort returns its elements in the order of their keys, and those
\* with equal keys in the order they had.
SortedStable ==
  kind = "keys" =>
    LET arr == [i \in DOMAIN input |-> [key |-> input[i], was |-> i]]
        s == list_mergeSort(arr)
    IN  /\ Len(s) = Len(arr) /\ Range(s) = Range(arr)
        /\ \A i \in 1..(Len(s) - 1) :
             \/ s[i].key < s[i + 1].key
             \/ s[i].key = s[i + 1].key /\ s[i].was < s[i + 1].was

\* A space separated list becomes the list of its words, and that list, printed
\* with spaces or as a JSON array, gives the same words again.
WordsKept ==
  kind = "words" =>
    \E l \in {delimitedStringToList(input, SPACE)} :
      /\ Len(l) = Cardinality({i \in DOMAIN input : input[i] /= SPACE /\ (i = 1 \/ Byte(input, i - 1) = SPACE)})
      /\ \A i \in DOMAIN l : l[i] /= <<>> /\ ~Contains(l[i], SPACE)
      /\ FlattenSeq(l) = SelectSeq(input, LAMBDA b : b /= SPACE)
      /\ delimitedStringToList(listToDelimitedString(l, <<SPACE>>), SPACE) = l
      /\ \A text \in {listToJSONArrayString(l)} \cup
                     (IF l = <<>> THEN {} ELSE {delimitedStringToJSONArray(input, SPACE)}) :
           JSONArrayStringToList(text) = [ok |-> TRUE, l |-> l]

\* A text with a character escaped is the text again once the escapes are
\* taken out, and the functions that cut, search and count agree on where the
\* character is.
TextsCut ==
  kind = "words" =>
    LET escaped == escapeCharInStr(input, SPACE)
        n == strCountChar(input, SPACE)
        words == strtok(input, SPACE)
        apart == \A i \in 1..(Len(input) - 1) : input[i] /= SPACE \/ input[i + 1] /= SPACE
    IN  /\ strelimIfFollowed(escaped, BACKSLASH, SPACE) = input /\ Len(escaped) = Len(input) + n
        /\ apart => strelim(input, SPACE) = FlattenSeq(words)
        /\ IsPrefix(strcutafterfirst(input, SPACE), strcutafterlast(input, SPACE))
        /\ strcutafterfirst(input, SPACE) = strcutafterlast(input, SPACE) <=> n < 2
        /\ firstNonWhiteSpaceChar(input) = IF words = <<>> THEN NUL ELSE words[1][1]
        /\ words /= <<>> => (strEnds(input, Last(words)) <=> ~strEnds(input, <<SPACE>>))

\* Redirect uris that pass the check give the redirect server a port that it
\* may use, and that port the same uri's local address again, unless all are
\* for the custom scheme.
UrisServed ==
  kind = "uris" =>
    LET local == <<104, COLON>>
        custom == <<101>>
        port(u) == getPortFromUri(u, local)
    IN  checkRedirectUrisForErrors(input, custom, local) =>
          /\ findCustomSchemeUri(input, custom) = NoText => \A i \in DOMAIN input : portIsInRange(port(input[i]))
          /\ \A i \in DOMAIN input : ~strstarts(input[i], custom) =>
               port(findRedirectUriByPort(input, local, port(input[i]))) = port(input[i])
          /\ \E i \in DOMAIN input : portIsInRange(port(input[i])) \/ input[i] = findCustomSchemeUri(input, custom)

\* removeScope takes exactly the named scope out, however often it is there,
\* provided no other scope contains its name and it is not the only one (the
\* loop of strelimIfAfter has no end on the empty string).
ScopeRemoved ==
  kind = "scopes" =>
    LET scopes == input[1]
        rem == input[2]
        text == listToDelimitedString(scopes, <<SPACE>>)
        others == SelectSeq(scopes, LAMBDA s : s /= rem)
    IN  ~Overruns(strremove(text, rem)) /\ (\A s \in Range(others) : ~strSubString(s, rem)) =>
          strtok(removeScope(text, rem), SPACE) = others

\* A duration is the sum of its parts, each a number times its unit and rounded
\* down to seconds; a part without a unit adds nothing.
DurationsAdd ==
  kind = "durations" =>
    LET part(p) == Decimal(p.n) \o (IF p.tenths = 0 THEN <<>> ELSE <<DOT>> \o Decimal(p.tenths))
                   \o (IF p.unit = NUL THEN <<>> ELSE <<p.unit>>)
        text == FlattenSeq([i \in DOMAIN input |-> part(input[i])])
        seconds(p) == IF p.unit = NUL THEN 0
                      ELSE ((10 * p.n + p.tenths) * unitMap(p.unit)) \div 10
        sum[i \in 0..Len(input)] == IF i = 0 THEN 0 ELSE sum[i - 1] + seconds(input[i])
    IN  /\ parseDuration(text) = sum[Len(input)]
        /\ \A now \in {0, 7} : text /= <<>> /\ ~IsDigit(text[Len(text)])
             => parseTime(<<PLUS>> \o text, now) = now + sum[Len(input)]

\* The code and the state that the browser brings back in the redirect are the
\* values the provider put there, percent decoded, when no parameter of the
\* query is empty.  An empty one takes the whole next pair for its value, and
\* nothing when it is the last: strtok skips the separator behind the empty
\* value (uriUtils.c), so that a pair right behind one is not found.
Percent(b) == <<37, HexChar(b \div 16), HexChar(b % 16)>>

RedirectParsed ==
  kind = "uri" =>
    LET base == <<104, 58, 49>>
        query == FlattenSeq([i \in DOMAIN input |->
                   (IF i = 1 THEN <<QUESTION>> ELSE <<AMPERSAND>>) \o input[i].k \o <<EQUALS>>
                   \o FlattenSeq([j \in DOMAIN input[i].v |-> Percent(input[i].v[j])])])
        taken[i \in DOMAIN input] == IF i = 1 THEN FALSE ELSE ~taken[i - 1] /\ input[i - 1].v = <<>>
        got(i) == IF input[i].v = <<>> /\ i < Len(input)
                    THEN input[i + 1].k \o <<EQUALS>> \o input[i + 1].v ELSE input[i].v
        first(k) == LET hits == {i \in DOMAIN input : ~taken[i] /\ input[i].k = k}
                    IN  IF hits = {} THEN NoText ELSE got(Min(hits))
        code == <<99>>
        state == <<115>>
    IN  \E c \in {codeStateFromURI(base \o query, code, state)} :
          /\ c.r = [uri |-> base, code |-> first(code), state |-> first(state)]
          /\ c.errno = "SUCCESS" <=> first(code) /= NoText /\ first(state) /= NoText

\* Two issuer urls are the same issuer exactly when they are equal up to one
\* slash at the end; the order of the arguments does not matter.
IssuersCompared ==
  kind = "issuers" =>
    LET a == input[1]
        b == input[2]
    IN  compIssuerUrls(a, b) <=> (a = b \/ a = Append(b, SLASH) \/ b = Append(a, SLASH))

-----------------------------------------------------------------------------
\* The value of a key in a section: the user's if he has one, null included,
\* else the global one.  A section that is no object hides the other file's.
Setting(global, user, section, key) ==
  LET part(f) == IF f.t = "object" THEN ValueOf(f, section) ELSE NoValue
      has(f) == IF part(f).t = "object" THEN key \in AllKeys(part(f)) ELSE FALSE
  IN  getJSONItemValue(CASE has(user) -> ValueOf(part(user), key)
                         [] ~has(user) /\ part(user).t \in {"none", "object"} /\ has(global)
                              -> ValueOf(part(global), key)
                         [] OTHER -> NoValue)

\* Every program runs with the settings of the user's file, and with those of
\* the global file for what the user's does not mention, `null' as the whole of
\* a file counting as no file; a file that cannot be read, or a word that is
\* not one of the allowed ones, ends it and never makes it run with other
\* settings.  Only a broken global file alone passes as none.
SettingsInForce ==
  kind = "settings" =>
    LET g == FileValue(input[1])
        u == FileValue(input[2])
        at(section, key) == Setting(g, u, section, key)
        unreadable == u.t = "broken" \/ (g.t = "broken" /\ u.t /= "absent")
    IN  \E config \in {readConfig(input[1], input[2])} :
        \E a \in {getAgentConfig(config)}, n \in {getGenConfig(config)},
           d \in {getAddConfig(config)}, c \in {getClientConfig(config)} :
        /\ unreadable => a = Exit /\ n = Exit /\ d = Exit /\ c = Exit
        /\ a /= Exit => /\ a.text = at(agent, group) /\ a.lifetime = strToLong(at(agent, lifetime))
                        /\ a.flag = (at(agent, debug) = <<49>>)
                        /\ at(agent, mode) \in {NoText, <<101>>, <<109>>}
        /\ n /= Exit => /\ n.text = at(gen, cnid) /\ n.flag = (at(gen, debug) = <<49>>)
                        /\ n.prompt = parse_prompt_mode(at(gen, prompt))
                        /\ at(gen, mode) \in {NoText, <<121>>, <<110>>, <<100>>}
        /\ d /= Exit => d.flag = (at(add, debug) = <<49>>) /\ d.prompt = parse_prompt_mode(at(add, prompt))
        /\ c /= Exit => c.text = at(client, cnid) /\ c.lifetime = strToLong(at(client, lifetime))
        /\ g.t \in {"absent", "broken"} /\ u.t = "absent" => Exit \notin {a, n, d, c}

\* What a parameter of a file is for: every pair of a request with an issuer
\* or an account.
For(spec) ==
  LET in(key) == IF key \in AllKeys(spec) THEN {getJSONItemValue(v) : v \in Range(ValueOf(spec, key).c)} ELSE {}
  IN  {<<r, "issuer", i>> : r \in in(request), i \in in(for_issuer)}
      \cup {<<r, "account", i>> : r \in in(request), i \in in(for_account)}

\* A request gets the parameters of the user's file that are for its issuer or
\* its account, and of those in /etc the ones that the user's file does not set
\* for the same issuer, or the same account, and request; a parameter that one
\* file names several times is sent several times.
ParametersSent ==
  kind = "parameters" =>
    LET user == Range(input[1].c)
        etc == Range(input[2].c)
        iss == <<105>>
        name == <<110>>
        req == <<114>>
        mine == {<<req, "issuer", iss>>, <<req, "account", name>>}
        pair(spec) == [parameter |-> getJSONValue(spec, parameter), value |-> getValue(getJSONValue(spec, value))]
        overridden(spec, use) == \E s \in user : use \in For(s) /\ ValueOf(s, parameter) = ValueOf(spec, parameter)
    IN  \E sent \in {Range(addCustomParameters(custom_parameters(input[1], input[2]), iss, name, req))},
           for \in {[s \in user \cup etc |-> For(s) \cap mine]} :
          sent = {pair(s) : s \in {s \in user : for[s] /= {}}
                                  \cup {s \in etc : \E use \in for[s] : ~overridden(s, use)}}

\* Registration asks for the grant of the first flow the user wants, if the
\* provider has it, never for both the password and the code, and for the
\* code as response only together with the grant that redeems it; nothing the
\* provider does not support is asked for, the device grant apart when the
\* user gave the device endpoint.
FlowsRegistered ==
  kind = "flows" =>
    LET flows == input.flows
        grants == Range(getUsableGrantTypes(input.grants, flows, input.dae))
        responses == Range(getUsableResponseTypes(input.responses, flows))
        grant(f) == IF f = "code" THEN "authorization_code" ELSE f
    IN  /\ flows /= <<>> /\ Contains(input.grants, grant(flows[1])) => grant(flows[1]) \in grants
        /\ ~({"password", "authorization_code"} \subseteq grants)
        /\ "code" \in responses /\ Contains(input.grants, "authorization_code") => "authorization_code" \in grants
        /\ grants \ (IF input.dae THEN {"device"} ELSE {}) \subseteq Range(input.grants)
        /\ responses \subseteq Range(input.responses)
        /\ Contains(input.grants, "refresh_token") => "refresh_token" \in grants
        /\ Contains(input.responses, "token") /\ flows /= <<>> /\ flows[1] /= "code" => "token" \in responses

-----------------------------------------------------------------------------
\* What a file can tell: an empty text is none, an empty profile is printed,
\* and a scope for refreshing needs one for the authorization.
Stored(p) == [profile |-> IF p.profile = NoText THEN EmptyProfile ELSE p.profile,
              refresh_scope |-> IF p.auth_scope = <<>> THEN <<>> ELSE p.refresh_scope]
             @@ [k \in TextKeys \cup CredentialKeys \cup {"flow"} |-> Valid(p[k])] @@ p
Unfetched(p) == [k \in Fetched |-> NoText] @@ p

\* A file of an old version, with the old names of two keys.
OldFile(p) ==
  LET j == accountToJSON(p)
  IN  [issuer |-> p.issuer_url, scope |-> p.auth_scope]
      @@ [k \in DOMAIN j \ {"issuer_url", "auth_scope", "refresh_scope"} |-> j[k]]

\* An account that is written to a file and read again is the same, but for
\* what is fetched from the provider; that of an old version too, and without
\* the credentials only they are missing.
FileKeepsAccount ==
  kind = "file" =>
    /\ getAccountFromJSON(accountToJSON(input)) = Unfetched(Stored(input))
    /\ getAccountFromJSON(accountToJSONWithoutCredentials(input))
         = [k \in CredentialKeys |-> NoText] @@ Unfetched(Stored(input))
    /\ getAccountFromJSON(OldFile(input)) = Unfetched([Stored(input) EXCEPT !.refresh_scope = <<>>])

\* What a failure changes of the account that is saved.  Trying leaves the
\* endpoint tried, and oauth when the first one was not found, provided the user
\* gave no endpoint.  A document of the right issuer without scopes leaves its
\* device endpoint, as not set by the user, and its spelling of the issuer; one
\* with an invalid authorization endpoint leaves an issuer url that is freed
\* (parse_oidp.c:91); any other failure leaves nothing else.
FailureLeaves(p, res, q) ==
  LET own == /\ res.t = "object"
             /\ res.d.token_endpoint /= NoText /\ compIssuerUrls(res.d.issuer, ExpectedUrl(p))
      invalid == own /\ res.d.authorization_endpoint /= NoText /\ ~isValidAuthEndpointUrl(res.d.authorization_endpoint)
      scopeless == own /\ ~invalid /\ ~res.d.scopes_supported.ok
      changed == {k \in TextKeys \cup ScopeKeys \cup FlagKeys : q[k] /= p[k]}
  IN  /\ changed \subseteq {k \in {"config_endpoint", "oauth"} : p.config_endpoint = NoText}
                           \cup {k \in {"issuer_url"} : invalid \/ scopeless}
                           \cup {k \in {"device_authorization_endpoint", "daeSetByUser"} : scopeless}
      /\ q.issuer_url = Freed <=> invalid /\ p.mytoken_url = NoText
      /\ q.issuer_url /= Freed => compIssuerUrls(q.issuer_url, p.issuer_url)
      /\ "device_authorization_endpoint" \in changed =>
           q.device_authorization_endpoint = res.d.device_authorization_endpoint /\ q.daeSetByUser = 0

\* The configuration that an account takes is one that its own issuer signs
\* for, with every endpoint it needs, and the scopes the user wants stay; a
\* failure changes of what is saved just what FailureLeaves says, the freed
\* issuer url behind an invalid authorization endpoint included.  oidc-gen,
\* which asks for the scopes before there is an account, gets the ones the
\* account will.  Once taken, saving and loading the account gives the same
\* again, wherever the document was found the first time.
ProviderTrusted ==
  kind = "provider" =>
    LET p == input.p
    IN  \A r \in {obtainIssuerConfig(input.web, p)} :
          /\ p.mytoken_url = NoText /\ p.oauth = 0 =>
               getScopesSupportedFor(input.web, p.issuer_url, p.config_endpoint)
                 = IF r.ok THEN List(r.p.scopes_supported) ELSE NoList
          /\ IF ~r.ok THEN FailureLeaves(p, obtainDocument(input.web, p).res, r.p)
             ELSE /\ compIssuerUrls(ExpectedUrl(r.p), ExpectedUrl(p)) /\ compIssuerUrls(r.p.issuer_url, p.issuer_url)
                  /\ r.p.token_endpoint /= NoText
                  /\ r.p.authorization_endpoint /= NoText => isValidAuthEndpointUrl(r.p.authorization_endpoint)
                  /\ Range(p.auth_scope) \ {OFFLINE_ACCESS} \subseteq Range(r.p.auth_scope)
                  /\ r.p.scopes_supported /= <<>> => (r.p.oauth = 1 \/ Contains(r.p.auth_scope, OPENID))
                  /\ p.config_endpoint /= NoText => r.p.config_endpoint = p.config_endpoint /\ r.p.oauth = p.oauth
                  /\ obtainIssuerConfig(input.web, getAccountFromJSON(accountToJSON(r.p)))
                       = [ok |-> TRUE, p |-> Stored(r.p)]

\* oidc-gen and oidcp get the device code the agent read from the provider, and
\* poll with the code meant for polling; an error is no code.
DeviceCodeKept ==
  kind = "device" =>
    \A c \in {parseDeviceCode(input)} :
      /\ c = NoCode <=> {"error", "error_description"} \cap DOMAIN input /= {}
      /\ c /= NoCode => /\ getDeviceCodeFromJSON(deviceCodeToJSON(c)) = c
                        /\ "polling_code" \in DOMAIN input => c.device_code = input.polling_code
                        /\ {"verification_uri", "consent_uri", "verification_url"} \cap DOMAIN input /= {}
                             => c.uri /= NoText

-----------------------------------------------------------------------------
(* The properties, by what they are about.                                 *)

\* JSON text: what is printed is read back, and what is read can be printed.
JsonFaithful == JsonRoundTrip /\ EscapesDecoded /\ AcceptedIsPrintable


\* Lists, scopes, durations and urls.
StringsFaithful ==
  /\ ListsLikeSets /\ SortedStable
  /\ WordsKept /\ TextsCut /\ ScopeRemoved
  /\ DurationsAdd /\ RedirectParsed /\ UrisServed /\ IssuersCompared

\* Accounts: saved, loaded and filled from their provider's configuration.
AccountsFaithful == FileKeepsAccount /\ ProviderTrusted /\ DeviceCodeKept

\* The programs and their requests do what the configuration files say.
ConfigurationObeyed == SettingsInForce /\ ParametersSent /\ FlowsRegistered
==============================================================================
