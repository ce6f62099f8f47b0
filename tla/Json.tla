-------------------------------- MODULE Json --------------------------------
(***************************************************************************)
(* json.c, the agent's layer over cJSON: looking values up, setting them,  *)
(* merging objects.  Values are those of JsonText.  A C string or NULL is  *)
(* its bytes or the empty sequence: json.c hands out no empty string.      *)
(***************************************************************************)
EXTENDS JsonText

NoText == <<>>
NoValue == [t |-> "none"]  \* a NULL cJSON pointer

PrintedNull == <<40, 110, 117, 108, 108, 41>>  \* "(null)", what "%s" makes of NULL
scope == <<115>>                               \* the key scope
daeSetByUser == <<100>>                        \* the key daeSetByUser

strValid(s) == s \notin {NoText, PrintedNull, Literals.null}

Lower(b) == IF b \in 65..90 THEN b + 32 ELSE b
strcaseequal(a, b) == [i \in DOMAIN a |-> Lower(a[i])] = [i \in DOMAIN b |-> Lower(b[i])]

\* The first child with that key, 0 without one.
get_object_item(v, key, case_sensitive) ==
  LET hits == {i \in 1..Len(v.c) : IF case_sensitive THEN v.c[i].k = key
                                                     ELSE strcaseequal(v.c[i].k, key)}
  IN  IF v.t /= "object" THEN 0 ELSE IF hits = {} THEN 0 ELSE Min(hits)

cJSON_GetObjectItemCaseSensitive(v, key) ==
  LET i == get_object_item(v, key, TRUE) IN IF i = 0 THEN NoValue ELSE v.c[i].v

cJSON_DetachItemFromObjectCaseSensitive(v, key) ==
  LET i == get_object_item(v, key, TRUE)
  IN  IF i = 0 THEN v ELSE [v EXCEPT !.c = RemoveAt(@, i)]

cJSON_AddItemToObject(v, key, item) ==
  IF item.t = "none" THEN v ELSE [v EXCEPT !.c = Append(@, Member(key, item))]

RECURSIVE cJSON_Compare(_, _)

\* Objects are equal when every member of one has, as the first member of its
\* key, an equal one in the other.
cJSON_Compare(a, b) ==
  LET within(x, y) == \A i \in 1..Len(x.c) :
        LET j == get_object_item(y, x.c[i].k, TRUE)
        IN  IF j = 0 THEN FALSE ELSE cJSON_Compare(x.c[i].v, y.c[j].v)
  IN  IF a.t = "none" \/ b.t = "none" \/ a.t /= b.t THEN FALSE
      ELSE CASE a.t \in {"null", "true", "false"} -> TRUE
             [] a.t = "number" -> a.n = b.n
             [] a.t = "string" -> a.s = b.s
             [] a.t = "array"  -> /\ Len(a.c) = Len(b.c)
                                  /\ \A i \in 1..Len(a.c) : cJSON_Compare(a.c[i], b.c[i])
             [] a.t = "object" -> within(a, b) /\ within(b, a)

------------------------------------------------------------------------------

\* The value of a text that parsed, else the one that stands for NULL.
ValueRead(r) == IF r.ok THEN r.v ELSE NoValue

isJSONObject(text) == ValueRead(stringToJson(text)).t = "object"
isJSONArray(text) == ValueRead(stringToJson(text)).t = "array"

getJSONItemValue(v) ==
  CASE v.t \in {"none", "null"} -> NoText
    [] v.t = "string" -> IF strValid(v.s) THEN v.s ELSE NoText
    [] v.t = "true"   -> <<49>>
    [] v.t = "false"  -> <<48>>
    [] OTHER          -> cJSON_PrintUnformatted(v)

getJSONValue(v, key) ==
  IF v.t /= "object" THEN NoText
  ELSE IF get_object_item(v, key, FALSE) = 0 THEN NoText
  ELSE getJSONItemValue(cJSON_GetObjectItemCaseSensitive(v, key))

jsonHasKey(v, key) == strValid(getJSONValue(v, key))

jsonStringHasKey(text, key) == jsonHasKey(ValueRead(stringToJson(text)), key)

getJSONValueFromString(text, key) == getJSONValue(ValueRead(stringToJson(text)), key)

\* All keys or none: the outer value has to be an object.
getJSONValues(v, keys) ==
  IF v.t /= "object" THEN Fail
  ELSE [ok |-> TRUE, values |-> [i \in 1..Len(keys) |-> getJSONValue(v, keys[i])]]

jsonAddStringValue(v, key, s) == cJSON_AddItemToObject(v, key, String(s))

setJSONValueIfNotSet(v, key, s) ==
  IF jsonHasKey(v, key) THEN v ELSE jsonAddStringValue(v, key, s)

setJSONValue(v, key, s) ==
  jsonAddStringValue(cJSON_DetachItemFromObjectCaseSensitive(v, key), key, s)

\* The elements as C strings; NULL (the empty sequence) for one without value.
JSONArrayToList(v) ==
  IF v.t /= "array" THEN Fail
  ELSE [ok |-> TRUE, l |-> [i \in 1..Len(v.c) |-> getJSONItemValue(v.c[i])]]

JSONArrayStringToList(text) == JSONArrayToList(ValueRead(stringToJson(text)))

jsonAddParsed(v, key, text) == cJSON_AddItemToObject(v, key, ValueRead(stringToJson(text)))

stringListToJSONArray(l) == Array([i \in 1..Len(l) |-> String(l[i])])

\* An object of key, type, value triples, and for numbers n; a text that does
\* not parse adds nothing, an unknown type loses the whole object.
generateJSONObject(triples) ==
  LET go[i \in Nat] ==
        IF i = 0 THEN Object(<<>>)
        ELSE IF go[i - 1].t = "none" THEN NoValue
        ELSE CASE triples[i].type = "string" -> jsonAddStringValue(go[i - 1], triples[i].key, triples[i].value)
               [] triples[i].type \in {"object", "array"} -> jsonAddParsed(go[i - 1], triples[i].key, triples[i].value)
               [] triples[i].type = "number" -> cJSON_AddItemToObject(go[i - 1], triples[i].key, Number(triples[i].n))
               [] OTHER -> NoValue
  IN  go[Len(triples)]

------------------------------------------------------------------------------

Empty(v) == \/ v.t = "string" /\ ~strValid(v.s)
            \/ v.t \in {"array", "object"} /\ v.c = <<>>

\* A key that both have, with the value `mine' at position at in json: the
\* other value counts if mine is empty or the key has a rule of its own.
merge_both(json, at, mine, el, same) ==
  CASE same \/ Empty(el.v) -> json
    [] ~same /\ ~Empty(el.v) /\ Empty(mine) -> [json EXCEPT !.c[at].v = el.v]
    [] OTHER ->
         IF el.k = scope THEN json
         ELSE IF el.k = daeSetByUser /\ el.v.t = "number" /\ mine.t = "number"
         THEN IF mine.n = 0 THEN [json EXCEPT !.c[at].v = el.v] ELSE json
         ELSE NoValue

merge_new(json, el) ==
  CASE el.v.t \in {"string", "object", "array"} -> cJSON_AddItemToObject(json, el.k, el.v)
    [] el.v.t = "number" -> IF el.v.n = 0 THEN json ELSE cJSON_AddItemToObject(json, el.k, el.v)
    [] OTHER -> NoValue

\* One member of j2 merged into json, the copy of j1 made so far.
merge_member(json, j1, el) ==
  LET mine == cJSON_GetObjectItemCaseSensitive(json, el.k)
  IN  IF jsonHasKey(j1, el.k)
      THEN merge_both(json, get_object_item(json, el.k, TRUE), mine, el, cJSON_Compare(mine, el.v))
      ELSE merge_new(json, el)

mergeJSONObjects(j1, j2) ==
  LET go[i \in Nat] ==
        IF i = 0 THEN j1
        ELSE IF go[i - 1].t = "none" THEN NoValue
        ELSE merge_member(go[i - 1], j1, j2.c[i])
  IN  go[Len(j2.c)]

merge_values(a, b) == IF a.t = "none" \/ b.t = "none" THEN NoValue ELSE mergeJSONObjects(a, b)
print_json(v) == IF v.t = "none" THEN NoText ELSE jsonToString(v)

mergeJSONObjectStrings(text1, text2) ==
  print_json(merge_values(ValueRead(stringToJson(text1)), ValueRead(stringToJson(text2))))


RECURSIVE merge_patch(_, _)

\* A null member removes, any other replaces what merging it into the old value
\* gives.  The changed member moves to the end.
merge_patch(target, patch) ==
  LET base == IF target.t = "object" THEN target ELSE Object(<<>>)
      step(t, el) ==
        LET without == cJSON_DetachItemFromObjectCaseSensitive(t, el.k)
        IN  IF el.v.t = "null" THEN without
            ELSE cJSON_AddItemToObject(without, el.k,
                   merge_patch(cJSON_GetObjectItemCaseSensitive(t, el.k), el.v))
      go[i \in Nat] == IF i = 0 THEN base ELSE step(go[i - 1], patch.c[i])
  IN  IF patch.t /= "object" THEN patch ELSE go[Len(patch.c)]

jsonMergePatch(target, patch) == merge_patch(target, patch)

appendArrayToArray(array, more) ==
  IF more.t = "none" THEN array ELSE [array EXCEPT !.c = @ \o more.c]

\* From the end, every element equal to one in front of it goes.
uniquifyArray(array) ==
  LET go[i \in Nat, c \in Seq(UNION {{array.c[j]} : j \in DOMAIN array.c})] ==
        IF i <= 1 THEN c
        ELSE go[i - 1, IF \E j \in 1..(i - 1) : cJSON_Compare(c[i], c[j])
                       THEN RemoveAt(c, i) ELSE c]
  IN  IF array.t /= "array" THEN array ELSE Array(go[Len(array.c), array.c])

==============================================================================
