------------------------------ MODULE JsonText ------------------------------
(***************************************************************************)
(* The text side of lib/cJSON: parsing, printing and minifying, as json.c  *)
(* uses them.  A text is a sequence of byte values without its terminating *)
(* NUL; a JSON value is a record with its type t and, by type, its number  *)
(* n, its bytes s, or its children c (of an array: values; of an object:   *)
(* members with key k and value v).  Numbers are integers: fractions,      *)
(* exponents and the 63 byte limit of a number are left out.               *)
(***************************************************************************)
EXTENDS Integers, Sequences, FiniteSetsExt, SequencesExt, TLC

CONSTANT CJSON_NESTING_LIMIT \* containers inside each other (1000 in cJSON.h)

ASSUME NestingAssumption == CJSON_NESTING_LIMIT \in Nat \ {0}

NUL == 0
TAB == 9
LF == 10
SPACE == 32
QUOTE == 34
STAR == 42
COMMA == 44
MINUS == 45
SLASH == 47
COLON == 58
LBRACKET == 91
BACKSLASH == 92
RBRACKET == 93
LBRACE == 123
RBRACE == 125

Null == [t |-> "null"]
Bool(b) == [t |-> IF b THEN "true" ELSE "false"]
Number(n) == [t |-> "number", n |-> n]
String(s) == [t |-> "string", s |-> s]
Array(c) == [t |-> "array", c |-> c]
Object(c) == [t |-> "object", c |-> c]
Member(k, v) == [k |-> k, v |-> v]

Literals == [null |-> <<110, 117, 108, 108>>,
             false |-> <<102, 97, 108, 115, 101>>,
             true |-> <<116, 114, 117, 101>>]

IsDigit(b) == b \in 48..57

Byte(text, at) == IF at <= Len(text) THEN text[at] ELSE NUL
Reads(text, at, word) ==
  at + Len(word) - 1 <= Len(text) /\ SubSeq(text, at, at + Len(word) - 1) = word

\* Everything up to the space counts as white space, the NUL too; the NUL at
\* the end of the text is where the walk stops.
buffer_skip_whitespace(text, at) ==
  LET stops == {i \in at..Len(text) : text[i] > SPACE}
  IN  IF stops = {} THEN Len(text) + 1
      ELSE Min(stops)

Fail == [ok |-> FALSE]
Parsed(v, at) == [ok |-> TRUE, v |-> v, at |-> at]

\* strtod on the bytes of the number: a sign without a digit converts nothing.
parse_number(text, at) ==
  LET first == IF text[at] = MINUS THEN at + 1 ELSE at
      ends == {i \in first..(Len(text) + 1) : ~IsDigit(Byte(text, i))}
      end == Min(ends)
      value[i \in (first - 1)..(end - 1)] ==
        IF i < first THEN 0 ELSE 10 * value[i - 1] + (text[i] - 48)
  IN  IF end = first THEN Fail
      ELSE Parsed(Number(IF first = at THEN value[end - 1] ELSE - value[end - 1]), end)

HexDigit(b) ==
  CASE b \in 48..57  -> b - 48
    [] b \in 65..70  -> b - 55
    [] b \in 97..102 -> b - 87
    [] OTHER         -> -1

\* Bytes that are no hexadecimal digits give the code 0, not an error.
parse_hex4(text, at) ==
  LET h(i) == HexDigit(Byte(text, at + i))
  IN  IF \E i \in 0..3 : h(i) = -1 THEN 0
      ELSE 4096 * h(0) + 256 * h(1) + 16 * h(2) + h(3)

\* The bytes of a code point; a continuation byte holds its low six bits.
encode_utf8(cp) ==
  LET tail[n \in 0..3, rest \in Nat] ==
        IF n = 0 THEN <<>> ELSE tail[n - 1, rest \div 64] \o <<128 + (rest % 64)>>
  IN  CASE cp < 128   -> <<cp>>
        [] cp \in 128..2047 -> <<192 + cp \div 64>> \o tail[1, cp]
        [] cp \in 2048..65535 -> <<224 + cp \div 4096>> \o tail[2, cp]
        [] OTHER      -> <<240 + cp \div 262144>> \o tail[3, cp]

\* Mutant: the second half of a surrogate pair is not asked for.
utf16_literal_to_utf8_single(text, at, end) ==
  IF end - at < 6 THEN [len |-> 0, bytes |-> <<>>]
  ELSE [len |-> 6, bytes |-> encode_utf8(parse_hex4(text, at + 2))]

\* One unit, or a pair; len 0 means failure.
utf16_units(first, second, pair) ==
  CASE first \in 56320..57343 -> [len |-> 0, bytes |-> <<>>]
    [] first \in 55296..56319 ->
         IF pair /\ second \in 56320..57343
         THEN [len |-> 12, bytes |-> encode_utf8(65536 + 1024 * (first % 1024) + (second % 1024))]
         ELSE [len |-> 0, bytes |-> <<>>]
    [] OTHER -> [len |-> 6, bytes |-> encode_utf8(first)]

\* `end' is the index of the closing quote.
utf16_literal_to_utf8(text, at, end) ==
  IF end - at < 6 THEN [len |-> 0, bytes |-> <<>>]
  ELSE utf16_units(parse_hex4(text, at + 2), parse_hex4(text, at + 8),
             end - (at + 6) >= 6 /\ Byte(text, at + 6) = BACKSLASH /\ Byte(text, at + 7) = 117)

Escapes == (98 :> 8) @@ (102 :> 12) @@ (110 :> LF) @@ (114 :> 13) @@ (116 :> TAB)
           @@ (QUOTE :> QUOTE) @@ (BACKSLASH :> BACKSLASH) @@ (SLASH :> SLASH)

\* The closing quote of a string that starts after the quote at at - 1: the
\* byte behind a backslash is passed over.  0 when there is none.
string_end(text, at) ==
  LET go[i \in Nat] ==
        IF i > Len(text) THEN 0
        ELSE IF text[i] = QUOTE THEN i
        ELSE IF text[i] = BACKSLASH THEN go[i + 2]
        ELSE go[i + 1]
  IN  go[at]

\* A NUL byte made by an escape ends the C string.
UptoNul(s) ==
  LET nuls == {i \in 1..Len(s) : s[i] = NUL}
  IN  IF nuls = {} THEN s
      ELSE SubSeq(s, 1, Min(nuls) - 1)

\* The bytes from at up to the closing quote at end, 0 if there is none.
read_string(text, at, end) ==
  LET go[i \in Nat, out \in Seq(0..255)] ==
        IF i >= end THEN Parsed(String(UptoNul(out)), end + 1)
        ELSE IF text[i] /= BACKSLASH THEN go[i + 1, Append(out, text[i])]
        ELSE IF text[i + 1] \in DOMAIN Escapes
             THEN go[i + 2, Append(out, Escapes[text[i + 1]])]
        ELSE IF text[i + 1] /= 117 THEN Fail
        ELSE LET u == utf16_literal_to_utf8(text, i, end)
             IN  IF u.len = 0 THEN Fail ELSE go[i + u.len, out \o u.bytes]
  IN  IF end = 0 THEN Fail ELSE go[at, <<>>]

parse_string(text, at) ==
  IF Byte(text, at) /= QUOTE THEN Fail ELSE read_string(text, at + 1, string_end(text, at + 1))

RECURSIVE parse_value(_, _, _), parse_elements(_, _, _, _), parse_members(_, _, _, _)

next_element(text, next, depth, seen) ==
  CASE Byte(text, next) = COMMA    -> parse_elements(text, next, depth, seen)
    [] Byte(text, next) = RBRACKET -> Parsed(Array(seen), next + 1)
    [] OTHER                       -> Fail

add_element(text, depth, seen, el) ==
  IF ~el.ok THEN Fail
  ELSE next_element(text, buffer_skip_whitespace(text, el.at), depth, Append(seen, el.v))

\* The elements of an array; `at' is the bracket or the comma in front of one.
parse_elements(text, at, depth, seen) ==
  add_element(text, depth, seen, parse_value(text, buffer_skip_whitespace(text, at + 1), depth))

next_member(text, next, depth, seen) ==
  CASE Byte(text, next) = COMMA  -> parse_members(text, next, depth, seen)
    [] Byte(text, next) = RBRACE -> Parsed(Object(seen), next + 1)
    [] OTHER                     -> Fail

add_member(text, depth, seen, key, el) ==
  IF ~el.ok THEN Fail
  ELSE next_member(text, buffer_skip_whitespace(text, el.at), depth, Append(seen, Member(key, el.v)))

parse_member(text, colon, depth, seen, key) ==
  IF Byte(text, colon) /= COLON THEN Fail
  ELSE add_member(text, depth, seen, key, parse_value(text, buffer_skip_whitespace(text, colon + 1), depth))

parse_key(text, depth, seen, key) ==
  IF ~key.ok THEN Fail ELSE parse_member(text, buffer_skip_whitespace(text, key.at), depth, seen, key.v.s)

parse_members(text, at, depth, seen) ==
  parse_key(text, depth, seen, parse_string(text, buffer_skip_whitespace(text, at + 1)))

parse_array(text, at, depth) ==
  LET first == buffer_skip_whitespace(text, at + 1)
  IN  IF depth >= CJSON_NESTING_LIMIT THEN Fail
      ELSE IF Byte(text, first) = RBRACKET THEN Parsed(Array(<<>>), first + 1)
      ELSE parse_elements(text, at, depth + 1, <<>>)

parse_object(text, at, depth) ==
  LET first == buffer_skip_whitespace(text, at + 1)
  IN  IF depth >= CJSON_NESTING_LIMIT THEN Fail
      ELSE IF Byte(text, first) = RBRACE THEN Parsed(Object(<<>>), first + 1)
      ELSE parse_members(text, at, depth + 1, <<>>)

parse_value(text, at, depth) ==
  CASE Reads(text, at, Literals.null)  -> Parsed(Null, at + 4)
    [] Reads(text, at, Literals.false) -> Parsed(Bool(FALSE), at + 5)
    [] Reads(text, at, Literals.true)  -> Parsed(Bool(TRUE), at + 4)
    [] Byte(text, at) = QUOTE          -> parse_string(text, at)
    [] Byte(text, at) = MINUS \/ IsDigit(Byte(text, at)) -> parse_number(text, at)
    [] Byte(text, at) = LBRACKET       -> parse_array(text, at, depth)
    [] Byte(text, at) = LBRACE         -> parse_object(text, at, depth)
    [] OTHER                           -> Fail

\* Text behind the value is not looked at (require_null_terminated is 0).
cJSON_Parse(text) == parse_value(text, buffer_skip_whitespace(text, 1), 0)

------------------------------------------------------------------------------

Decimal(n) ==
  LET digits[m \in Nat] ==
        IF m < 10 THEN <<48 + m>> ELSE Append(digits[m \div 10], 48 + (m % 10))
  IN  IF n < 0 THEN <<MINUS>> \o digits[- n] ELSE digits[n]

HexChar(h) == IF h < 10 THEN 48 + h ELSE 87 + h

print_char(b) ==
  CASE b = QUOTE     -> <<BACKSLASH, QUOTE>>
    [] b = BACKSLASH -> <<BACKSLASH, BACKSLASH>>
    [] b = 8         -> <<BACKSLASH, 98>>
    [] b = 12        -> <<BACKSLASH, 102>>
    [] b = LF        -> <<BACKSLASH, 110>>
    [] b = 13        -> <<BACKSLASH, 114>>
    [] b = TAB       -> <<BACKSLASH, 116>>
    [] b \in (1..31) \ {8, 9, 10, 12, 13} ->
         <<BACKSLASH, 117, 48, 48, HexChar(b \div 16), HexChar(b % 16)>>
    [] OTHER         -> <<b>>

print_string_ptr(s) ==
  <<QUOTE>> \o FlattenSeq([i \in 1..Len(s) |-> print_char(s[i])]) \o <<QUOTE>>

Tabs(n) == [i \in 1..n |-> TAB]

RECURSIVE print_value(_, _, _)

print_array(v, depth, format) ==
  LET one(i) == print_value(v.c[i], depth + 1, format)
                \o (IF i = Len(v.c) THEN <<>>
                    ELSE IF format THEN <<COMMA, SPACE>> ELSE <<COMMA>>)
  IN  <<LBRACKET>> \o FlattenSeq([i \in 1..Len(v.c) |-> one(i)]) \o <<RBRACKET>>

print_object(v, depth, format) ==
  LET one(i) == (IF format THEN Tabs(depth + 1) ELSE <<>>)
                \o print_string_ptr(v.c[i].k)
                \o (IF format THEN <<COLON, TAB>> ELSE <<COLON>>)
                \o print_value(v.c[i].v, depth + 1, format)
                \o (IF i = Len(v.c) THEN <<>> ELSE <<COMMA>>)
                \o (IF format THEN <<LF>> ELSE <<>>)
  IN  (IF format THEN <<LBRACE, LF>> ELSE <<LBRACE>>)
      \o FlattenSeq([i \in 1..Len(v.c) |-> one(i)])
      \o (IF format THEN Tabs(depth) ELSE <<>>) \o <<RBRACE>>

print_value(v, depth, format) ==
  CASE v.t \in {"null", "false", "true"} -> Literals[v.t]
    [] v.t = "number" -> Decimal(v.n)
    [] v.t = "string" -> print_string_ptr(v.s)
    [] v.t = "array"  -> print_array(v, depth, format)
    [] v.t = "object" -> print_object(v, depth, format)

cJSON_Print(v) == print_value(v, 0, TRUE)
cJSON_PrintUnformatted(v) == print_value(v, 0, FALSE)

------------------------------------------------------------------------------

skip_oneline_comment(text, at) ==
  LET ends == {i \in (at + 2)..Len(text) : text[i] = LF}
  IN  IF ends = {} THEN Len(text) + 1
      ELSE Min(ends) + 1

skip_multiline_comment(text, at) ==
  LET ends == {i \in (at + 2)..Len(text) : text[i] = STAR /\ Byte(text, i + 1) = SLASH}
  IN  IF ends = {} THEN Len(text) + 1
      ELSE Min(ends) + 2

\* Where a string that starts at at ends for cJSON_Minify: it knows the escaped
\* quote, but not the escaped backslash in front of a quote.
minify_string(text, at) ==
  LET go[i \in Nat] ==
        IF i > Len(text) THEN Len(text) + 1
        ELSE IF text[i] = QUOTE THEN i + 1
        ELSE IF text[i] = BACKSLASH /\ Byte(text, i + 1) = QUOTE THEN go[i + 2]
        ELSE go[i + 1]
  IN  go[at + 1]

cJSON_Minify(text) ==
  LET go[i \in Nat, out \in Seq(0..255)] ==
        CASE i > Len(text) -> out
          [] Byte(text, i) \in {SPACE, TAB, 13, LF} -> go[i + 1, out]
          [] Byte(text, i) = SLASH /\ Byte(text, i + 1) = SLASH ->
               go[skip_oneline_comment(text, i), out]
          [] Byte(text, i) = SLASH /\ Byte(text, i + 1) = STAR ->
               go[skip_multiline_comment(text, i), out]
          [] Byte(text, i) = SLASH /\ Byte(text, i + 1) \notin {SLASH, STAR} ->
               go[i + 1, out]
          [] Byte(text, i) = QUOTE ->
               LET end == minify_string(text, i)
               IN  go[end, out \o SubSeq(text, i, end - 1)]
          [] OTHER -> go[i + 1, Append(out, text[i])]
  IN  go[1, <<>>]

\* json.c: a text is minified before it is parsed.
stringToJson(text) == cJSON_Parse(cJSON_Minify(text))
jsonToString(v) == cJSON_Print(v)
jsonToStringUnformatted(v) == cJSON_Minify(cJSON_Print(v))
==============================================================================
