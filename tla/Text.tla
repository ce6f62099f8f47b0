-------------------------------- MODULE Text --------------------------------
(***************************************************************************)
(* The agent's string functions (stringUtils.c, duration.c, uriUtils.c,    *)
(* portUtils.c, issuer_helper.c), on the byte sequences of JsonText.       *)
(* Functions that work in place keep the order in which they look at the   *)
(* positions of the original length.                                       *)
(***************************************************************************)
EXTENDS ListUtils

CONSTANT MIN_PORT, MAX_PORT  \* the ports a redirect uri may name

ASSUME PortAssumption == MIN_PORT \in Nat /\ MAX_PORT \in Nat /\ MIN_PORT <= MAX_PORT

\* The positions at which sub starts in s.
Occurrences(s, sub) ==
  {i \in 1..(Len(s) - Len(sub) + 1) : SubSeq(s, i, i + Len(sub) - 1) = sub}

strstarts(s, pre) == 1 \in Occurrences(s, pre)
strEnds(s, suf) == Len(suf) <= Len(s) /\ (Len(s) - Len(suf) + 1) \in Occurrences(s, suf)
strSubString(s, sub) == Occurrences(s, sub) /= {}
strCountChar(s, c) == Cardinality({i \in DOMAIN s : s[i] = c})

\* Of two neighbours only the first goes: the second moves to a position that
\* was already looked at.
strelim(s, c) ==
  LET go[i \in Nat, t \in Seq(0..255)] ==
        IF i > Len(s) THEN t
        ELSE IF i <= Len(t) /\ Byte(t, i) = c THEN go[i + 1, RemoveAt(t, i)]
        ELSE go[i + 1, t]
  IN  go[1, s]

strelimIfFollowed(s, c, f) ==
  LET go[i \in Nat, t \in Seq(0..255)] ==
        IF i >= Len(s) THEN t
        ELSE IF Byte(t, i) = c /\ Byte(t, i + 1) = f THEN go[i + 1, RemoveAt(t, i)]
        ELSE go[i + 1, t]
  IN  go[1, s]

\* The last position is never looked at.  On the empty string len - 1 is the
\* largest size_t and the loop leaves the buffer: Overruns.
strelimIfAfter(s, c, f) ==
  LET go[i \in Nat, t \in Seq(0..255)] ==
        IF i >= Len(s) THEN t
        ELSE IF Byte(t, i) = c /\ Byte(t, i - 1) = f THEN go[i + 1, RemoveAt(t, i)]
        ELSE go[i + 1, t]
  IN  go[2, s]

Overruns(s) == s = <<>>

\* strremove and strreplace take the occurrences from the left, none inside
\* what they just took.
strreplace(s, old, new) ==
  LET go[i \in Nat] ==
        LET next == {j \in Occurrences(s, old) : j >= i}
        IN  IF next = {} THEN SubSeq(s, i, Len(s))
            ELSE SubSeq(s, i, Min(next) - 1) \o new \o go[Min(next) + Len(old)]
  IN  go[1]

\* Mutant: only the first occurrence goes.
strremove_first(s, sub) ==
  LET at == Occurrences(s, sub)
  IN  IF at = {} THEN s
      ELSE SubSeq(s, 1, Min(at) - 1) \o SubSeq(s, Min(at) + Len(sub), Len(s))

strremove(s, sub) == strreplace(s, sub, <<>>)

\* oidcUtils.c: taking one scope out of a space separated list.
removeScope(scopes, rem) == strelimIfAfter(strremove(scopes, rem), SPACE, SPACE)

escapeCharInStr(s, c) ==
  FlattenSeq([i \in DOMAIN s |-> IF s[i] = c THEN <<BACKSLASH, c>> ELSE <<s[i]>>])

strcutafterfirst(s, c) ==
  LET at == {i \in DOMAIN s : s[i] = c} IN IF at = {} THEN s ELSE SubSeq(s, 1, Min(at) - 1)

strcutafterlast(s, c) ==
  LET at == {i \in DOMAIN s : s[i] = c} IN IF at = {} THEN s ELSE SubSeq(s, 1, Max(at) - 1)

firstNonWhiteSpaceChar(s) ==
  LET at == {i \in DOMAIN s : s[i] \notin ({SPACE} \cup 9..13)}
  IN  IF at = {} THEN NUL ELSE s[Min(at)]

withTrailingSlash(s) == IF s[Len(s)] = SLASH THEN s ELSE Append(s, SLASH)

oidc_pathcat(a, b) == withTrailingSlash(a) \o b

\* The digits in front, after a sign (leading white space is left out); 0 without any.
strToLong(s) ==
  LET t == IF s /= <<>> /\ Byte(s, 1) \in {MINUS, 43} THEN Tail(s) ELSE s
      r == IF t /= <<>> /\ IsDigit(Byte(t, 1)) THEN parse_number(t, 1).v.n ELSE 0
  IN  IF s /= <<>> /\ Byte(s, 1) = MINUS THEN - r ELSE r

------------------------------------------------------------------------------
\* duration.c

DOT == 46
PLUS == 43

unitMap(u) ==
  CASE u = 115 -> 1 [] u = 109 -> 60 [] u = 104 -> 3600 [] u = 100 -> 86400
    [] u = 119 -> 604800 [] u = 121 -> 31536000 [] OTHER -> 0

\* Digits add to the number in front of a unit, or behind its point; a unit
\* adds its seconds, rounded down (exactly: the doubles are left out); what no unit follows is dropped.
parseDuration(s) ==
  LET start == [v |-> 0, n |-> 0, scale |-> 1, post |-> FALSE]
      go[i \in Nat, t \in Nat, a \in [v : Nat, n : Nat, scale : Nat, post : BOOLEAN]] ==
        CASE i > Len(s) -> t
          [] IsDigit(Byte(s, i)) /\ ~a.post ->
               go[i + 1, t, [a EXCEPT !.v = 10 * @ + s[i] - 48]]
          [] IsDigit(Byte(s, i)) /\ a.post ->
               go[i + 1, t, [a EXCEPT !.n = 10 * @ + s[i] - 48, !.scale = 10 * @]]
          [] Byte(s, i) = DOT /\ a.post -> 0
          [] Byte(s, i) = DOT /\ ~a.post -> go[i + 1, t, [a EXCEPT !.post = TRUE]]
          [] OTHER -> go[i + 1, t + ((a.v * a.scale + a.n) * unitMap(s[i])) \div a.scale, start]
  IN  go[1, 0, start]

\* A number is a time, with a + one from now; +duration is from now, anything
\* else a date (the calendar is left out).
parseTime(s, now) ==
  LET digits == \A i \in DOMAIN s : IsDigit(s[i]) \/ (i = 1 /\ s[i] = PLUS)
  IN  IF s = <<>> THEN 0
      ELSE IF digits THEN IF s[1] = PLUS THEN now + strToLong(s) ELSE strToLong(s)
      ELSE IF s[1] = PLUS THEN now + parseDuration(Tail(s))
      ELSE -1

------------------------------------------------------------------------------
\* uriUtils.c, portUtils.c, issuer_helper.c

urldecode(s) ==
  LET go[i \in Nat] ==
        IF i > Len(s) THEN <<>>
        ELSE IF /\ s[i] = 37 /\ HexDigit(Byte(s, i + 1)) /= -1
                /\ HexDigit(Byte(s, i + 2)) /= -1
        THEN <<16 * HexDigit(s[i + 1]) + HexDigit(s[i + 2])>> \o go[i + 3]
        ELSE <<IF s[i] = PLUS THEN SPACE ELSE s[i]>> \o go[i + 1]
  IN  UptoNul(go[1])

QUESTION == 63
EQUALS == 61
AMPERSAND == 38

\* The pairs strtok finds behind the question mark: a key ends at a run of =,
\* its value at a run of &; delimiters in front of either are skipped.
UriParameters(uri) ==
  LET skip(i, d) == LET at == {j \in i..Len(uri) : uri[j] /= d}
                    IN  IF at = {} THEN Len(uri) + 1 ELSE Min(at)
      upto(i, d) == LET at == {j \in i..Len(uri) : uri[j] = d}
                    IN  IF at = {} THEN Len(uri) + 1 ELSE Min(at)
      go[i \in Nat] ==
        LET k == skip(i, EQUALS)
            v == skip(upto(k, EQUALS) + 1, AMPERSAND)
        IN  IF k > Len(uri) \/ v > Len(uri) THEN <<>>
            ELSE <<[k |-> SubSeq(uri, k, upto(k, EQUALS) - 1),
                    v |-> SubSeq(uri, v, upto(v, AMPERSAND) - 1)]>>
                 \o go[upto(v, AMPERSAND) + 1]
      q == {i \in DOMAIN uri : uri[i] = QUESTION}
  IN  IF q = {} THEN <<>> ELSE go[Min(q) + 1]

extractParameterValueFromUri(uri, parameter) ==
  LET ps == UriParameters(uri)
      hits == {i \in DOMAIN ps : ps[i].k = parameter}
  IN  IF hits = {} THEN NoText ELSE urldecode(ps[Min(hits)].v)

getBaseUri(uri) == LET t == strtok(uri, QUESTION) IN IF t = <<>> THEN NoText ELSE urldecode(t[1])

codeStateFromURI(uri, code, state) ==
  LET r == [uri |-> getBaseUri(uri), state |-> extractParameterValueFromUri(uri, state),
            code |-> extractParameterValueFromUri(uri, code)]
  IN  [r |-> r, errno |-> IF r.uri = NoText THEN "ENOBASEURI"
                          ELSE IF r.state = NoText THEN "ENOSTATE"
                          ELSE IF r.code = NoText THEN "ENOCODE" ELSE "SUCCESS"]

\* The number right behind the local host, 0 when there is none.
getPortFromUri(uri, localhost) ==
  IF ~strstarts(uri, localhost) THEN 0
  ELSE strToLong(SubSeq(uri, Len(localhost) + 1, Len(uri)))

findRedirectUriByPort(uris, localhost, port) ==
  LET hits == {i \in DOMAIN uris : getPortFromUri(uris[i], localhost) = port}
  IN  IF hits = {} THEN NoText ELSE uris[Min(hits)]

portIsInRange(port) == port \in MIN_PORT..MAX_PORT

\* All uris are looked at, one bad one refuses the list.
checkRedirectUrisForErrors(uris, custom, localhost) ==
  /\ uris /= <<>>
  /\ \A i \in DOMAIN uris :
       strstarts(uris[i], custom) \/ portIsInRange(getPortFromUri(uris[i], localhost))

findCustomSchemeUri(uris, custom) ==
  LET hits == {i \in DOMAIN uris : strstarts(uris[i], custom)}
  IN  IF hits = {} THEN NoText ELSE uris[Min(hits)]

\* Equal, or equal but for one slash at the end of the longer one.
compIssuerUrls(a, b) ==
  LET short == IF Len(b) = Len(a) - 1 THEN b ELSE a
      long == IF Len(b) = Len(a) - 1 THEN a ELSE b
  IN  IF Len(a) = Len(b) THEN a = b
      ELSE /\ Len(short) = Len(long) - 1 /\ long[Len(long)] = SLASH
           /\ SubSeq(long, 1, Len(short)) = short
==============================================================================
