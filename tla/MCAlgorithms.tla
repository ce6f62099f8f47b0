---------------------------- MODULE MCAlgorithms ----------------------------
\* Inputs for the algorithms: short, but over the bytes each function tells apart.
EXTENDS Algorithms

Upto(S, n) == UNION {[1..k -> S] : k \in 0..n}

A == <<97>>
B == <<98>>
Users0 == <<"a">> :> 1 @@ <<"a", "-", "1">> :> 3
Groups0 == <<"a">> :> 2

IdTexts == Upto({"1", "3", "a", "-", "*", " ", ":"}, 4)

\* Strings with every byte that printing or minifying treats in its own way.
Texts == {<<>>, A, <<QUOTE>>, <<BACKSLASH>>, <<BACKSLASH, SPACE>>, <<LF, 97>>, <<SPACE>>,
          <<1, 31>>, <<SLASH, SLASH, 97>>, <<SLASH, STAR>>, <<195, 164>>}
Leaves == {Null, Bool(TRUE), Bool(FALSE), Number(0), Number(-12), Number(345)}
          \cup {String(s) : s \in Texts}
Flat == {Array(<<>>), Object(<<>>)} \cup {Array(<<v>>) : v \in Leaves}
        \cup {Object(<<Member(k, v)>>) : k \in {A, <<QUOTE, 98>>}, v \in Leaves}
Nested == Leaves \cup Flat
          \cup {Array(<<v, w>>) : v \in Flat, w \in Leaves}
          \cup {Object(<<Member(A, v), Member(<<92, 98>>, w)>>) : v \in Flat, w \in Leaves}

Units == {1, 34, 127, 128, 2047, 2048, 55295, 55296, 55297, 56319, 56320, 56321, 57343,
          57344, 65535}

JsonTexts == Upto({LBRACKET, RBRACKET, LBRACE, RBRACE, QUOTE, BACKSLASH, COLON, COMMA, SPACE, 49}, 4)
             \cup Upto({LBRACKET, RBRACKET}, 2 * CJSON_NESTING_LIMIT + 2)

Plain == {Null, Bool(TRUE), Number(0), Number(1), String(<<>>), String(A), String(B), Array(<<>>)}
Keyed(V) == {Object(<<>>)} \cup {Object(<<Member(k, v)>>) : k \in {A, scope, daeSetByUser}, v \in V}
Two(V) == {Object(<<Member(k[1], v), Member(k[2], w)>>) :
            k \in {<<A, scope>>, <<daeSetByUser, A>>}, v \in V, w \in V}
Objects == Keyed(Plain \cup Keyed({Null, Number(1)})) \cup Two({Null, String(A), Number(1)})

Words == {A, B, <<97, 98>>}
Scopes == {A, <<97, 98>>, <<98, 99>>}

\* Only the last part of a duration may lack its unit.
Parts0 == [n : {0, 7, 12}, tenths : {0, 5}, unit : {NUL, 115, 109, 119, 120}]

Params == [k : {<<99>>, <<115>>, A}, v : {<<>>, A, <<AMPERSAND, EQUALS>>, <<37>>, <<43>>}]

\* Configuration files: every section with a setting of each sort, or none.
Env0 == <<65>> :> B
Lines0 == <<SLASH, 97>> :> A
Settings == {<<>>} \cup {<<Member(debug, v)>> : v \in {Bool(TRUE), Bool(FALSE), Null}}
            \cup {<<Member(mode, String(w))>> : w \in {<<109>>, <<110>>, <<122>>}}
            \cup {<<Member(cnid, String(A)), Member(prompt, String(<<103>>)), Member(lifetime, Number(n))>> : n \in {0, 5}}
All4(o) == Object(<<Member(agent, o), Member(gen, o), Member(add, o), Member(client, o)>>)
Files == {NoText, <<LBRACKET>>, Literals.null, <<SPACE>> \o Literals.null}
         \cup {jsonToString(v) : v \in {Array(<<>>), Object(<<>>), Object(<<Member(agent, Object(<<>>)), Member(add, Null)>>)}
                                       \cup {All4(Object(s)) : s \in Settings}}

Spec1(p, v, more) == Object(<<Member(parameter, String(p)), Member(value, String(v)),
                              Member(request, Array(<<String(<<114>>)>>))>> \o more)
ForIssuer == Member(for_issuer, Array(<<String(A), String(<<105>>)>>))
ForAccount == Member(for_account, Array(<<String(<<110>>)>>))
Uses == {<<>>, <<ForIssuer>>, <<ForAccount>>, <<ForIssuer, ForAccount>>}
Specs == {Spec1(p, v, u) : p \in {A, B}, v \in {A, <<36, 65>>}, u \in Uses}
         \cup {Spec1(A, <<SLASH, 97>>, <<ForAccount>>), Object(<<ForAccount>>)}
ParameterFiles == {Array(l) : l \in Upto(Specs, 1)}
                  \cup {Array(<<s, t>>) : s \in {Spec1(A, A, u) : u \in Uses}, t \in {Spec1(A, <<36, 65>>, u) : u \in Uses}}

Grants == {"refresh_token", "authorization_code", "password", "device"}
Some(S) == {SetToSeq(T) : T \in SUBSET S}

\* Accounts, and what their providers may answer.
I == <<105>>
Mytoken == <<109>>
Custom == <<120>>
Accounts == {[NewAccount EXCEPT !.shortname = A, !.client_id = B, !.issuer_url = u, !.config_endpoint = c,
                !.mytoken_url = m, !.oauth = o, !.auth_scope = w] :
             u \in {I, Append(I, SLASH), GOOGLE_ISSUER_URL, EDUTEAMS_ISSUER_URL}, c \in {<<>>, Custom},
             m \in {<<>>, Mytoken}, o \in {0, 1}, w \in {<<>>, <<A>>, <<A, OFFLINE_ACCESS, OPENID>>}}
SavedAccounts == {[a EXCEPT !.profile = t, !.flow = f, !.username = t, !.redirect_uris = l, !.refresh_scope = s,
                            !.device_authorization_endpoint = f, !.daeSetByUser = d, !.token_endpoint = t] :
                  a \in {b \in Accounts : b.issuer_url = I}, t \in {<<>>, B}, f \in {<<>>, Literals.null, A},
                  l \in {NoList, List(<<>>), List(<<A>>)}, s \in {<<>>, <<A>>}, d \in {0, 1}}

Doc(iss) == [k \in EndpointKeys \cup {"device_authorization_endpoint", "grant_types_supported", "mytoken_grant_types",
                                       "response_types_supported"} |-> NoText]
            @@ [issuer |-> iss, scopes_supported |-> List(<<A>>), providers_supported |-> NoList,
                code_challenge_methods |-> {}]
Full(iss) == [token_endpoint |-> A] @@ Doc(iss)
Docs(iss) == {Doc(iss), Full(iss), [authorization_endpoint |-> Http \o A] @@ Full(iss),
              [authorization_endpoint |-> Http] @@ Full(iss), [scopes_supported |-> NoList] @@ Full(iss),
              [scopes_supported |-> NoList, device_authorization_endpoint |-> A] @@ Full(iss),
              [device_authorization_endpoint |-> A, grant_types_supported |-> A] @@ Full(iss),
              [code_challenge_methods |-> {"plain"}] @@ Full(iss),
              [providers_supported |-> List(<<A, Append(I, SLASH), I>>), mytoken_grant_types |-> A,
               code_challenge_methods |-> {"S256", "plain"}] @@ Full(iss)}
Issuers(p) == {ExpectedUrl(p), Append(ExpectedUrl(p), SLASH), A}
Answers(p) == {NotFound, Down, NoJson} \cup {Document(d) : d \in UNION {Docs(i) : i \in Issuers(p)}}
Webs(p) == LET at(suffix) == oidc_pathcat(ExpectedUrl(p), suffix)
           IN  {at(CONF_ENDPOINT_SUFFIX) :> a @@ at(OAUTH_CONF_ENDPOINT_SUFFIX) :> b @@ Custom :> a :
                  a \in Answers(p), b \in {NotFound, Document(Full(ExpectedUrl(p)))}}

DeviceTexts == {"device_code", "polling_code", "verification_uri", "consent_uri", "verification_url", "error"}
DeviceAnswers == {[k \in ks |-> <<Len(ToString(k))>>] @@ n :
                  ks \in SUBSET DeviceTexts, n \in {<<>>, [interval |-> 0], [expires_in |-> 9, interval |-> 3]}}

MCInputs == [file |-> SavedAccounts,
             provider |-> UNION {[p : {p}, web : Webs(p)] : p \in Accounts},
             device |-> DeviceAnswers,
             uris |-> Upto({<<104, COLON>> \o Decimal(n) \o t : n \in {80, 1023, 1024, 49151, 49152}, t \in {<<>>, <<SLASH>>}}
                           \cup {<<101>>, <<101, 97>>, <<104, 49>>}, 2),
             settings |-> Files \X Files,
             parameters |-> ParameterFiles \X ParameterFiles,
             flows |-> [flows : Upto({"code", "password", "device"}, 4), grants : Some(Grants),
                        responses : Some({"code", "token", "id_token"}), dae : BOOLEAN],
             ids |-> IdTexts,
             value |-> Nested,
             escapes |-> Units \X Units,
             text |-> JsonTexts,
             objects |-> Objects \X Objects,
             lists |-> Upto(Words, 3) \X Upto(Words, 2),
             keys |-> Upto(0..2, 6),
             words |-> Upto({97, 98, SPACE, QUOTE - 1}, 5),
             scopes |-> Upto(Scopes, 4) \X Scopes,
             durations |-> {d \in Upto(Parts0, 3) : \A i \in 1..(Len(d) - 1) : d[i].unit /= NUL},
             uri |-> Upto(Params, 3),
             issuers |-> Upto({97, SLASH}, 4) \X Upto({97, SLASH}, 4)]
==============================================================================
