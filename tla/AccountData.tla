---------------------------- MODULE AccountData -----------------------------
(***************************************************************************)
(* What an account holds (account.c, setandget.c): how it is saved and     *)
(* read again, how it is filled from the provider's configuration document *)
(* (openid_config.c, parse_oidp.c) and the device code (device_code.c).    *)
(* Texts are byte sequences, NULL and "" the empty one: no function here   *)
(* tells them apart.  A scope string is the list of its scopes.  A JSON    *)
(* object is a function from its keys; its text is the subject of          *)
(* JsonText, a JSON list that is missing is NoList.                        *)
(***************************************************************************)
EXTENDS Text

NoList == [ok |-> FALSE]
List(l) == [ok |-> TRUE, l |-> l]

OPENID == <<111>>
OFFLINE_ACCESS == <<111, 102>>
GOOGLE_ISSUER_URL == <<103>>
EDUTEAMS_ISSUER_URL == <<101>>
DEFAULT_GRANTTYPES == <<100>>
EmptyProfile == <<LBRACE, RBRACE>>
HostName == <<104>>

\* One text stands for client_id, client_secret, cert_path and audience, which
\* are treated alike.
TextKeys == {"shortname", "client_name", "issuer_url", "mytoken_url", "config_endpoint",
          "device_authorization_endpoint", "client_id", "refresh_token"}
ScopeKeys == {"auth_scope", "refresh_scope"}
FlagKeys == {"daeSetByUser", "oauth", "pub"}
CredentialKeys == {"username", "password"}

\* What a provider's document fills and no file keeps.
EndpointKeys == {"token_endpoint", "mytoken_endpoint", "authorization_endpoint", "registration_endpoint",
              "revocation_endpoint"}
Fetched == EndpointKeys \cup {"scopes_supported", "grant_types_supported", "response_types_supported",
                           "code_challenge_method"}

NewAccount ==
    [k \in TextKeys \cup ScopeKeys \cup CredentialKeys \cup Fetched \cup {"profile", "flow"} |-> NoText]
    @@ [k \in FlagKeys |-> 0] @@ [redirect_uris |-> NoList]

-----------------------------------------------------------------------------
(* Scopes.                                                                 *)

defineUsableScopeList(p) ==
    LET wanted == IF p.oauth = 0 THEN list_addStringIfNotFound(p.auth_scope, OPENID) ELSE p.auth_scope
        all == list_addStringIfNotFound(wanted, OFFLINE_ACCESS)
    IN  IF compIssuerUrls(p.issuer_url, GOOGLE_ISSUER_URL) THEN list_removeIfFound(all, OFFLINE_ACCESS) ELSE all

account_setScopesSupported(p, scopes) ==
    [p EXCEPT !.scopes_supported = scopes, !.auth_scope = defineUsableScopeList(p)]

account_setName(p, shortname, client_identifier) ==
    [p EXCEPT !.shortname = shortname,
              !.client_name = IF strValid(shortname)
                              THEN shortname \o <<MINUS>>
                                   \o (IF strValid(client_identifier) THEN client_identifier ELSE HostName)
                              ELSE NoText]

-----------------------------------------------------------------------------
(* The file of an account.                                                 *)

Valid(s) == IF strValid(s) THEN s ELSE NoText

\* Mutant: which sort of provider the account is for is not saved.
accountToJSONWith_noflag(p, useCredentials) ==
    [k \in TextKeys |-> Valid(p[k])] @@ [k \in ScopeKeys |-> p[k]] @@ [k \in FlagKeys \ {"oauth"} |-> p[k]]
    @@ [profile |-> IF p.profile = NoText THEN EmptyProfile ELSE p.profile]
    @@ [k \in (IF p.redirect_uris.ok THEN {"redirect_uris"} ELSE {}) |-> p.redirect_uris.l]
    @@ [k \in (IF strValid(p.flow) THEN {"flow"} ELSE {}) |-> p.flow]
    @@ [k \in (IF useCredentials THEN CredentialKeys ELSE {}) |-> Valid(p[k])]

\* A list that is NULL and a flow that is not set have no member.
accountToJSONWith(p, useCredentials) ==
    [k \in TextKeys |-> Valid(p[k])] @@ [k \in ScopeKeys |-> p[k]] @@ [k \in FlagKeys |-> p[k]]
    @@ [profile |-> IF p.profile = NoText THEN EmptyProfile ELSE p.profile]
    @@ [k \in (IF p.redirect_uris.ok THEN {"redirect_uris"} ELSE {}) |-> p.redirect_uris.l]
    @@ [k \in (IF strValid(p.flow) THEN {"flow"} ELSE {}) |-> p.flow]
    @@ [k \in (IF useCredentials THEN CredentialKeys ELSE {}) |-> Valid(p[k])]

accountToJSON(p) == accountToJSONWith(p, TRUE)
accountToJSONWithoutCredentials(p) == accountToJSONWith(p, FALSE)

ValueAt(j, k) == IF k \in DOMAIN j THEN j[k] ELSE NoText
FlagAt(j, k) == IF k \in DOMAIN j THEN j[k] ELSE 0

\* The first key that has a value.
OneOf(j, keys) ==
    LET at == {i \in DOMAIN keys : ValueAt(j, keys[i]) /= NoText}
    IN  IF at = {} THEN NoText ELSE j[keys[Min(at)]]

\* Files of old versions have issuer and scope for issuer_url and auth_scope.
\* The name that account_setName makes for the client is overwritten by the
\* file's, or by none.
getAccountFromJSON(j) ==
    LET named == account_setName(NewAccount, ValueAt(j, "shortname"), NoText)
        scopes == ValueAt(j, "auth_scope")
        text(k) == Valid(ValueAt(j, k))
    IN  [issuer_url |-> OneOf(j, <<"issuer_url", "issuer">>)]
        @@ [k \in TextKeys \cup CredentialKeys \cup {"profile", "flow"} |-> text(k)]
        @@ [k \in FlagKeys |-> FlagAt(j, k)]
        @@ [redirect_uris |-> IF "redirect_uris" \in DOMAIN j THEN List(j.redirect_uris) ELSE NoList,
            auth_scope |-> IF scopes = <<>> THEN ValueAt(j, "scope") ELSE scopes,
            refresh_scope |-> IF scopes = <<>> THEN <<>> ELSE ValueAt(j, "refresh_scope")]
        @@ named

-----------------------------------------------------------------------------
(* The provider's configuration.  A document maps its keys to texts or     *)
(* lists; web maps an endpoint to the document there, NotFound or Down.    *)

NotFound == [t |-> "404"]
Down == [t |-> "down"]
NoJson == [t |-> "text"]
Document(d) == [t |-> "object", d |-> d]

Get(web, url) == IF url \in DOMAIN web THEN web[url] ELSE NotFound

Http == <<104, 116, 116, 112, COLON, SLASH, SLASH>>
Https == <<104, 116, 116, 112, 115, COLON, SLASH, SLASH>>
Unprintable == (0..32) \cup {127, 60, 62, QUOTE, 96, 124}

isValidAuthEndpointUrl(url) ==
    /\ \E scheme \in {Http, Https} :
         Len(url) > Len(scheme) /\ strcaseequal(SubSeq(url, 1, Len(scheme)), scheme)
    /\ \A i \in DOMAIN url : url[i] \notin Unprintable

Failed(p) == [ok |-> FALSE, p |-> p]

\* The strings that an invalid authorization endpoint frees after the issuer
\* got them.
Freed == <<0>>
Dangling(d, p) ==
    [k \in {"token_endpoint"} \cup (IF d.mytoken_endpoint = NoText THEN {} ELSE {"mytoken_endpoint"})
           \cup (IF p.mytoken_url = NoText THEN {"issuer_url"} ELSE {}) |-> Freed] @@ p

\* Endpoints the document has replace the account's; the device endpoint is no
\* longer the user's.
setEndpoints(d, p) ==
    [k \in {e \in EndpointKeys : d[e] /= NoText} |-> d[k]]
    @@ (IF p.mytoken_url = NoText THEN [issuer_url |-> d.issuer] ELSE <<>>)
    @@ (IF d.device_authorization_endpoint = NoText THEN <<>>
        ELSE [device_authorization_endpoint |-> d.device_authorization_endpoint, daeSetByUser |-> 0])
    @@ p

\* A mytoken server names the providers it serves; the account takes the url
\* of its own as the server writes it, and keeps its scopes.
setProvider(d, p) ==
    LET hits == {i \in DOMAIN d.providers_supported.l : compIssuerUrls(p.issuer_url, d.providers_supported.l[i])}
    IN  [p EXCEPT !.issuer_url = IF hits = {} THEN @ ELSE d.providers_supported.l[Min(hits)],
                  !.grant_types_supported = d.mytoken_grant_types]

setSupported(d, p) ==
    [account_setScopesSupported(p, d.scopes_supported.l) EXCEPT
       !.grant_types_supported = IF d.grant_types_supported = NoText THEN DEFAULT_GRANTTYPES
                                 ELSE d.grant_types_supported]

setMethods(d, p) ==
    [p EXCEPT !.response_types_supported = d.response_types_supported,
              !.code_challenge_method =
                 CASE d.code_challenge_methods /= {} /\ "S256" \in d.code_challenge_methods -> <<83>>
                   [] d.code_challenge_methods /= {} /\ "S256" \notin d.code_challenge_methods ->
                        IF "plain" \in d.code_challenge_methods THEN <<112>> ELSE @
                   [] OTHER -> IF compIssuerUrls(p.issuer_url, EDUTEAMS_ISSUER_URL) THEN <<83>> ELSE @]

ExpectedUrl(p) == IF p.mytoken_url = NoText THEN p.issuer_url ELSE p.mytoken_url

UseDocument(d, p) ==
    CASE d.token_endpoint = NoText -> Failed(p)
      [] d.token_endpoint /= NoText /\ strValid(ExpectedUrl(p)) /\ ~compIssuerUrls(d.issuer, ExpectedUrl(p)) ->
           Failed(p)
      [] OTHER ->
           IF d.authorization_endpoint /= NoText /\ ~isValidAuthEndpointUrl(d.authorization_endpoint)
           THEN Failed(Dangling(d, p))
           ELSE IF d.providers_supported.ok
           THEN [ok |-> TRUE, p |-> setMethods(d, setProvider(d, setEndpoints(d, p)))]
           ELSE IF ~d.scopes_supported.ok THEN Failed(setEndpoints(d, p))
           ELSE [ok |-> TRUE, p |-> setMethods(d, setSupported(d, setEndpoints(d, p)))]

parseOpenidConfiguration(res, p) == IF res.t /= "object" THEN Failed(p) ELSE UseDocument(res.d, p)

CONF_ENDPOINT_SUFFIX == <<99>>
OAUTH_CONF_ENDPOINT_SUFFIX == <<50>>

\* The document, and the account with the endpoint it came from.  The second
\* endpoint is tried when the first is not there, and is kept whatever comes.
obtainFrom(web, p, first, second) ==
    IF Get(web, first).t = "404"
    THEN [res |-> Get(web, second), p |-> [p EXCEPT !.oauth = 1, !.config_endpoint = second]]
    ELSE [res |-> Get(web, first), p |-> [p EXCEPT !.config_endpoint = first]]

obtainDocument(web, p) ==
    LET openid == oidc_pathcat(ExpectedUrl(p), CONF_ENDPOINT_SUFFIX)
        oauth2 == oidc_pathcat(ExpectedUrl(p), OAUTH_CONF_ENDPOINT_SUFFIX)
    IN  IF strValid(p.config_endpoint) THEN [res |-> Get(web, p.config_endpoint), p |-> p]
        ELSE IF p.oauth = 0 THEN obtainFrom(web, p, openid, oauth2) ELSE obtainFrom(web, p, oauth2, openid)

UseAnswer(a) == parseOpenidConfiguration(a.res, a.p)
obtainIssuerConfig(web, p) == UseAnswer(obtainDocument(web, p))

\* An account that has nothing but the issuer asks for the scopes.
getScopesSupportedFor(web, issuer_url, config_endpoint) ==
    LET r == obtainIssuerConfig(web, [NewAccount EXCEPT !.issuer_url = issuer_url, !.config_endpoint = config_endpoint])
    IN  IF r.ok THEN List(r.p.scopes_supported) ELSE NoList

-----------------------------------------------------------------------------
(* The device code, in the provider's answer and between the processes.    *)

DefaultInterval == 5
NoCode == [device_code |-> NoText]

getDeviceCodeFromJSON(j) ==
    [device_code |-> OneOf(j, <<"polling_code", "device_code">>),
     user_code |-> ValueAt(j, "user_code"),
     uri |-> OneOf(j, <<"verification_uri", "consent_uri", "verification_url">>),
     complete |-> OneOf(j, <<"verification_uri_complete", "consent_uri", "verification_url_complete">>),
     expires_in |-> FlagAt(j, "expires_in"),
     interval |-> IF "interval" \in DOMAIN j THEN j.interval ELSE DefaultInterval]

parseDeviceCode(j) ==
    IF OneOf(j, <<"error", "error_description">>) /= NoText THEN NoCode ELSE getDeviceCodeFromJSON(j)

deviceCodeToJSON(c) ==
    [device_code |-> c.device_code, user_code |-> c.user_code, verification_uri |-> c.uri,
     verification_uri_complete |-> c.complete, expires_in |-> c.expires_in, interval |-> c.interval]
=============================================================================
