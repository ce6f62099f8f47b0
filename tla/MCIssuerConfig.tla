--------------------------- MODULE MCIssuerConfig ---------------------------
\* Two agents, two accounts, and an issuer with and without its slash.
EXTENDS IssuerConfig

CONSTANTS a1, a2
Symmetry == Permutations(Agents)

H == <<104>>
HSlash == <<104, 47>>
N1 == <<109>>
N2 == <<110>>

MCNames == {N1, N2}
MCIssuers == {H, HSlash}
MCContact == {<<53>>}

Obj(iss, more) == Object(<<Member(issuer, String(iss))>> \o more)
Pub == Member(pubclient, Object(<<Member(client_id, String(<<112>>)), Member(flow, Array(<<String(<<99>>)>>))>>))
User == Member(user_client, Object(<<Member(client_id, String(<<117>>))>>))
Says(c) == Member(contact, String(c))
Old(l) == Lines([i \in DOMAIN l |-> [iss |-> l[i][1], account |-> l[i][2]]])

MCConfs ==
    { NULL,
      Old(<< <<H, N2>>, <<HSlash, N1>>, <<H, NoText>> >>),
      Json(Array(<<Obj(HSlash, <<Member(oauth, Bool(FALSE)), Says(<<49>>), User>>)>>)),
      Json(Array(<<Obj(H, <<Member(accounts, Array(<<String(N1)>>)), Member(default_account, String(N2)),
                            Member(legacy_aud_mode, Bool(FALSE))>>)>>)) }

MCLows ==
    { <<Obj(H, <<Says(<<50>>), Pub>>),
        Array(<<Obj(H, <<Member(oauth, Bool(TRUE)), Says(<<51>>), Member(legacy_aud_mode, Bool(TRUE))>>),
                Obj(HSlash, <<Member(oauth, Bool(TRUE))>>), Object(<<Says(<<52>>)>>)>>)>> }
=============================================================================
