-------------------------- MODULE MCAccountFile --------------------------
\* The account file with two passwords and one OpenPGP key, a few options of
\* oidc-add and oidc-gen, two tries at a prompt and a short clock.
EXTENDS AccountFile, TLC

CONSTANTS pw1, pw2, key1

Opt(pl, l, store, cmd, env, gpg) ==
    [pw_lifetime |-> pl, lifetime |-> l, store_pw |-> store, pw_cmd |-> cmd, pw_file |-> NULL,
     pw_env |-> env, pw_gpg |-> gpg]
No == [argProvided |-> "no", lifetime |-> 0]
Default == [argProvided |-> "default", lifetime |-> 0]
For(n) == [argProvided |-> "yes", lifetime |-> n]

MCAddOptions == {Opt(Default, For(1), FALSE, NULL, NULL, NULL)}

MCGenOptions ==
    { Opt(No, No, FALSE, NULL, NULL, NULL),
      Opt(No, No, FALSE, NULL, NULL, key1) }

\* oidc-gen's configuration names a default key or none.
MCDefaultKeys == {NULL, key1}

\* No option names a password, so they may be exchanged.
Symmetry == Permutations(Passwords)

MCCuts == {<<2, FALSE>>, <<6, TRUE>>}
=============================================================================
