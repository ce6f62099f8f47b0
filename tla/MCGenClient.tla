---------------------------- MODULE MCGenClient ----------------------------
\* Two processes of oidc-gen, two account names and one command line of each
\* kind; registration opens a web server, the manual generation does not.
EXTENDS GenClient, TLC

CONSTANTS a, b, p1, p2

Opt(cmd, flows, uris, noWebserver, noSave, pub) ==
    [cmd |-> cmd, flows |-> flows, uris |-> uris, creds |-> FALSE, noWebserver |-> noWebserver,
     noSave |-> noSave, pub |-> pub]

Symmetry == Permutations(Procs) \cup Permutations(Names)

MCOptions ==
    { Opt("register", <<>>, TRUE, FALSE, FALSE, FALSE),
      Opt("manual", <<>>, TRUE, TRUE, FALSE, FALSE),
      Opt("reauthenticate", <<"device">>, TRUE, FALSE, FALSE, FALSE) }
    \cup {Opt(c, <<>>, FALSE, FALSE, FALSE, FALSE) : c \in {"rename", "delete", "state", "codeExchange"}}
=============================================================================
