----------------------------- MODULE MCSafePath -----------------------------
(* /a/b/f with a link /a/l, and what other users own: a file, a link and a  *)
(* directory.  Owners are 0 (root), 1 (trusted) and 2 (others).             *)
EXTENDS SafePath

Private == [uid |-> 1, gid |-> 1, mode |-> {}]
Public  == [uid |-> 0, gid |-> 0, mode |-> {"gr", "gx", "or", "ox"}]
Sticky  == [uid |-> 0, gid |-> 0, mode |-> {"gr", "gw", "gx", "or", "ow", "ox", "vtx"}]
Shared  == [uid |-> 1, gid |-> 2, mode |-> {"gr", "gw", "gx"}]
Theirs  == [uid |-> 2, gid |-> 2, mode |-> {"or", "ox"}]

Object(kind, p, dest) == [kind |-> kind, uid |-> p.uid, gid |-> p.gid, mode |-> p.mode, dest |-> dest]

Tree(a, b, f, dest) ==
    [object |-> ("/" :> Object("dir", Public, <<>>)) @@ ("A" :> Object("dir", a, <<>>)) @@
                ("B" :> Object("dir", b, <<>>)) @@ ("F" :> Object("file", f, <<>>)) @@
                ("L" :> Object("link", Theirs, dest)) @@
                ("X" :> Object("link", Theirs, <<".", "b", "f">>)) @@
                ("Y" :> Object("dir", Theirs, <<>>)),
     entry |-> [d \in {"/", "A", "B", "Y"} |-> [n \in Names |->
                   CASE d = "/" /\ n = "a" -> "A"
                     [] d = "A" /\ n = "b" -> "B"
                     [] d \in {"B", "Y"} /\ n = "f" -> "F"
                     [] d = "A" /\ n = "l" -> "L"
                     [] OTHER -> NULL]]]

Trees ==
    {Tree(a, b, f, dest) :
        a \in {Public, Sticky}, b \in {Private, Shared, Theirs}, f \in {Public},
        dest \in {<<"b", "f">>, <<"/", "a", "b">>, <<"l">>}}

Ask(v, cwd, path) == [version |-> v, cwd |-> cwd, pathname |-> path]

\* Relative paths of version r start with at most one "..", and none of its
\* paths goes back to "/" by "..".
Asked ==
    {Ask(v, "B", p) : v \in {"r", "cwd"},
        p \in {<<"/", "a", "b", "f">>, <<"/", "a", "l">>, <<"/", "a", "l", "f">>, <<"f">>,
               <<".", "..", "l">>}} \cup
    {Ask("cwd", "B", p) : p \in {<<"/", "a", "..", "a", "b">>, <<"..", "..", "a", "l">>}}

AskedUp == {Ask("r", "B", <<"..", "..", "b">>)}
=============================================================================
