------------------------------- MODULE SafePath -------------------------------
(***************************************************************************)
(* Whether a path can be trusted (safe_is_path_trusted.c), which the agent *)
(* asks about the directory of its socket and the socket.  The walk looks  *)
(* at one component after the other and follows symbolic links itself,     *)
(* while users who are not trusted change the directories they may write.  *)
(*                                                                         *)
(* version "r" keeps the path walked so far as a text and passes it to     *)
(* lstat; version "cwd", which the other one forks for long paths, changes *)
(* the working directory.  A path is the sequence of its components, an    *)
(* absolute one starts with "/".  An object is an inode; its kind, owner,  *)
(* group and mode bits do not change.                                      *)
(***************************************************************************)
EXTENDS Integers, Sequences, SequencesExt, IdRangeList

CONSTANTS
    NULL,
    Root,               \* the inode of "/"
    Names,              \* the names of directory entries
    FileSystems,        \* [object, entry]: the file systems to start from
    Questions,          \* [version, cwd, pathname]: what may be asked
    Spare,              \* inodes other users may put into a directory
    MAX_SYMLINK_DEPTH,
    PATH_MAX,           \* in components: the longest path version r can hold
    SocketGroup,        \* the gid of the group option, or NULL
    RETRY_MAX,          \* SAFE_IS_PATH_TRUSTED_RETRY_MAX
    MaxChanges          \* bound on the changes other users make

SAFE_PATH_ERROR == -1
SAFE_PATH_UNTRUSTED == 0
SAFE_PATH_TRUSTED_STICKY_DIR == 1
SAFE_PATH_TRUSTED == 2
SAFE_PATH_TRUSTED_CONFIDENTIAL == 3

VARIABLES
    object,     \* [inode -> [kind, uid, gid, mode, dest]]
    entry,      \* [directory -> [Names -> inode or NULL]]
    foreign,    \* the entries <<directory, name>> other users have made
    changes,    \* how many changes other users have made
    ask,        \* the question
    w           \* the walk

fsVars == <<object, entry, foreign, changes>>
vars == <<object, entry, foreign, changes, ask, w>>

-----------------------------------------------------------------------------
\* The file system.
Dirs == {i \in DOMAIN object : object[i].kind = "dir"}

ParentOf(d) ==
    IF \E p \in Dirs, n \in Names : entry[p][n] = d
    THEN CHOOSE p \in Dirs : \E n \in Names : entry[p][n] = d
    ELSE d

\* The kernel's resolution of a path from directory d: what it leads to, and the
\* entries used.  NULL when it leads nowhere or, as fuel says, round in circles.
\* A link is followed unless it is the last component and follow is FALSE.
Resolution(d, path, follow) ==
    LET go[at \in DOMAIN object \cup {NULL}, rest \in Seq(Names \cup {"/", ".", ".."}),
           via \in SUBSET (Dirs \X Names), fuel \in Nat] ==
            LET c == Head(rest)
                i == entry[at][c]
            IN  IF at = NULL \/ rest = <<>> THEN [at |-> at, via |-> via]
                ELSE IF c = "/" THEN go[Root, Tail(rest), via, fuel]
                ELSE IF at \notin Dirs \/ fuel = 0 THEN [at |-> NULL, via |-> via]
                ELSE IF c = "." THEN go[at, Tail(rest), via, fuel]
                ELSE IF c = ".." THEN go[ParentOf(at), Tail(rest), via, fuel]
                ELSE IF i # NULL /\ object[i].kind = "link" /\ (follow \/ Len(rest) > 1)
                     THEN go[at, object[i].dest \o Tail(rest), via \cup {<<at, c>>}, fuel - 1]
                ELSE go[i, Tail(rest), via \cup {<<at, c>>}, fuel]
    IN  go[d, path, {}, MAX_SYMLINK_DEPTH]

\* An empty path leads nowhere.
Resolve(d, path, follow) == IF path = <<>> THEN NULL ELSE Resolution(d, path, follow).at

-----------------------------------------------------------------------------
\* Trust in a single object.
\* The lists check_socket_path makes: the user (1), their group (1), the group 0
\* and the group of the option.
ulist == safe_add_id_to_list(safe_init_id_range_list, 1)
glist ==
    LET own == safe_add_id_to_list(safe_add_id_to_list(safe_init_id_range_list, 1), 0)
    IN  IF SocketGroup = NULL THEN own ELSE safe_add_id_to_list(own, SocketGroup)

TrustedUid(o) == o.uid = 0 \/ safe_is_id_in_list(ulist, o.uid)
TrustedGid(o) == safe_is_id_in_list(glist, o.gid)

\* Others, or an untrusted group, have one of these bits.
\* Mutant: the group is not looked at.
Open_other(o, group, other) == o.mode \cap other # {}
Open(o, group, other) == (~TrustedGid(o) /\ o.mode \cap group # {}) \/ o.mode \cap other # {}

Confidential(o) ==
    IF o.kind = "dir" THEN ~Open(o, {"gr", "gx"}, {"or", "ox"}) ELSE ~Open(o, {"gr"}, {"or"})

is_mode_trusted(o) ==
    IF TrustedUid(o) /\ ~Open(o, {"gw"}, {"ow"})
    THEN IF Confidential(o) THEN SAFE_PATH_TRUSTED_CONFIDENTIAL ELSE SAFE_PATH_TRUSTED
    ELSE IF o.kind = "link" THEN SAFE_PATH_TRUSTED
    ELSE IF o.kind = "dir" /\ "vtx" \in o.mode /\ TrustedUid(o) THEN SAFE_PATH_TRUSTED_STICKY_DIR
    ELSE SAFE_PATH_UNTRUSTED

trust_matrix(parent, child) == IF parent = SAFE_PATH_UNTRUSTED THEN SAFE_PATH_UNTRUSTED ELSE child

\* Mutant: what lies in a sticky directory is trusted by its own mode.
is_component_in_dir_trusted_sticky(parent, o) == trust_matrix(parent, is_mode_trusted(o))
\* Only a directory is trusted in a sticky directory: anybody can have made a
\* hard link to anything else.
is_component_in_dir_trusted(parent, o) ==
    IF parent = SAFE_PATH_TRUSTED_STICKY_DIR /\ o.kind # "dir" THEN SAFE_PATH_UNTRUSTED
    ELSE trust_matrix(parent, is_mode_trusted(o))

-----------------------------------------------------------------------------
\* The walk: pc says what comes next, stack are the paths still to be walked,
\* path is what lstat gets, cwd the working directory of version cwd and of the
\* climb, size the length of a link, prev and back the trust and the path of the
\* directory that contains it.
Absolute(path) == path # <<>> /\ Head(path) = "/"

Start(q) ==
    [pc |-> IF Absolute(q.pathname) THEN "next" ELSE "climb", stack |-> <<q.pathname>>,
     version |-> q.version, path |-> <<>>, back |-> <<>>, cwd |-> q.cwd, size |-> 0, tries |-> 0,
     obj |-> q.cwd, status |-> SAFE_PATH_UNTRUSTED, prev |-> SAFE_PATH_UNTRUSTED]

Done(status) == [w EXCEPT !.pc = "done", !.status = status]

\* From the working directory up to the root every directory must be trusted;
\* the trust of the first one counts.
Climb ==
    LET trust == is_mode_trusted(object[w.cwd])
        up    == ParentOf(w.cwd)
        first == IF w.status = SAFE_PATH_UNTRUSTED THEN trust ELSE w.status
    IN  /\ w.pc = "climb"
        /\ w' = IF trust <= SAFE_PATH_UNTRUSTED THEN Done(trust)
                ELSE IF up = w.cwd THEN [w EXCEPT !.pc = "next", !.status = first, !.cwd = ask.cwd]
                ELSE [w EXCEPT !.status = first, !.cwd = up]
        /\ UNCHANGED <<fsVars, ask>>

\* One goes up by chdir, the other by a longer and longer "../..".
is_current_working_directory_trusted == w.version = "cwd" /\ Climb
is_current_working_directory_trusted_r == w.version = "r" /\ Climb

\* get_next_component: paths that are used up are popped first.
Pending(stack) == SelectSeq(stack, LAMBDA p : p # <<>>)
Popped(stack) ==
    LET full == {k \in DOMAIN stack : stack[k] # <<>>}
    IN  IF full = {} THEN <<>> ELSE SubSeq(stack, 1, Max(full))

is_stack_empty(stack) == Pending(stack) = <<>>

\* append_dir_entry_to_path.  ".." removes the last component, and the last one
\* of an absolute path takes the "/" with it; behind "/" and ".." it does nothing.
append_dir_entry_to_path(path, name) ==
    IF name = "/" THEN <<"/">>
    ELSE IF name # ".." \/ path = <<>> THEN Append(path, name)
    ELSE IF Last(path) \in {"/", ".."} THEN path
    ELSE IF Len(path) = 2 /\ Absolute(path) THEN <<>>
    ELSE Front(path)

next ==
    /\ w.pc = "next"
    /\ LET st == Popped(w.stack)
           c  == Head(Last(st))
           rest == [st EXCEPT ![Len(st)] = Tail(@)]
           trust == IF c = "/" THEN SAFE_PATH_TRUSTED ELSE w.status
           path == IF w.version = "r" THEN append_dir_entry_to_path(w.path, c) ELSE <<c>>
       IN  w' = IF st = <<>> THEN Done(w.status)
                ELSE IF c = "." THEN [w EXCEPT !.stack = rest]
                ELSE IF Len(path) > PATH_MAX THEN [w EXCEPT !.pc = "fork"]
                ELSE [w EXCEPT !.pc = "lstat", !.stack = rest, !.tries = 0,
                               !.status = trust, !.prev = trust, !.path = path, !.back = w.path]
    /\ UNCHANGED <<fsVars, ask>>

\* safe_is_path_trusted_fork: a child starts again with version cwd.  Without a
\* pipe the answer is "untrusted", without a child it is an error.
fork ==
    /\ w.pc = "fork"
    /\ \/ w' = Start([ask EXCEPT !.version = "cwd"])
       \/ w' = Done(SAFE_PATH_UNTRUSTED)
       \/ w' = Done(SAFE_PATH_ERROR)
    /\ UNCHANGED <<fsVars, ask>>

\* The directory that relative paths start from.
Here == IF w.version = "r" THEN ask.cwd ELSE w.cwd

\* lstat, the verdict, and what follows for anything but a link: another
\* component needs a directory.
lstat ==
    /\ w.pc = "lstat"
    /\ LET i == Resolve(Here, w.path, FALSE)
           trust == is_component_in_dir_trusted(w.status, object[i])
           t == [w EXCEPT !.tries = @ + 1, !.status = trust, !.obj = i]
       IN  w' = IF w.tries >= RETRY_MAX \/ i = NULL THEN Done(SAFE_PATH_ERROR)
                ELSE IF trust <= SAFE_PATH_UNTRUSTED THEN Done(trust)
                ELSE IF object[i].kind = "link"
                     THEN [t EXCEPT !.pc = "readlink", !.size = Len(object[i].dest)]
                ELSE IF is_stack_empty(w.stack) THEN [t EXCEPT !.pc = "next"]
                ELSE IF w.version = "cwd" THEN [t EXCEPT !.pc = "chdir"]
                ELSE IF object[i].kind # "dir" THEN Done(SAFE_PATH_ERROR)
                ELSE [t EXCEPT !.pc = "next"]
    /\ UNCHANGED <<fsVars, ask>>

chdir ==
    /\ w.pc = "chdir"
    /\ LET d == Resolve(w.cwd, w.path, TRUE)
       IN  w' = IF d \in Dirs THEN [w EXCEPT !.pc = "next", !.cwd = d] ELSE Done(SAFE_PATH_ERROR)
    /\ UNCHANGED <<fsVars, ask>>

\* push_path_on_stack fails when there are too many paths: links form a circle.
Full(stack) == Len(stack) >= MAX_SYMLINK_DEPTH

\* Mutant: paths that are used up are popped already when the next one is pushed.
push_path_on_stack_popped(stack, path) == Append(Popped(stack), path)
push_path_on_stack(stack, path) == Append(stack, path)

Truncated(i) == Len(object[i].dest) > w.size

\* readlink: a longer referent than lstat announced is looked at again, else the
\* referent is walked from the directory that contains the link.
readlink ==
    /\ w.pc = "readlink"
    /\ LET i == Resolve(Here, w.path, FALSE)
           back == [w EXCEPT !.status = w.prev]
       IN  w' = IF i = NULL \/ object[i].kind # "link" THEN Done(SAFE_PATH_ERROR)
                ELSE IF Truncated(i) THEN [back EXCEPT !.pc = "lstat"]
                ELSE IF Full(w.stack) THEN Done(SAFE_PATH_ERROR)
                ELSE [back EXCEPT !.pc = "next",
                                  !.stack = push_path_on_stack(@, object[i].dest),
                                  !.path = w.back]
    /\ UNCHANGED <<fsVars, ask>>

-----------------------------------------------------------------------------
\* Another user changes an entry of a directory: one that is theirs, or that
\* others or an untrusted group may write; in a sticky directory of somebody
\* else only where there is nothing or something that is theirs.  They put
\* nothing there, one of their own objects, or a hard link to a file or a link.
MayChange(d, n) ==
    LET o == object[d]
        e == entry[d][n]
    IN  \/ ~TrustedUid(o)
        \/ /\ "ow" \in o.mode \/ ("gw" \in o.mode /\ ~TrustedGid(o))
           /\ "vtx" \in o.mode /\ e # NULL => ~TrustedUid(object[e])

interfere(d, n, i) ==
    /\ changes < MaxChanges /\ d \notin Spare
    /\ MayChange(d, n)
    /\ i # entry[d][n]
    /\ changes' = changes + 1
    /\ i \in {NULL} \cup (Spare \ {d}) \cup {j \in DOMAIN object : object[j].kind # "dir"}
    /\ i \in Dirs => \A p \in Dirs, m \in Names : entry[p][m] # i
    /\ entry' = [entry EXCEPT ![d][n] = i]
    /\ foreign' = IF i = NULL THEN foreign \ {<<d, n>>} ELSE foreign \cup {<<d, n>>}
    /\ UNCHANGED <<object, ask, w>>

walk ==
    \/ is_current_working_directory_trusted \/ is_current_working_directory_trusted_r
    \/ next \/ fork \/ lstat \/ chdir \/ readlink

Init ==
    /\ \E f \in FileSystems : object = f.object /\ entry = f.entry
    /\ foreign = {} /\ changes = 0
    /\ ask \in Questions
    /\ w = Start(ask)

\* After the verdict the directory may still change.
Next == walk \/ \E d \in Dirs, n \in Names, i \in DOMAIN object \cup {NULL} : interfere(d, n, i)

Fairness == WF_vars(walk)

Spec == Init /\ [][Next]_vars /\ Fairness
-----------------------------------------------------------------------------
TypeOK ==
    /\ w.status \in SAFE_PATH_ERROR..SAFE_PATH_TRUSTED_CONFIDENTIAL
    /\ Len(w.stack) <= MAX_SYMLINK_DEPTH
    /\ w.tries <= RETRY_MAX
    /\ w.obj \in DOMAIN object \cup {NULL}

\* check_socket_path accepts every level of trust.
check_socket_path(status) == status > SAFE_PATH_UNTRUSTED

Trusted == w.pc = "done" /\ check_socket_path(w.status)

\* "The path given always refers to the same object": once a path is trusted it
\* leads to the object the walk ended at, whatever other users do before, during
\* and after the walk.
AlwaysTheSame == Trusted => Resolve(ask.cwd, ask.pathname, TRUE) = w.obj

\* No entry on the way of a trusted path has been made by other users, not even
\* a hard link to something that is itself trustworthy.
NotMadeByOthers ==
    Trusted => Resolution(ask.cwd, ask.pathname, TRUE).via \cap foreign = {}

\* The walk ends, although links may form a circle and other users may change
\* the link between lstat and readlink.
WalkEnds == <>(w.pc = "done")
=============================================================================
