------------------------------- MODULE FsPaths -------------------------------
(***************************************************************************)
(* The multi-step path operations of the filesystem service, run against   *)
(* a tree other processes change between the steps:                        *)
(*                                                                         *)
(*   - mkdir_path of FsHandle (uring_fs/mod.rs) and of FsConn (core.rs):   *)
(*     one confined open of the whole path, and when that fails one        *)
(*     mkdirat and one confined open per component;                        *)
(*   - open_chain of FsConn (core.rs): a list of confined opens, each      *)
(*     anchored on the directory the one before it returned.               *)
(*                                                                         *)
(* Directories have identities; an Anchor is an identity, so it survives   *)
(* its name.  Each ring operation is one step; between two steps another   *)
(* walker or the outside world may act.                                    *)
(***************************************************************************)
EXTENDS Naturals, Sequences, FiniteSets, SequencesExt

CONSTANTS
    Walkers,     \* the callers
    Requests,    \* [Walkers -> set of requests a caller may make]
    Trees,       \* initial entries: sets of [at, name, kind]
    PathNames,   \* ordinary component names
    MaxDirs,     \* directories that may exist
    MaxMeddling  \* changes by the outside world

VARIABLE fp

pathVars == <<fp>>

Root == 0
Outside == 100   \* what a symlink leads to
OtherMount == 101

NoEntry == [kind |-> "none", id |-> 0]
Entry(kind, id) == [kind |-> kind, id |-> id]
Inside == 0 .. MaxDirs - 1

(* ---- path shape (path/shape.rs) ----------------------------------------- *)

\* A name is an ordinary one or one of the defective shapes.
component_defect(n) == n \in {"", ".", "..", "x/y", "nul"}

\* A path is the sequence of its components; a leading "" is a leading slash.
relative_defect(p) == p = <<>> \/ \E i \in DOMAIN p : component_defect(p[i])

(* ---- the kernel's resolution (openat2, mkdirat) -------------------------- *)

CONFINED_RESOLVE == {"BENEATH", "NO_SYMLINKS", "NO_XDEV"}

EntryAt(st, at, n) ==
    IF at \in Inside /\ n \in PathNames THEN st.dir[at][n] ELSE NoEntry

Failed(e) == [err |-> e, kind |-> "none", id |-> 0]

StepInto(st, resolve, acc, n) ==
    LET e == EntryAt(st, acc.id, n)
    IN  CASE acc.err /= "none" -> acc
          [] acc.err = "none" /\ acc.kind /= "dir" -> Failed("ENOTDIR")
          [] acc.err = "none" /\ acc.kind = "dir" ->
               CASE e.kind = "none" -> Failed("ENOENT")
                 [] e.kind = "link" /\ "NO_SYMLINKS" \in resolve -> Failed("ELOOP")
                 [] e.kind = "link" /\ "NO_SYMLINKS" \notin resolve ->
                      [err |-> "none", kind |-> "dir", id |-> Outside]
                 [] e.kind = "mount" /\ "NO_XDEV" \in resolve -> Failed("EXDEV")
                 [] e.kind = "mount" /\ "NO_XDEV" \notin resolve ->
                      [err |-> "none", kind |-> "dir", id |-> OtherMount]
                 [] e.kind \in {"dir", "file"} ->
                      [err |-> "none", kind |-> e.kind, id |-> e.id]

\* openat2 of a path beneath `at`; with O_DIRECTORY a file is refused.
Openat2(st, at, path, resolve, directory) ==
    LET r == FoldLeft(LAMBDA acc, n : StepInto(st, resolve, acc, n),
                      [err |-> "none", kind |-> "dir", id |-> at], path)
    IN  IF r.err = "none" /\ directory /\ r.kind /= "dir" THEN Failed("ENOTDIR")
        ELSE r

Fresh(st) == {d \in Inside : d \notin st.made}

\* mkdirat honours no RESOLVE flag; it is given a single component.
Mkdirat(st, at, n) ==
    IF at \notin Inside \/ at \in st.dead THEN [st |-> st, err |-> "ENOENT"]
    ELSE IF st.dir[at][n].kind /= "none" THEN [st |-> st, err |-> "EEXIST"]
    ELSE IF Fresh(st) = {} THEN [st |-> st, err |-> "ENOSPC"]
    ELSE LET d == CHOOSE x \in Fresh(st) : \A y \in Fresh(st) : x <= y
         IN  [st |-> [st EXCEPT !.dir[at][n] = Entry("dir", d),
                                !.made = @ \cup {d},
                                !.held = @ \cup {<<at, n, d>>}],
              err |-> "none"]

(* ---- the walkers --------------------------------------------------------- *)

\* req.op: "handle" and "conn" are the two mkdir_paths, "chain" is open_chain
\* (req.steps its paths, a step [path, derived]).
Idle(q) == [pc |-> "call", req |-> q, cur |-> Root, parts |-> <<>>,
            steps |-> <<>>, res |-> "none", id |-> 0, kind |-> "none",
            refused |-> FALSE]

Ends(w, res) == [w EXCEPT !.pc = "done", !.res = res]

EndsWith(w, o) ==
    [w EXCEPT !.pc = "done", !.res = IF o.err = "none" THEN "ok" ELSE o.err,
              !.id = o.id, !.kind = o.kind]

Set(st, c, w) == [st EXCEPT !.walker[c] = w]

W(c) == fp.walker[c]

\* The checks a method makes before its first operation.
Call(c) ==
    LET q == W(c).req
        bad == IF q.op = "chain"
               THEN \/ q.steps = <<>>
                    \/ q.steps[1].derived
                    \/ \E i \in DOMAIN q.steps :
                           ~q.steps[i].derived /\ relative_defect(q.steps[i].path)
                    \/ q.creates \/ "IN_ROOT" \in q.resolve
               ELSE \/ relative_defect(q.path)
                    \/ q.op = "conn" /\ (q.creates \/ "IN_ROOT" \in q.resolve)
    IN  /\ W(c).pc = "call"
        /\ fp' = Set(fp, c, IF bad THEN Ends(W(c), "EINVAL")
                            ELSE IF q.op = "chain"
                            THEN [W(c) EXCEPT !.pc = "step", !.steps = q.steps]
                            ELSE [W(c) EXCEPT !.pc = "whole", !.parts = q.path])

\* The loop may refuse an operation (a full table, a stop) before it runs.
Refused(c) ==
    /\ W(c).pc \in {"whole", "mkdir", "open", "step"}
    /\ fp' = Set(fp, c, IF W(c).pc = "whole"
                        THEN [W(c) EXCEPT !.pc = "mkdir", !.refused = TRUE]
                        ELSE [Ends(W(c), "EBUSY") EXCEPT !.refused = TRUE])

Resolve(w) == CONFINED_RESOLVE \cup w.req.resolve

\* The fast path: any failure falls back to the walk.
OpenWhole(c) ==
    LET o == Openat2(fp, Root, W(c).req.path, Resolve(W(c)), TRUE)
    IN  /\ W(c).pc = "whole"
        /\ fp' = Set(fp, c, IF o.err = "none" THEN EndsWith(W(c), o)
                            ELSE [W(c) EXCEPT !.pc = "mkdir"])

\* Mutant: a component made by somebody else fails the walk.
MkdirPartStrict(c) ==
    LET r == Mkdirat(fp, W(c).cur, Head(W(c).parts))
    IN  /\ W(c).pc = "mkdir"
        /\ fp' = Set(r.st, c, IF r.err = "none" THEN [W(c) EXCEPT !.pc = "open"]
                              ELSE Ends(W(c), r.err))

MkdirPart(c) ==
    LET r == Mkdirat(fp, W(c).cur, Head(W(c).parts))
    IN  /\ W(c).pc = "mkdir"
        /\ fp' = Set(r.st, c, IF r.err \in {"none", "EEXIST"}
                              THEN [W(c) EXCEPT !.pc = "open"]
                              ELSE Ends(W(c), r.err))

\* Mutant: the component just made is opened with no confinement.
OpenPartLoose(c) ==
    LET o == Openat2(fp, W(c).cur, <<Head(W(c).parts)>>, {}, TRUE)
        rest == Tail(W(c).parts)
    IN  /\ W(c).pc = "open"
        /\ fp' = Set(fp, c, IF o.err /= "none" \/ rest = <<>> THEN EndsWith(W(c), o)
                            ELSE [W(c) EXCEPT !.pc = "mkdir", !.cur = o.id,
                                              !.parts = rest])

OpenPart(c) ==
    LET o == Openat2(fp, W(c).cur, <<Head(W(c).parts)>>, Resolve(W(c)), TRUE)
        rest == Tail(W(c).parts)
    IN  /\ W(c).pc = "open"
        /\ fp' = Set(fp, c, IF o.err /= "none" \/ rest = <<>> THEN EndsWith(W(c), o)
                            ELSE [W(c) EXCEPT !.pc = "mkdir", !.cur = o.id,
                                              !.parts = rest])

\* One step of open_chain.  A derived path is computed from the anchor just
\* reached: it may come out sound, defective, or fail.
ChainStep(c) ==
    LET s == Head(W(c).steps)
        last == Len(W(c).steps) = 1
        Open(path) == Openat2(fp, W(c).cur, path, Resolve(W(c)), ~last)
        After(o) == IF o.err /= "none" \/ last THEN EndsWith(W(c), o)
                    ELSE [W(c) EXCEPT !.cur = o.id, !.steps = Tail(@)]
    IN  /\ W(c).pc = "step"
        /\ \/ ~s.derived /\ fp' = Set(fp, c, After(Open(s.path)))
           \/ /\ s.derived
              /\ \/ /\ ~relative_defect(s.path)
                    /\ fp' = Set(fp, c, After(Open(s.path)))
                 \/ fp' = Set(fp, c, Ends(W(c), "EINVAL"))
                 \/ fp' = Set(fp, c, Ends(W(c), "errno"))

(* ---- the outside world --------------------------------------------------- *)

Empty(st, d) == \A n \in PathNames : st.dir[d][n].kind = "none"

\* The directory and every directory below it: where it may not be moved.
Below(st, d) ==
    LET Kids(p) == {st.dir[p][n].id : n \in {m \in PathNames : st.dir[p][m].kind = "dir"}}
    IN  FoldLeft(LAMBDA S, i : S \cup UNION {Kids(p) : p \in S}, {d},
                 [i \in 1 .. MaxDirs |-> i])

\* Another process plants a symlink, a mount or a file, removes an empty
\* directory (and may leave a symlink under its name), or renames a directory,
\* contents and all, to another place of the tree or out of it.
Meddle ==
    /\ fp.meddled < MaxMeddling
    /\ \E d \in fp.made \ fp.dead, n \in PathNames :
        LET e == fp.dir[d][n]
        IN  \/ /\ e.kind = "dir"
               /\ fp' = [fp EXCEPT !.dir[d][n] = NoEntry, !.meddled = @ + 1]
            \/ /\ e.kind = "dir"
               /\ \E to \in fp.made \ (fp.dead \cup Below(fp, e.id)), m \in PathNames :
                    /\ fp.dir[to][m].kind = "none"
                    /\ fp' = [fp EXCEPT !.dir = [@ EXCEPT ![d][n] = NoEntry,
                                                         ![to][m] = e],
                                        !.held = @ \cup {<<to, m, e.id>>},
                                        !.meddled = @ + 1]
            \/ /\ e.kind = "none"
               /\ \E k \in {"link", "mount", "file"} :
                    fp' = [fp EXCEPT !.dir[d][n] = Entry(k, 0), !.meddled = @ + 1]
            \/ /\ e.kind = "dir" /\ Empty(fp, e.id)
               /\ \E k \in {"none", "link"} :
                    fp' = [fp EXCEPT !.dir[d][n] = Entry(k, 0),
                                     !.dead = @ \cup {e.id}, !.meddled = @ + 1]

(* ---- the specification --------------------------------------------------- *)

Planted(t) ==
    [d \in Inside |-> [n \in PathNames |->
        IF \E x \in t : x.at = d /\ x.name = n
        THEN LET x == CHOOSE x \in t : x.at = d /\ x.name = n IN Entry(x.kind, x.id)
        ELSE NoEntry]]

PathsInit ==
    \E t \in Trees, q \in [Walkers -> UNION {Requests[c] : c \in Walkers}] :
        /\ \A c \in Walkers : q[c] \in Requests[c]
        /\ fp = [dir |-> Planted(t),
                 made |-> {Root} \cup {x.id : x \in {y \in t : y.kind = "dir"}},
                 dead |-> {}, meddled |-> 0, clear |-> \A x \in t : x.kind = "dir",
                 held |-> {<<x.at, x.name, x.id>> : x \in {y \in t : y.kind = "dir"}},
                 walker |-> [c \in Walkers |-> Idle(q[c])]]

PathsNext ==
    \/ \E c \in Walkers :
        \/ Call(c) \/ Refused(c) \/ OpenWhole(c) \/ MkdirPart(c)
        \/ OpenPart(c) \/ ChainStep(c)
    \/ Meddle

(* ---- properties ---------------------------------------------------------- *)

\* The path a request names, component by component.
Named(q) == IF q.op = "chain" THEN FlattenSeq([i \in DOMAIN q.steps |-> q.steps[i].path])
            ELSE q.path

\* The directories a path has ever led to through real entries: `held` keeps
\* every <<directory, name, child>> the tree has had.
EverAt(path) ==
    FoldLeft(LAMBDA S, n : {d \in Inside : \E p \in S : <<p, n, d>> \in fp.held},
             {Root}, path)

\* However entries are planted, removed or renamed between two steps, a walk
\* stands only on directories that were real entries, by the names the request
\* gives and in that order: what it stands on, and what it hands back (for a
\* mkdir_path always a directory), was never reached through a symlink or into
\* another mount.  The confinement is each step's own: a directory renamed away
\* while a walk stands on it takes the walk with it.
WalkStays ==
    \A c \in Walkers :
        LET w == W(c)
            q == w.req
            past == IF q.op = "chain" THEN Len(Named(q)) - Len(Named([q EXCEPT !.steps = w.steps]))
                    ELSE Len(q.path) - Len(w.parts)
        IN  /\ w.pc \in {"mkdir", "open", "step"} => w.cur \in EverAt(SubSeq(Named(q), 1, past))
            /\ (w.pc = "done" /\ w.res = "ok") =>
                 /\ w.kind = "dir" => w.id \in EverAt(Named(q))
                 /\ q.op /= "chain" => w.kind = "dir"

\* mkdir_path is safe to race: when nothing but directories stands in the
\* way, nobody removes any and no operation is refused, every caller of it
\* gets the directory it asked for, whoever created which component.
CreatorsAllSucceed ==
    \A c \in Walkers :
        LET w == W(c)
        IN  (/\ w.pc = "done" /\ ~w.refused /\ fp.meddled = 0 /\ fp.clear
             /\ w.req.op /= "chain" /\ w.res \notin {"EINVAL", "ENOSPC"}) => w.res = "ok"

=============================================================================
