------------------------------ MODULE TreeCopy ------------------------------
(***************************************************************************)
(* The depth-first filesystem iterator and its resume cookie               *)
(* (src/sync_fs/iter.rs).  Directories are read in the kernel's order, one *)
(* open stream per level; entries vanish or are refused between the read   *)
(* of a name and its open; and a walk may stop anywhere, to be taken up    *)
(* from the inodes of the directories it stood in.                         *)
(***************************************************************************)
EXTENDS Integers, Sequences, SequencesExt, FiniteSets

CONSTANTS
  Listing,   \* directory path |-> its entries [name, type, hint, young] in order
  Options,   \* [symlinks, mounts, cutoff] a walk may be built with
  MaxGone,   \* entries another process removes
  None

VARIABLE fi

Under(p, q) == IsPrefix(p, q)
Types == {"dir", "file", "symlink", "special", "mount"}

\* openat2 with RESOLVE_NO_XDEV | RESOLVE_NO_SYMLINKS (external): how the open
\* of an entry fails, by the flags it is opened with.
OpenAt(type, flags) ==
  IF type = "mount" THEN "EXDEV"
  ELSE IF flags = "path" THEN "ok"
  ELSE IF type = "symlink" THEN "ELOOP"
  ELSE IF flags = "dir" /\ type # "dir" THEN "ENOTDIR"
  ELSE IF type = "special" THEN "ENXIO"
  ELSE "ok"

OpenFlags(hint) ==
  CASE hint = "dir" -> "dir"
    [] hint \in {"symlink", "special"} -> "path"
    [] OTHER -> "file"

\* process, up to the statx: what becomes of a name.  "skip" is Ok(None).
ProcessForgetsType(e, o) ==
  LET got == OpenAt(e.type, OpenFlags(e.hint))
  IN  IF e.hint = "symlink" /\ ~o.symlinks THEN "skip"
      ELSE IF got = "ok" THEN e.type
      ELSE IF got = "EXDEV" THEN IF o.mounts THEN "mount" ELSE "skip"
      ELSE IF got \in {"ELOOP", "ENOENT"} THEN "skip"
      ELSE IF got = "ENXIO" /\ e.hint # "dir" THEN e.type
      ELSE "err"

Process(e, o) ==
  LET got == OpenAt(e.type, OpenFlags(e.hint))
  IN  IF e.hint = "symlink" /\ ~o.symlinks THEN "skip"
      ELSE IF got = "ok" THEN e.type
      ELSE IF got = "ELOOP" /\ e.hint \notin {"dir", "symlink"}
           THEN IF o.symlinks THEN "symlink" ELSE "skip"
      ELSE IF got = "EXDEV" THEN IF o.mounts THEN "mount" ELSE "skip"
      ELSE IF got \in {"ELOOP", "ENOENT"} THEN "skip"
      ELSE IF got = "ENXIO" /\ e.hint # "dir" THEN e.type
      ELSE "err"

\* btime_skips: only what is not a directory is judged by its birth time.
BtimeSkips(e, o, type) ==
  o.cutoff /\ type \notin {"mount", "dir"} /\ e.young

DirFrame(path) == [path |-> path, pos |-> 0]
NewIter(opts) == [stack |-> <<DirFrame(<<>>)>>, canSkip |-> FALSE,
                  fatal |-> FALSE, opts |-> opts]

\* A directory is yielded on the stack already, so that the caller may still
\* skip it.
Descend(it, path) ==
  [it EXCEPT !.stack = Append(@, DirFrame(path)), !.canSkip = TRUE]

\* One turn of next's loop: the iterator after it, and what it returned (None
\* when it goes round again).  gone: names that are no longer there.
TurnOf(it, gone) ==
  LET top  == Last(it.stack)
      dir  == Listing[top.path]
      popd == [it EXCEPT !.stack = Front(@)]
      e    == dir[top.pos + 1]
      path == Append(top.path, e.name)
      read == [it EXCEPT !.stack[Len(it.stack)].pos = @ + 1]
      type == IF \E g \in gone : Under(g, path) THEN "skip" ELSE Process(e, it.opts)
      goesOn(i) == [it |-> i, res |-> None]
      fails(i)  == [it |-> [i EXCEPT !.fatal = TRUE], res |-> [kind |-> "err"]]
      yields(i) == [it |-> i, res |-> [kind |-> "entry", path |-> path, type |-> type]]
  IN  IF it.stack = <<>> THEN {[it |-> it, res |-> [kind |-> "end"]]}
      ELSE IF top.pos = Len(dir) THEN {goesOn(popd), fails(it)}
      ELSE IF type = "skip" THEN {goesOn(read)}
      ELSE IF type = "err" THEN {fails(read)}
      ELSE {fails(read)} \cup
           {IF BtimeSkips(e, it.opts, type) THEN goesOn(read)
            ELSE IF type = "dir"
                 THEN yields(Descend(read, path))
                 ELSE yields(read)}

SkipDescentOf(it) ==
  IF it.canSkip THEN [it EXCEPT !.stack = Front(@), !.canSkip = FALSE] ELSE it

\* cookie: the stack as path and inode (here an inode is its path)
CookieOf(it) == [i \in DOMAIN it.stack |-> it.stack[i].path]

\* build and restore_stack: each level reads on in its parent until the child
\* with the wanted inode, and is itself read from the start.
RestoreStack(opts, cookie, gone) ==
  LET at(i) == CHOOSE n \in DOMAIN Listing[cookie[i]] :
                 Append(cookie[i], Listing[cookie[i]][n].name) = cookie[i + 1]
      lost  == \E c \in ToSet(cookie), g \in gone : Under(g, c)
  IN  IF lost THEN None
      ELSE [NewIter(opts) EXCEPT !.stack =
              [i \in 1..Len(cookie) |->
                 [path |-> cookie[i], pos |-> IF i < Len(cookie) THEN at(i) ELSE 0]]]

-----------------------------------------------------------------------------
IterInit ==
  \E o \in Options :
    fi = [it |-> NewIter(o), inCall |-> FALSE, live |-> TRUE, cookie |-> None,
          gone |-> {}, out |-> {}, twice |-> {}, excused |-> {}, redone |-> {},
          ended |-> FALSE]

IterNextCall ==
  /\ fi.live /\ ~fi.inCall /\ ~fi.it.fatal
  /\ fi' = [fi EXCEPT !.inCall = TRUE, !.it.canSkip = FALSE]

IterTurn ==
  /\ fi.live /\ fi.inCall
  /\ \E t \in TurnOf(fi.it, fi.gone) :
       fi' = IF t.res = None THEN [fi EXCEPT !.it = t.it]
             ELSE IF t.res.kind = "entry"
             THEN [fi EXCEPT !.it = t.it, !.inCall = FALSE,
                             !.twice = IF t.res.path \in fi.out THEN @ \cup {t.res.path} ELSE @,
                             !.out = @ \cup {t.res.path}]
             ELSE [fi EXCEPT !.it = t.it, !.inCall = FALSE,
                             !.live = t.res.kind = "err",
                             !.ended = t.res.kind = "end"]

SkipIterDescent ==
  /\ fi.live /\ ~fi.inCall /\ fi.it.canSkip
  /\ fi' = [fi EXCEPT !.it = SkipDescentOf(@),
                      !.excused = @ \cup {Last(fi.it.stack).path}]

\* The caller keeps the cookie (cut to some depth, Cookie::truncate) and stops.
SaveCookie ==
  /\ fi.live /\ ~fi.inCall /\ fi.it.stack # <<>>
  /\ \E depth \in 1..Len(fi.it.stack) :
       fi' = [fi EXCEPT !.live = FALSE, !.cookie = SubSeq(CookieOf(fi.it), 1, depth)]

ResumeFrom ==
  /\ ~fi.live /\ ~fi.ended /\ fi.cookie # None
  /\ LET it == RestoreStack(fi.it.opts, fi.cookie, fi.gone)
     IN  /\ it # None
         /\ fi' = [fi EXCEPT !.it = it, !.live = TRUE, !.cookie = None,
                             !.redone = @ \cup {Last(fi.cookie)}]

IterRemoved ==
  /\ Cardinality(fi.gone) < MaxGone
  /\ \E d \in DOMAIN Listing : \E i \in DOMAIN Listing[d] :
       fi' = [fi EXCEPT !.gone = @ \cup {Append(d, Listing[d][i].name)}]

IterNext ==
  \/ IterNextCall \/ IterTurn \/ SkipIterDescent \/ SaveCookie \/ ResumeFrom
  \/ IterRemoved

-----------------------------------------------------------------------------
\* The entries a walk with these options is asked for.
Wanted(o) ==
  {Append(d, Listing[d][i].name) : <<d, i>> \in
     {<<d, i>> \in UNION {{dd} \X DOMAIN Listing[dd] : dd \in DOMAIN Listing} :
        LET e == Listing[d][i]
        IN  /\ e.type = "symlink" => o.symlinks
            /\ e.type = "mount" => o.mounts
            /\ ~BtimeSkips(e, o, e.type)}}

\* A walk that ended, in one go or over any number of resumes, has yielded every
\* entry it was asked for that was there throughout, whatever d_type said of
\* it; an entry comes twice only below a directory that a resume restarted.
IterComplete ==
  /\ fi.ended =>
       \A p \in Wanted(fi.it.opts) :
         \/ p \in fi.out
         \/ \E x \in fi.gone : Under(x, p)
         \/ \E x \in fi.excused : Under(x, p) /\ x # p
  /\ \A p \in fi.twice : \E d \in fi.redone : Under(d, p) /\ d # p

-----------------------------------------------------------------------------
(***************************************************************************)
(* copytree (src/sync_fs/shutil): a copy driven by the filesystem iterator *)
(* above, with a stack of destination directories that follows the         *)
(* iterator's, metadata stamped on the way up, and a destination root held *)
(* owner-only while the copy runs.  Every system call may fail; raise_error*)
(* decides whether a failure of the metadata ends the copy, which one of   *)
(* the ownership always does.                                              *)
(***************************************************************************)

CONSTANTS
  Configs,   \* [raise, existOk, perms, owner, traverse]: raise_error,
             \* exist_ok, PERMISSIONS, OWNER, traverse
  CtlDirs,   \* directories that have the inode of a .zfs control directory
  ChildMounts, \* where mounts lie under the source
  DstSelf,   \* where in the source the destination root lies, or None
  Present    \* destination paths that exist before the copy

VARIABLE tc

CopyIter == NewIter([symlinks |-> TRUE, mounts |-> FALSE, cutoff |-> FALSE])

\* The destination root: was it there, does its mode grant others, does an ACL
\* govern it (then chmod is refused, and that is accepted).
CopyInit ==
  \E c \in Configs, there \in BOOLEAN, grants \in BOOLEAN, acl \in BOOLEAN :
    tc = [c |-> c, at |-> "start", there |-> there, grants |-> grants, acl |-> acl,
          mode |-> "own", borrowed |-> FALSE, stamped |-> FALSE,
          it |-> CopyIter, frames |-> <<>>, entry |-> None,
          temp |-> FALSE, dst |-> Present, partial |-> {}, chmodLost |-> FALSE,
          left |-> IF c.traverse THEN ChildMounts ELSE {}, crossed |-> {}]

Chmodded(t, mode) == IF t.acl THEN t ELSE [t EXCEPT !.mode = mode]
CopyFails(t) == [t EXCEPT !.at = "failed"]

\* narrows_the_root
NarrowsTheRoot(t) == t.grants /\ (t.there \/ t.c.perms)

\* copytree_reporting up to the walk: the root is made or taken over.
CopyStart ==
  /\ tc.at = "start"
  /\ \/ tc' = [tc EXCEPT !.at = "err"]
     \/ /\ tc.there => tc.c.existOk
        /\ LET t == [tc EXCEPT !.at = "walk", !.borrowed = tc.grants /\ tc.there,
                               !.frames = <<<<>>>>]
           IN  tc' = IF NarrowsTheRoot(tc) THEN Chmodded(t, "hold") ELSE t

\* copy_metadata and apply_timestamps of one object.  ok: nothing failed;
\* chown: the fchown did, before anything else, and that always ends the copy;
\* released: the permissions failed and release_creation_hold put the mode in;
\* held: that failed too; late: a later step failed.  These end the copy only
\* under raise_error (guard).
Metadata(t) == {"ok", "released", "held", "late"} \cup (IF t.c.owner THEN {"chown"} ELSE {})
MetaFails(t, m) ==
  m = "chown" \/ (t.c.raise /\ (m = "late" \/ (t.c.perms /\ m # "ok")))
MetaStamps(t, m) == t.c.perms /\ m \in {"ok", "released", "late"}

\* finish_dir
FinishDir(t, m) ==
  LET top == Last(t.frames)
      p   == [t EXCEPT !.frames = Front(@)]
      s   == IF top # <<>> THEN p
             ELSE IF MetaStamps(t, m) THEN [Chmodded(p, "source") EXCEPT !.stamped = TRUE]
             ELSE p
  IN  IF MetaFails(t, m) THEN CopyFails([s EXCEPT !.stamped = FALSE]) ELSE s

\* The next entry of the source.
CopyStep ==
  /\ tc.at = "walk" /\ tc.entry = None
  /\ \E r \in TurnOf(tc.it, {}) :
       tc' = IF r.res = None THEN [tc EXCEPT !.it = r.it]
             ELSE IF r.res.kind = "err" THEN CopyFails([tc EXCEPT !.it = r.it])
             ELSE IF r.res.kind = "end" THEN [tc EXCEPT !.at = "finish"]
             ELSE [tc EXCEPT !.it = r.it, !.entry = r.res]

\* Ascend to the entry's parent; frames.last().unwrap() must find one.
Ascend ==
  /\ tc.at = "walk" /\ tc.entry # None
  /\ IF tc.frames = <<>> THEN tc' = [tc EXCEPT !.at = "panic"]
     ELSE /\ Last(tc.frames) # Front(tc.entry.path)
          /\ \E m \in Metadata(tc) : tc' = FinishDir(tc, m)

AtParent == /\ tc.at = "walk" /\ tc.entry # None /\ tc.frames # <<>>
            /\ Last(tc.frames) = Front(tc.entry.path)

\* mkdir_at: a name already there is accepted under exist_ok alone.
MkdirAt(t) == t.entry.path \in Present => t.c.existOk

\* A directory: the .zfs control directory and the destination itself are not
\* entered.
NotEntered(path) ==
  path = DstSelf \/ (Last(path) = ".zfs" /\ path \in CtlDirs)

\* Mutant: the skipped directory's entries are still walked.
CopyDirDescends ==
  /\ AtParent /\ tc.entry.type = "dir"
  /\ tc' = IF NotEntered(tc.entry.path) THEN [tc EXCEPT !.entry = None]
           ELSE [tc EXCEPT !.dst = @ \cup {tc.entry.path}, !.entry = None,
                           !.frames = Append(@, tc.entry.path)]

CopyDir ==
  /\ AtParent /\ tc.entry.type = "dir"
  /\ \/ /\ NotEntered(tc.entry.path)
        /\ tc' = [tc EXCEPT !.it = SkipDescentOf(@), !.entry = None]
     \/ /\ ~NotEntered(tc.entry.path)
        /\ MkdirAt(tc)
        /\ tc' = [tc EXCEPT !.dst = @ \cup {tc.entry.path}, !.entry = None,
                            !.frames = Append(@, tc.entry.path)]
     \/ /\ ~NotEntered(tc.entry.path)
        /\ tc' = CopyFails(tc)

\* make_file, make_symlink, make_special: the node is created under its own
\* name, or beside the one already there.
CopyLeaf ==
  /\ AtParent /\ tc.entry.type # "dir" /\ ~tc.temp /\ tc.entry.path \notin tc.partial
  /\ \/ /\ tc.entry.path \notin Present
        /\ tc' = [tc EXCEPT !.partial = @ \cup {tc.entry.path}]
     \/ /\ tc.entry.path \in Present /\ tc.c.existOk
        /\ tc' = [tc EXCEPT !.temp = TRUE]
     \/ tc' = CopyFails(tc)

\* copy_into and the metadata; then the staged node is renamed over the name.
LeafDone ==
  /\ AtParent /\ (tc.temp \/ tc.entry.path \in tc.partial)
  /\ \E copied \in BOOLEAN, m \in Metadata(tc), renamed \in BOOLEAN :
       LET ok == copied /\ ~MetaFails(tc, m) /\ (tc.temp => renamed)
       IN  tc' = IF ok THEN [tc EXCEPT !.dst = @ \cup {tc.entry.path}, !.temp = FALSE,
                               !.partial = @ \ {tc.entry.path}, !.entry = None]
                 ELSE CopyFails([tc EXCEPT !.temp = FALSE])

\* The remaining directories, root last.
CopyFinish ==
  /\ tc.at = "finish" /\ tc.frames # <<>>
  /\ \E m \in Metadata(tc) : tc' = FinishDir(tc, m)

\* traverse_child_mounts: once the source's own filesystem is copied, each
\* mount below it into the directory of that name, which must be there already.
\* Its copy is a copy_one_mount like the first, taken here as one step.
TraverseChildMounts ==
  /\ tc.at = "finish" /\ tc.frames = <<>>
  /\ \E m \in tc.left :
       tc' \in {CopyFails(tc)}
              \cup (IF m \in tc.dst
                   THEN {[tc EXCEPT !.left = @ \ {m}, !.crossed = @ \cup {m}]} ELSE {})

\* The root's own mode goes back: on a failure always, at the end unless the
\* source's was stamped on it.
CopyRestoreByFlag ==
  \/ /\ tc.at = "finish" /\ tc.frames = <<>> /\ tc.left = {}
     /\ tc' = [(IF tc.borrowed /\ ~tc.c.perms THEN Chmodded(tc, "own") ELSE tc)
                 EXCEPT !.at = "ok"]
  \/ /\ tc.at = "failed"
     /\ tc' = [(IF tc.borrowed THEN Chmodded(tc, "own") ELSE tc) EXCEPT !.at = "err"]

CopyRestore ==
  \/ /\ tc.at = "finish" /\ tc.frames = <<>> /\ tc.left = {}
     /\ \/ tc' = [(IF tc.borrowed /\ ~tc.stamped THEN Chmodded(tc, "own") ELSE tc)
                    EXCEPT !.at = "ok"]
        \/ /\ tc.borrowed /\ ~tc.stamped
           /\ tc' = [tc EXCEPT !.at = "err", !.chmodLost = TRUE]
  \/ /\ tc.at = "failed"
     /\ \/ tc' = [(IF tc.borrowed THEN Chmodded(tc, "own") ELSE tc) EXCEPT !.at = "err"]
        \/ tc' = [tc EXCEPT !.at = "err", !.chmodLost = TRUE]

CopyNext ==
  \/ CopyStart \/ CopyStep \/ Ascend \/ CopyDir \/ CopyLeaf \/ LeafDone
  \/ CopyFinish \/ TraverseChildMounts \/ CopyRestore

-----------------------------------------------------------------------------
\* copytree never leaves a root it did not make at the owner-only hold: on
\* every way out it has its own mode, or the source's after a whole copy, save
\* where the chmod back itself failed, which is never an Ok.
RootReleased ==
  tc.at \in {"ok", "err"} /\ tc.there =>
    /\ tc.mode = "hold" => tc.chmodLost /\ tc.at = "err"
    /\ tc.mode = "source" => tc.at = "ok" \/ tc.chmodLost \/ ~tc.borrowed

\* The destination stack follows the iterator (the parent of an entry is always
\* on it), an Ok means every entry of the source arrived whole, every mount below
\* it included where asked for, and nothing of the destination or of a .zfs
\* control directory is copied.
CopyExact ==
  LET Apart(p) == \E d \in CtlDirs \cup ({DstSelf} \ {None}) : Under(d, p)
  IN  /\ tc.at # "panic"
      /\ tc.at = "ok" =>
           \A p \in Wanted(CopyIter.opts) : Apart(p) \/ p \in tc.dst \ tc.partial
      /\ tc.at = "ok" /\ tc.c.traverse => tc.crossed = ChildMounts
      /\ \A p \in tc.dst \ Present : ~Apart(p)
=============================================================================
