---------------------------- MODULE AtomicWrite ----------------------------
(***************************************************************************)
(* atomic_write (src/sync_fs/atomic.rs): writers that publish whole files  *)
(* under one name by a rename, beside each other and beside a process that *)
(* removes or creates the target, on a machine that may crash.  The disk   *)
(* keeps what was synced; of the directory operations since the last       *)
(* directory fsync it keeps some prefix.                                   *)
(***************************************************************************)
EXTENDS Integers, Sequences, SequencesExt

CONSTANTS
  Writers,
  Noclobber,    \* those of them that set noclobber
  MaxForeign,   \* changes of the target by another process
  None

VARIABLE aw

\* A name is the target or a writer's staging name (128 random bits: unique).
Target == "target"
Names == {Target} \cup Writers
Foreign == "foreign"

\* An inode is named for who made it.  A directory under the target name is
\* another process's too.
Inode == [data |-> "none", mode |-> "private", synced |-> FALSE]

AtomicInit ==
  \E old \in {None, Foreign, "dir"} :
    LET dir == [n \in Names |-> IF n = Target THEN old ELSE None]
    IN  aw = [dir |-> dir, ver |-> 0, snaps |-> <<[dir |-> dir, ver |-> 0]>>,
              inode |-> [w \in Writers |-> Inode],
              at |-> [w \in Writers |-> "start"], foreign |-> 0,
              floor |-> 0, crashed |-> FALSE]

\* The kernel: a change of the directory is seen at once, and is on the disk
\* some time later (external).
Changed(a, dir) ==
  LET ver == IF dir[Target] # a.dir[Target] THEN a.ver + 1 ELSE a.ver
  IN  [a EXCEPT !.dir = dir, !.ver = ver,
                !.snaps = Append(@, [dir |-> dir, ver |-> ver])]
Unlinked(a, n) ==
  IF a.dir[n] \in {None, "dir"} THEN a ELSE Changed(a, [a.dir EXCEPT ![n] = None])
Renamed(a, from) == Changed(a, [a.dir EXCEPT ![Target] = a.dir[from], ![from] = None])
Exchanged(a, from) == Changed(a, [a.dir EXCEPT ![Target] = a.dir[from],
                                               ![from] = a.dir[Target]])

Goes(a, w, to) == [a EXCEPT !.at[w] = to]
Up(w, at) == ~aw.crashed /\ aw.at[w] = at

\* The parent is opened and the target looked at; either may fail.
Inspect(w) ==
  /\ Up(w, "start")
  /\ aw' \in {Goes(aw, w, "err")}
            \cup {Goes(aw, w, "temp") : x \in {w} \ {v \in Noclobber : aw.dir[Target] # None}}

\* create_temp: the staging file, under a name nobody has.
CreateTemp(w) ==
  /\ Up(w, "temp")
  /\ \/ aw' = Goes(Changed(aw, [aw.dir EXCEPT ![w] = w]), w, "write")
     \/ aw' = Goes(aw, w, "err")

\* write_fn, in pieces; it may fail, and the staging file goes.
WriteFn(w) ==
  /\ Up(w, "write")
  /\ \/ aw' = [aw EXCEPT !.inode[w].data = "part"]
     \/ aw' = Goes([aw EXCEPT !.inode[w].data = "whole"], w, "owner")
     \/ aw' = Goes(Unlinked(aw, w), w, "err")

SetOwnerAndMode(w) ==
  /\ Up(w, "owner")
  /\ \/ aw' = Goes([aw EXCEPT !.inode[w].mode = "asked"], w, "sync")
     \/ aw' = Goes(Unlinked(aw, w), w, "err")

SyncAllSkipped(w) ==
  /\ Up(w, "sync")
  /\ aw' = Goes(aw, w, "probe")

SyncAll(w) ==
  /\ Up(w, "sync")
  /\ \/ aw' = Goes([aw EXCEPT !.inode[w].synced = TRUE], w, "probe")
     \/ aw' = Goes(Unlinked(aw, w), w, "err")

\* rename_into_place: with noclobber one rename that replaces nothing, else a
\* look at the target, which decides between exchange and plain rename.
RenameProbe(w) ==
  /\ Up(w, "probe")
  /\ aw' = IF w \in Noclobber
           THEN IF aw.dir[Target] = None THEN Goes(Renamed(aw, w), w, "fsync")
                ELSE Goes(Unlinked(aw, w), w, "err")
           ELSE Goes(aw, w, IF aw.dir[Target] \in {None, "dir"} THEN "plain"
                            ELSE "exchange")

RenameExchange(w) ==
  /\ Up(w, "exchange")
  /\ aw' = IF aw.dir[Target] = None THEN Goes(aw, w, "plain")
           ELSE Goes(Exchanged(aw, w), w, "unlink")

UnlinkOld(w) ==
  /\ Up(w, "unlink")
  /\ aw' = Goes(Unlinked(aw, w), w, "fsync")

RenamePlain(w) ==
  /\ Up(w, "plain")
  /\ aw' = IF aw.dir[Target] = "dir" THEN Goes(Unlinked(aw, w), w, "err")
           ELSE Goes(Renamed(aw, w), w, "fsync")

\* fsync_dir: what was published is on the disk before the call returns Ok.
FsyncDirSkipped(w) ==
  /\ Up(w, "fsync")
  /\ aw' = Goes([aw EXCEPT !.floor = aw.ver], w, "ok")

FsyncDir(w) ==
  /\ Up(w, "fsync")
  /\ \/ aw' = Goes([aw EXCEPT !.snaps = <<Last(@)>>, !.floor = aw.ver], w, "ok")
     \/ aw' = Goes(aw, w, "err")

\* Another process removes the target, or puts a file of its own there.
ForeignChange ==
  /\ ~aw.crashed /\ aw.foreign < MaxForeign /\ aw.dir[Target] # "dir"
  /\ \E to \in {None, Foreign} \ {aw.dir[Target]} :
       aw' = [Changed(aw, [aw.dir EXCEPT ![Target] = to]) EXCEPT !.foreign = @ + 1]

\* The directory is at some moment since its last fsync; a file not synced may
\* be torn.
Crash ==
  /\ ~aw.crashed
  /\ \E s \in ToSet(aw.snaps) :
       aw' = [aw EXCEPT !.crashed = TRUE, !.dir = s.dir, !.ver = s.ver,
                !.inode = [w \in Writers |->
                   IF aw.inode[w].synced THEN aw.inode[w]
                   ELSE [aw.inode[w] EXCEPT !.data = "torn"]]]

AtomicNext ==
  \/ \E w \in Writers :
       \/ Inspect(w) \/ CreateTemp(w) \/ WriteFn(w) \/ SetOwnerAndMode(w) \/ SyncAll(w)
       \/ RenameProbe(w) \/ RenameExchange(w) \/ UnlinkOld(w)
       \/ RenamePlain(w) \/ FsyncDir(w)
  \/ ForeignChange \/ Crash

-----------------------------------------------------------------------------
\* Whoever opens the target, at any moment and after any crash, finds a whole
\* file with its owner and mode set, and never a staging file still private;
\* what a call that returned Ok published is not undone by a crash.
TargetWhole ==
  /\ \A w \in Writers : aw.dir[Target] = w =>
       aw.inode[w].data = "whole" /\ aw.inode[w].mode = "asked"
  /\ aw.ver >= aw.floor

\* When every writer has returned and nothing crashed, no staging name is left,
\* and no writer's inode is both published and staged.
NoLitter ==
  /\ ~aw.crashed /\ (\A w \in Writers : aw.at[w] \in {"ok", "err"}) =>
       \A w \in Writers : aw.dir[w] = None
  /\ \A w, x \in Names : aw.dir[w] = aw.dir[x] /\ aw.dir[w] \in Writers => w = x
=============================================================================
