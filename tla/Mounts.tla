------------------------------- MODULE Mounts -------------------------------
(***************************************************************************)
(* The mount helpers (src/mount): listing the mounts beneath one           *)
(* (listmount, iter_mountinfo), the recursive umount with its              *)
(* deepest-first order, and the cache of idmapped user namespaces with the *)
(* helper process each is minted through.                                  *)
(*                                                                         *)
(* A mount is a record of its parent and its mount point, a sequence of    *)
(* names; mount ids say nothing of depth.  mo is the unmount, im the cache.*)
(***************************************************************************)
EXTENDS Integers, FiniteSets, Sequences, SequencesExt, FiniteSetsExt

CONSTANTS
  MountIds,    \* ids, a set of numbers; the target is one of them
  Target,
  Trees,       \* the mount tables to start from: functions from ids to mounts
  UmountModes, \* [recursive, detach, force, expire, follow, names, busy, marked,
               \* oldKernel]: the options, what the path names, the mounts in
               \* use and those an earlier MNT_EXPIRE has marked
  Batch,       \* listmount's BATCH
  MaxForeign,  \* mounts and unmounts by others
  Getters,     \* threads calling get_or_create
  MaxNs,       \* namespaces minted
  MaxClears,
  None

VARIABLES mo, im

Gone == [parent |-> 0, point |-> <<"-">>, snap |-> FALSE]

(***************************************************************************)
(* The kernel's mount table.                                               *)
(***************************************************************************)
Mounted(t)      == {i \in MountIds : t[i] # Gone}
Children(t, i)  == {j \in Mounted(t) : t[j].parent = i}
RECURSIVE Below(_, _)
Below(t, i) == Children(t, i) \cup UNION {Below(t, j) : j \in Children(t, i)}

\* The mount a path leads to: of those stacked there, the one on top.
TopAt(t, p) ==
  LET here == {i \in Mounted(t) : t[i].point = p}
  IN {i \in here : \A j \in here : t[j].parent # i}

Without(t, gone) == [i \in MountIds |-> IF i \in gone THEN Gone ELSE t[i]]

\* umount2(2).  MNT_EXPIRE goes with neither of the others, and the first call
\* only marks the mount; MNT_FORCE changes nothing on ZFS.
Umount2(t, p, mode) ==
  LET top == TopAt(t, p)
      refused(r) == [t |-> t, r |-> r]
  IN IF top = {} \/ (mode.expire /\ (mode.force \/ mode.detach)) THEN refused("EINVAL")
     ELSE LET i == CHOOSE x \in top : TRUE
          IN IF mode.detach THEN [t |-> Without(t, {i} \cup Below(t, i)), r |-> "ok"]
             ELSE IF Children(t, i) # {} \/ i \in mode.busy THEN refused("EBUSY")
             ELSE IF mode.expire /\ i \notin mode.marked THEN refused("EAGAIN")
             ELSE [t |-> Without(t, {i}), r |-> "ok"]

(***************************************************************************)
(* umount.                                                                 *)
(***************************************************************************)
UmountInit ==
  \E t \in Trees, mode \in UmountModes :
    mo = [t |-> t, t0 |-> t, mode |-> mode, pc |-> "start", last |-> 0, ids |-> <<>>, infos |-> <<>>,
          points |-> <<>>, ret |-> "none", added |-> {}, foreign |-> 0]

Returned(s, r) == [s EXCEPT !.pc = "returned", !.ret = r]

\* The flags, and the target looked at as the unmount will look at it: under
\* UMOUNT_NOFOLLOW a symlink is no mount point of its own.
IsMountRoot(mode) == mode.names = "mountpoint" \/ (mode.names = "symlink" /\ mode.follow)
UmountStart ==
  /\ mo.pc = "start"
  /\ mo' = IF ~mo.mode.recursive THEN [mo EXCEPT !.pc = "target"]
           ELSE IF IsMountRoot(mo.mode) THEN [mo EXCEPT !.pc = "list"]
           ELSE Returned(mo, "Validation")

\* One listmount call: ids in ascending order after the last one seen.
ListMount ==
  /\ mo.pc = "list"
  /\ LET all == {i \in Below(mo.t, Target) : i > mo.last}
         now == SubSeq(SetToSortSeq(all, <), 1, IF Cardinality(all) < Batch THEN Cardinality(all) ELSE Batch)
     IN mo' = IF Len(now) < Batch THEN [mo EXCEPT !.ids = @ \o now, !.pc = "info"]
              ELSE [mo EXCEPT !.ids = @ \o now, !.last = now[Len(now)]]

\* iter_mountinfo: statmount of the next id, with the newest fields if the
\* kernel knows them; one that has vanished is passed over.
StatmountInfo(t, i, old) ==
  [id |-> i, parent |-> t[i].parent, point |-> t[i].point, source |-> IF old THEN None ELSE t[i].snap]
IsZfsSnapshot(sm) == sm.source = TRUE
IncludeSnapshots  == TRUE
IterMountinfo ==
  /\ mo.pc = "info" /\ mo.ids # <<>>
  /\ mo' = [mo EXCEPT !.ids = Tail(@),
                      !.infos = LET sm == StatmountInfo(mo.t, Head(mo.ids), mo.mode.oldKernel)
                                IN IF mo.t[Head(mo.ids)] # Gone /\ (IncludeSnapshots \/ ~IsZfsSnapshot(sm))
                                   THEN Append(@, sm) ELSE @]

\* depth_of: parent links followed as far as the listing has them.
RECURSIVE DepthOf(_, _, _)
DepthOf(infos, i, d) ==
  LET of == {k \in DOMAIN infos : infos[k].id = i}
  IN IF i = Target \/ d > Len(infos) \/ of = {} THEN d
     ELSE DepthOf(infos, infos[CHOOSE k \in of : TRUE].parent, d + 1)

\* Mutant: the reverse listing taken for children first.
OrderedByAge(infos) == Reverse(infos)

\* The stable sort by depth, deepest first.
Ordered(infos) ==
  LET D(k) == DepthOf(infos, infos[k].id, 0)
      rank == SetToSortSeq(DOMAIN infos, LAMBDA a, b : D(a) > D(b) \/ (D(a) = D(b) /\ a < b))
  IN [k \in DOMAIN infos |-> infos[rank[k]]]

DescendantsDeepestFirst ==
  /\ mo.pc = "info" /\ mo.ids = <<>>
  /\ mo' = [mo EXCEPT !.points = [k \in DOMAIN mo.infos |-> Ordered(mo.infos)[k].point], !.pc = "children"]

UmountChild ==
  /\ mo.pc = "children" /\ mo.points # <<>>
  /\ LET u == Umount2(mo.t, Head(mo.points), mo.mode)
     IN mo' = IF u.r = "ok" THEN [mo EXCEPT !.t = u.t, !.points = Tail(@)] ELSE Returned(mo, u.r)

ChildrenDone == mo.pc = "children" /\ mo.points = <<>> /\ mo' = [mo EXCEPT !.pc = "target"]

UmountTarget ==
  /\ mo.pc = "target"
  /\ LET u == IF IsMountRoot(mo.mode) THEN Umount2(mo.t, <<>>, mo.mode) ELSE [t |-> mo.t, r |-> "EINVAL"]
     IN mo' = Returned([mo EXCEPT !.t = u.t], u.r)

\* Others unmount something beneath the target, or mount something new there.
ForeignUmount(i) ==
  /\ mo.foreign < MaxForeign /\ mo.pc # "returned"
  /\ i \in Below(mo.t, Target) /\ Children(mo.t, i) = {}
  /\ mo' = [mo EXCEPT !.t = Without(@, {i}), !.foreign = @ + 1]

ForeignMount(i, on) ==
  /\ mo.foreign < MaxForeign /\ mo.pc # "returned"
  /\ mo.t[i] = Gone /\ mo.t0[i] = Gone /\ on \in {Target} \cup Below(mo.t, Target) /\ mo.t[Target] # Gone
  /\ LET p == Append(mo.t[on].point, "new")
     IN /\ TopAt(mo.t, p) = {} /\ TopAt(mo.t, mo.t[on].point) = {on}
        /\ mo' = [mo EXCEPT !.t[i] = [parent |-> on, point |-> p, snap |-> FALSE], !.added = @ \cup {i}, !.foreign = @ + 1]

UmountNext ==
  \/ UmountStart \/ ListMount \/ IterMountinfo \/ DescendantsDeepestFirst
  \/ UmountChild \/ ChildrenDone \/ UmountTarget
  \/ \E i \in MountIds : ForeignUmount(i)
  \/ \E i, on \in MountIds : ForeignMount(i, on)

(***************************************************************************)
(* IdmapCache: get_or_create and clear, and the helper a namespace is      *)
(* minted through (create_userns_fd).                                      *)
(***************************************************************************)
\* entry: the cached namespace; pc, ns: per thread, ns the fd it holds or got;
\* kids: helper processes not yet reaped; fds: namespaces with an open fd
\* beside those threads hold.
IdmapInit ==
  im = [entry |-> 0, pc |-> [g \in Getters |-> "idle"], ns |-> [g \in Getters |-> 0], got |-> [g \in Getters |-> <<>>],
        minted |-> 0, kids |-> {}, killed |-> {}, epoch |-> 0, since |-> [g \in Getters |-> 0]]

\* The lookup, under the lock; dup may fail.
GetCached(g) ==
  /\ im.pc[g] = "idle"
  /\ \/ im.entry = 0 /\ im' = [im EXCEPT !.pc[g] = "fork", !.since[g] = im.epoch]
     \/ im.entry # 0 /\ im' = [im EXCEPT !.got[g] = <<im.entry, im.epoch>>, !.pc[g] = "done"]
     \/ im.entry # 0 /\ im' = [im EXCEPT !.pc[g] = "failed"]

\* create_userns_fd: clone3, then the three writes and the ioctl, any of which
\* may fail; the helper is killed and reaped whichever way it went.
ForkHelper(g) ==
  /\ im.pc[g] = "fork"
  /\ \/ im' = [im EXCEPT !.pc[g] = "map", !.kids = @ \cup {g}]
     \/ im' = [im EXCEPT !.pc[g] = "failed"]
MapHelper(g) ==
  /\ im.pc[g] = "map" /\ im.minted < MaxNs
  /\ \/ im' = [im EXCEPT !.pc[g] = "kill", !.minted = @ + 1, !.ns[g] = im.minted + 1]
     \/ im' = [im EXCEPT !.pc[g] = "kill"]
KillHelper(g) ==
  /\ im.pc[g] = "kill" /\ im' = [im EXCEPT !.killed = @ \cup {g}, !.pc[g] = "reap"]
ReapHelper(g) ==
  /\ im.pc[g] = "reap" /\ g \in im.killed
  /\ im' = [im EXCEPT !.kids = @ \ {g}, !.killed = @ \ {g}, !.pc[g] = IF im.ns[g] = 0 THEN "failed" ELSE "insert"]

\* Mutant: the latest one replaces what is cached.
Winner(g) == im.ns[g]

\* entry().or_insert: the first one in is kept, the loser's is dropped.
Kept(g) == IF im.entry = 0 THEN im.ns[g] ELSE im.entry
Insert(g) ==
  /\ im.pc[g] = "insert"
  /\ LET k == Kept(g)
         kept == [im EXCEPT !.entry = k, !.ns[g] = 0]
     IN \/ im' = [kept EXCEPT !.got[g] = <<k, im.epoch>>, !.pc[g] = "done"]
        \/ im' = [kept EXCEPT !.pc[g] = "failed"]

Clear == im.epoch < MaxClears /\ im' = [im EXCEPT !.entry = 0, !.epoch = @ + 1]

\* The caller goes on to another call, keeping the fd it got.
Again(g) == im.pc[g] \in {"failed"} /\ im' = [im EXCEPT !.pc[g] = "idle"]

IdmapNext ==
  \/ Clear
  \/ \E g \in Getters : GetCached(g) \/ ForkHelper(g) \/ MapHelper(g) \/ KillHelper(g) \/ ReapHelper(g) \/ Insert(g) \/ Again(g)

(***************************************************************************)
(* Properties.                                                             *)
(***************************************************************************)
\* A recursive unmount that nobody disturbs, that nothing keeps busy and that is
\* no MNT_EXPIRE of a mount not marked yet takes down the target with everything
\* beneath it, whatever the ids; whoever mounts and
\* unmounts meanwhile, Ok means nothing is left of the target's tree, nothing
\* outside it is ever taken down, and a path that is no mount point under the
\* unmount's own symlink rule takes nothing down at all.
UmountExact ==
  /\ /\ mo.pc = "returned" /\ mo.foreign = 0 /\ mo.mode.busy = {}
     /\ IsMountRoot(mo.mode) /\ mo.mode.recursive
     /\ mo.mode.expire =>
          ~mo.mode.force /\ ~mo.mode.detach /\ {Target} \cup Below(mo.t0, Target) \subseteq mo.mode.marked
     => mo.ret = "ok"
  /\ mo.ret = "ok" => TopAt(mo.t, <<>>) = {} /\ Below(mo.t, Target) = {}
  /\ \A i \in Mounted(mo.t0) : i \notin {Target} \cup Below(mo.t0, Target) => mo.t[i] = mo.t0[i]
  /\ ~IsMountRoot(mo.mode) => mo.t[Target] = mo.t0[Target]

\* Two calls with the same maps that return between the same two clears return
\* the same namespace, and no call returns before the helper process it forked
\* is reaped.
NamespaceShared ==
  /\ \A g, h \in Getters : im.got[g] # <<>> /\ im.got[h] # <<>> /\ im.got[g][2] = im.got[h][2] => im.got[g] = im.got[h]
  /\ \A g \in im.kids : im.pc[g] \in {"map", "kill", "reap"}
=============================================================================
