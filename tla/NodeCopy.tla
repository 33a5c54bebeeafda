------------------------------ MODULE NodeCopy ------------------------------
(***************************************************************************)
(* One leaf of a tree copy (src/sync_fs/shutil): make_file, make_symlink   *)
(* and make_special, the data loops of copy.rs and the metadata each kind  *)
(* of node is given, call by call.  Any call may fail, and somebody with   *)
(* access to the destination directory may swap what a name refers to.     *)
(*                                                                         *)
(* A mode is the set of what it grants beyond the owner: "others" and      *)
(* "setid".  The source's owner is "them", the copying process "us".  The  *)
(* source's xattrs are of three kinds: "acl" (an access ACL), "user" and   *)
(* "security".                                                             *)
(***************************************************************************)
EXTENDS Integers, FiniteSets

CONSTANTS
  Sources,    \* [kind, mode, xattrs, len]
  CopyModes,  \* [flags, raise, existOk, there, inherits, op, meddling]
  None

VARIABLE nd

Us == "us"
Them == "them"
NewNode(kind, mode) ==
  [kind |-> kind, by |-> Us, owner |-> Us, mode |-> mode, xattrs |-> {}, len |-> 0, links |-> 1, times |-> FALSE]

\* What stood at the name before, and what somebody may plant: another kind of
\* node, or a further name of a file of theirs.
Old(kind)         == [NewNode(kind, {}) EXCEPT !.by = "old"]
Planted(kind, l)  == [NewNode(kind, {}) EXCEPT !.by = "planted", !.owner = Them, !.links = l]

\* nodes: what exists; at, tmp: what the two names refer to; pin: the node held
\* open.  Node 1 is the old one, 2 the copy, 3 the planted one.
NodeInit ==
  \E s \in Sources, c \in CopyModes :
    nd = [src |-> s, cfg |-> c, pc |-> "create", pos |-> 0, how |-> None, sent |-> 0,
          node |-> [i \in 1..3 |-> IF i = 1 /\ c.there THEN Old("file") ELSE None],
          at |-> IF c.there THEN 1 ELSE 0, tmp |-> 0, staged |-> FALSE, pin |-> 0, peek |-> 0,
          left |-> c.meddling, failed |-> {}, ret |-> "none"]

Flag(f) == f \in nd.cfg.flags
Ret(s, r) == [s EXCEPT !.ret = r, !.pc = "returned"]
Named(s) == IF s.staged THEN s.tmp ELSE s.at

(***************************************************************************)
(* The destination filesystem.                                             *)
(***************************************************************************)
\* A node under a directory whose ACL is inherited gets its mode from it, and
\* chmod answers EPERM.
ModeAtCreate(c, asked) == IF c.inherits THEN {"others"} ELSE asked
Chmod(s, i, m) == IF s.cfg.inherits THEN s ELSE [s EXCEPT !.node[i].mode = m]

\* chown of a non-directory clears the set-id bits.
Chown(s, i) == [s EXCEPT !.node[i].owner = Them, !.node[i].mode = @ \ {"setid"}]

\* Mutant: the source's mode from the start.
CreationModeSource(s) == s.src.mode

\* creation_mode: a hold when the source's mode lands later.
CreationMode(s) == IF "PERMISSIONS" \in s.cfg.flags THEN {} ELSE {"others"}

(***************************************************************************)
(* Creating the node: under its name, or beside what has the name.         *)
(***************************************************************************)
Created(s) == NewNode(s.src.kind, IF s.src.kind = "symlink" THEN {"others"} ELSE ModeAtCreate(s.cfg, CreationMode(s)))
Place(pin, next) ==
  LET new == [nd EXCEPT !.node[2] = Created(nd), !.pin = pin, !.pc = next]
  IN \/ nd.at = 0 /\ nd' = [new EXCEPT !.at = 2]
     \/ nd.at # 0 /\ nd.cfg.existOk /\ nd' = [new EXCEPT !.tmp = 2, !.staged = TRUE]
     \/ nd' = Ret(nd, "err")

\* A file is held open from its creation; the other kinds are only named.
MakeFile    == nd.pc = "create" /\ nd.src.kind = "file" /\ Place(2, "list")
MakeSymlink == nd.pc = "create" /\ nd.src.kind = "symlink" /\ Place(0, "peek")
MakeSpecial == nd.pc = "create" /\ nd.src.kind \notin {"file", "symlink"} /\ Place(0, "peek")

\* Somebody swaps what the node's name refers to.
Meddle(l, kind) ==
  /\ nd.left > 0 /\ nd.pc \in {"peek", "open", "meta"} /\ Named(nd) # 3
  /\ nd' = [nd EXCEPT !.left = @ - 1, !.node[3] = Planted(kind, l),
                      !.at = IF nd.staged THEN @ ELSE 3, !.tmp = IF nd.staged THEN 3 ELSE @]

\* A failure after creation: the staged node is removed (the unlink is taken to
\* succeed), one under its own name stays as far as it got.
Abandon(s) == Ret([s EXCEPT !.tmp = 0, !.pin = 0], "err")

\* guard: raise_error decides.
Guarded(s, what, next) ==
  IF s.cfg.raise THEN Abandon(s) ELSE [s EXCEPT !.failed = @ \cup {what}, !.pc = next]

(***************************************************************************)
(* The data of a file: clonefile, copysendfile and copyuserspace.          *)
(***************************************************************************)
FirstHow(op) == IF op = "default" THEN "clone" ELSE op

\* list_xattrs, before the data.
ListXattrs ==
  /\ nd.pc = "list"
  /\ LET go == [nd EXCEPT !.pc = "data", !.how = FirstHow(nd.cfg.op)]
     IN \/ nd' = [go EXCEPT !.peek = 1]
        \/ /\ nd.cfg.flags \cap {"PERMISSIONS", "XATTRS"} # {}
           /\ nd' = (IF nd.cfg.raise THEN Abandon(nd) ELSE [go EXCEPT !.failed = {"list"}])

Listed(s) == IF "list" \in s.failed THEN {} ELSE s.src.xattrs

\* One call moves n bytes at both descriptors' positions.
Transfer(n) ==
  /\ nd.pc = "data" /\ n \in 1..(nd.src.len - nd.pos)
  /\ nd' = [nd EXCEPT !.pos = @ + n, !.node[nd.pin].len = @ + n, !.sent = @ + n]

\* EXDEV sends clonefile to sendfile, where it left off.
FallBack ==
  /\ nd.pc = "data" /\ nd.how = "clone" /\ nd.cfg.op = "default"
  /\ nd' = [nd EXCEPT !.how = "sendfile", !.sent = 0]

\* Mutant: sendfile's word that the file is empty is taken.
EndOfDataTrusting ==
  /\ nd.pc = "data"
  /\ \/ nd.pos = nd.src.len /\ nd' = [nd EXCEPT !.pc = "chown"]
     \/ nd.how = "sendfile" /\ nd.pos = 0 /\ nd' = [nd EXCEPT !.pc = "chown"]

\* The end of the source: sendfile that moved nothing onto an empty file tries
\* read and write.  A file sendfile cannot read looks empty to it.
EndOfData ==
  /\ nd.pc = "data"
  /\ \/ /\ nd.pos = nd.src.len
        /\ nd' = IF nd.how = "sendfile" /\ nd.sent = 0 /\ nd.pos = 0
                 THEN [nd EXCEPT !.how = "userspace"] ELSE [nd EXCEPT !.pc = "chown"]
     \/ /\ nd.how = "sendfile" /\ nd.pos = 0
        /\ nd' = [nd EXCEPT !.how = "userspace"]

DataFails == nd.pc = "data" /\ nd' = Abandon(nd)

(***************************************************************************)
(* copy_metadata and apply_timestamps, through the descriptor.             *)
(***************************************************************************)
\* An ownership failure is never passed over.
ChownStep ==
  /\ nd.pc = "chown"
  /\ \/ Flag("OWNER") /\ nd' \in {[Chown(nd, nd.pin) EXCEPT !.pc = "perms"], Abandon(nd)}
     \/ ~Flag("OWNER") /\ nd' = [nd EXCEPT !.pc = "perms"]

\* copy_permissions: the access ACL if there is one, else the mode without its
\* set-id bits.
Permitted(s, i) ==
  IF "acl" \in Listed(s) THEN [s EXCEPT !.node[i].xattrs = @ \cup {"acl"}, !.node[i].mode = s.src.mode \ {"setid"}]
  ELSE Chmod(s, i, s.src.mode \ {"setid"})

\* release_creation_hold: what copy_permissions could not do, the mode alone
\* does, unless an ACL has landed.
Unheld(s, i) == IF "acl" \in s.node[i].xattrs THEN s ELSE Chmod(s, i, s.src.mode \ {"setid"})

PermsStep ==
  /\ nd.pc = "perms"
  /\ \/ ~Flag("PERMISSIONS") /\ nd' = [nd EXCEPT !.pc = "xattrs"]
     \/ Flag("PERMISSIONS") /\ nd' = [Permitted(nd, nd.pin) EXCEPT !.pc = "xattrs"]
     \/ Flag("PERMISSIONS") /\ \E t \in {nd, Unheld(nd, nd.pin)} : nd' = Guarded(t, "perms", "xattrs")

\* Mutant: every namespace travels.
CarriedAll(names) == names \ {"acl"}

\* copy_xattrs: the reserved namespaces stay behind.
Carried(names) == names \ {"acl", "security"}

XattrStep ==
  /\ nd.pc = "xattrs"
  /\ \/ ~Flag("XATTRS") /\ nd' = [nd EXCEPT !.pc = "setid"]
     \/ Flag("XATTRS") /\ nd' = [nd EXCEPT !.node[nd.pin].xattrs = @ \cup Carried(Listed(nd)), !.pc = "setid"]
     \/ Flag("XATTRS") /\ nd' = Guarded(nd, "xattrs", "setid")

\* copy_setid: with the source's ownership only, and not over an ACL.
OwesSetid(s) == {"OWNER", "PERMISSIONS"} \subseteq s.cfg.flags
SetidStep ==
  /\ nd.pc = "setid"
  /\ \/ ~OwesSetid(nd) /\ nd' = [nd EXCEPT !.pc = "times"]
     \/ /\ OwesSetid(nd)
        /\ nd' = [(IF "setid" \in nd.src.mode /\ "acl" \notin Listed(nd) THEN Chmod(nd, nd.pin, nd.src.mode) ELSE nd) EXCEPT !.pc = "times"]
     \/ OwesSetid(nd) /\ "setid" \in nd.src.mode /\ nd' = Guarded(nd, "setid", "times")

TimesStep ==
  /\ nd.pc = "times"
  /\ \/ ~Flag("TIMESTAMPS") /\ nd' = [nd EXCEPT !.pc = "settle"]
     \/ Flag("TIMESTAMPS") /\ nd' = [nd EXCEPT !.node[nd.pin].times = TRUE, !.pc = "settle"]
     \/ Flag("TIMESTAMPS") /\ nd' = Guarded(nd, "times", "settle")

(***************************************************************************)
(* make_symlink_meta and make_special_meta: a node no data goes through is *)
(* pinned by name and looked at before it is touched.                      *)
(***************************************************************************)
\* Mutant: a hard link to somebody's node passes.
ChangedType(s, i) == s.node[i].kind # s.src.kind

Changed(s, i) == s.node[i].kind # s.src.kind \/ s.node[i].links # 1

NoMeta(s) ==
  IF s.src.kind = "symlink" THEN s.cfg.flags \cap {"OWNER", "TIMESTAMPS"} = {}
  ELSE s.cfg.flags \cap {"OWNER", "PERMISSIONS", "TIMESTAMPS"} = {}

\* The O_PATH peek; it may fail.
Peeked(next) ==
  \/ nd' = IF Changed(nd, Named(nd)) THEN Abandon(nd)
           ELSE [nd EXCEPT !.peek = Named(nd), !.pin = Named(nd), !.pc = next]
  \/ nd' = Abandon(nd)

\* A symlink is left alone when nothing is asked for; a special file is looked
\* at all the same.
PeekSymlink ==
  /\ nd.pc = "peek" /\ nd.src.kind = "symlink"
  /\ IF NoMeta(nd) THEN nd' = [nd EXCEPT !.pc = "settle"] ELSE Peeked("meta")

PeekSpecial ==
  /\ nd.pc = "peek" /\ nd.src.kind # "symlink"
  /\ Peeked(IF NoMeta(nd) THEN "settle" ELSE IF nd.src.kind = "fifo" THEN "open" ELSE "meta")

\* A FIFO is opened for real, and must be the node that was looked at.
OpenFifo ==
  /\ nd.pc = "open"
  /\ \/ nd' = IF Changed(nd, Named(nd)) \/ Named(nd) # nd.peek THEN Abandon(nd)
              ELSE [nd EXCEPT !.pin = Named(nd), !.pc = "meta"]
     \/ nd' = Abandon(nd)

\* A FIFO takes owner, mode and times; a symlink owner and times; a socket or
\* a device the same, and its mode is refused.
PinnedOwner(s) == IF "OWNER" \in s.cfg.flags THEN Chown(s, s.pin) ELSE s
PinnedTimes(s) == IF "TIMESTAMPS" \in s.cfg.flags THEN [s EXCEPT !.node[s.pin].times = TRUE] ELSE s
FifoMode(s) ==
  IF "PERMISSIONS" \in s.cfg.flags
  THEN Chmod(s, s.pin, IF "OWNER" \in s.cfg.flags THEN s.src.mode ELSE s.src.mode \ {"setid"}) ELSE s

PinnedMeta ==
  /\ nd.pc = "meta"
  /\ LET t == PinnedTimes(PinnedOwner(nd))
     IN \/ Flag("OWNER") /\ nd' = Abandon(nd)
        \/ /\ nd.src.kind = "fifo"
           /\ nd' \in {[PinnedTimes(FifoMode(PinnedOwner(nd))) EXCEPT !.pc = "settle"]}
                      \cup (IF Flag("PERMISSIONS") THEN {Guarded(PinnedTimes(PinnedOwner(nd)), "perms", "settle")} ELSE {})
                      \cup (IF Flag("TIMESTAMPS") THEN {Guarded(FifoMode(PinnedOwner(nd)), "times", "settle")} ELSE {})
        \/ /\ nd.src.kind # "fifo"
           /\ nd' \in (IF nd.src.kind # "symlink" /\ Flag("PERMISSIONS") THEN {Guarded(t, "perms", "settle")}
                       ELSE {[t EXCEPT !.pc = "settle"]})
                      \cup (IF Flag("TIMESTAMPS") THEN {Guarded(PinnedOwner(nd), "times", "settle")} ELSE {})

(***************************************************************************)
(* The end: rename_over puts a staged node in its place.                   *)
(***************************************************************************)
Settle ==
  /\ nd.pc = "settle"
  /\ \/ ~nd.staged /\ nd' = Ret([nd EXCEPT !.pin = 0], "ok")
     \/ nd.staged /\ nd' = Ret([nd EXCEPT !.at = nd.tmp, !.tmp = 0, !.pin = 0], "ok")
     \/ nd.staged /\ nd' = Abandon(nd)

NodeNext ==
  \/ MakeFile \/ MakeSymlink \/ MakeSpecial \/ ListXattrs \/ FallBack \/ EndOfData \/ DataFails
  \/ \E n \in 1..(nd.src.len - nd.pos) : Transfer(n)
  \/ ChownStep \/ PermsStep \/ XattrStep \/ SetidStep \/ TimesStep
  \/ PeekSymlink \/ PeekSpecial \/ OpenFifo \/ PinnedMeta \/ Settle
  \/ \E l \in {1, 2}, kind \in {"file", nd.src.kind} : Meddle(l, kind)

(***************************************************************************)
(* Properties.                                                             *)
(***************************************************************************)
\* While it is made and after, however the copy ends, the new node grants
\* nobody what the source does not (its mode is the copy's to decide only with
\* PERMISSIONS, and where no ACL is inherited), has the set-id bits only with
\* the source's owner, and no attribute of the security namespace; and no
\* metadata lands on a node of somebody else's that was put in its place,
\* unless that is a new node of the same kind.
NodeSealed ==
  /\ nd.node[2] # None =>
       /\ Flag("PERMISSIONS") /\ ~nd.cfg.inherits /\ nd.src.kind # "symlink" => nd.node[2].mode \subseteq nd.src.mode
       /\ "setid" \in nd.node[2].mode => nd.node[2].owner = Them
       /\ "security" \notin nd.node[2].xattrs
  /\ nd.node[3] # None /\ (nd.node[3].links > 1 \/ nd.node[3].kind # nd.src.kind) =>
       nd.node[3].owner = Them /\ nd.node[3].mode = {} /\ ~nd.node[3].times

\* A name that was taken refers to the old node or to a finished one, never to
\* one half written, and a staged node never outlives the call.  An Ok means
\* the whole of the data, and each piece of metadata asked for unless its
\* failure was one the caller chose to pass over.
NodeWhole ==
  /\ nd.cfg.there => (nd.at = 2 => nd.ret = "ok")
  /\ nd.ret # "none" => nd.tmp = 0
  /\ nd.ret = "ok" /\ nd.at = 2 /\ nd.src.kind = "file" =>
       /\ nd.node[2].len = nd.src.len
       /\ Flag("OWNER") => nd.node[2].owner = Them
       /\ Flag("TIMESTAMPS") /\ "times" \notin nd.failed => nd.node[2].times
       /\ Flag("PERMISSIONS") /\ nd.failed = {} /\ ~nd.cfg.inherits =>
            nd.node[2].mode = IF Flag("OWNER") /\ "acl" \notin nd.src.xattrs THEN nd.src.mode ELSE nd.src.mode \ {"setid"}
=============================================================================
