------------------------------ MODULE MCFiles ------------------------------
(***************************************************************************)
(* The file side of the crate, each component on a small instance: the     *)
(* operation table, the task executor, file bodies of replies, the two     *)
(* facades, offloads, the directory and tree walks, the copies, the atomic *)
(* write, ACLs and configuration files.  They meet only in the interfaces  *)
(* each module states, so a behaviour is of one of them: `part` says which *)
(* and s is its state.                                                     *)
(***************************************************************************)
EXTENDS Integers, Sequences, FiniteSets, TLC

CONSTANTS k1, h1, j1, j2, None

VARIABLES part, s

-----------------------------------------------------------------------------
(* The operation table: two slots, a timer cap of one, and a connection    *)
(* that is closed and its slot reused; three calls on a ring with room,    *)
(* and two on one that takes none, one or two entries in a handler.        *)
Ops == INSTANCE FsOps WITH fs <- s, Slots <- {1, 2}, Calls <- 1..3, Conns <- {k1},
                           MaxGen <- 1, Cap <- 1, Rooms <- {2}
Tight == INSTANCE FsOps WITH fs <- s, Slots <- {1, 2}, Calls <- 1..2, Conns <- {k1},
                             MaxGen <- 1, Cap <- 1, Rooms <- 0..2

(* Two task slots and one thread that holds wakers.  The task in the first *)
(* may do two things, the one in the second one.                           *)
Tasks == INSTANCE TaskExec WITH ex <- s, Idx <- {1, 2}, MaxSpawn <- 2, Fuel <- <<2, 1>>, Threads <- {h1}

(* Two connections that share one operation slot, two body buffers of which *)
(* one is posted, and the single tail buffer.                               *)
Replies == INSTANCE FileReply WITH fr <- s, Peers <- {1, 2}, MaxReuse <- 0, OpSlots <- 1,
             Posted0 <- {1}, BodyBids <- {1, 2}, TailBufs <- 1, Lens <- {0, 2},
             Refusals <- BOOLEAN, AnswerBounds <- {<<2, 1>>, <<3, 0>>}

-----------------------------------------------------------------------------
(* Requests through the facades. *)
FacadeFlags == {{}, {"NONBLOCK"}, {"PATH"}, {"DIRECTORY"}, {"CREAT"}, {"TMPFILE", "DIRECTORY"}}
FacadeResolves == SUBSET {"BENEATH", "IN_ROOT", "NO_SYMLINKS"}
FacadeAt == SUBSET {"FOLLOW", "NOFOLLOW"}

Facade == INSTANCE FsFacade WITH fc <- s, Whos <- {"0", "p1", "p2"},
            XattrNames <- {"trusted.ok", "trusted.no"}, Permitted <- {"trusted.ok"},
            OpenFlags <- FacadeFlags, Resolves <- FacadeResolves, AtFlagSets <- FacadeAt

(* Two callers on one small tree that a third party changes as they walk.  *)
PathRequest(op, path, resolve, creates) ==
  [op |-> op, path |-> path, steps |-> <<>>, resolve |-> resolve, creates |-> creates]
ChainRequest(steps) ==
  [op |-> "chain", path |-> <<>>, steps |-> steps, resolve |-> {}, creates |-> FALSE]
ChainStep(path, derived) == [path |-> path, derived |-> derived]
PathEntry(at, name, kind, id) == [at |-> at, name |-> name, kind |-> kind, id |-> id]

PathRequests ==
  [w1 |-> {PathRequest("handle", p, {}, FALSE) : p \in {<<"a", "b">>, <<"a", "..">>}},
   w2 |-> {PathRequest("conn", <<"a", "b">>, {}, FALSE), PathRequest("conn", <<"a">>, {"IN_ROOT"}, FALSE),
           PathRequest("conn", <<"a", "a">>, {}, TRUE), ChainRequest(<<>>),
           ChainRequest(<<ChainStep(<<"a">>, FALSE), ChainStep(<<"b">>, TRUE)>>),
           ChainRequest(<<ChainStep(<<"a", "b">>, FALSE)>>), ChainRequest(<<ChainStep(<<"a">>, TRUE)>>),
           ChainRequest(<<ChainStep(<<"a">>, FALSE), ChainStep(<<"..">>, TRUE)>>)}]
PathTrees ==
  {{}, {PathEntry(0, "a", "dir", 1)}, {PathEntry(0, "a", "link", 0)}, {PathEntry(0, "a", "file", 0)},
   {PathEntry(0, "a", "dir", 1), PathEntry(1, "b", "mount", 0)}}

Paths == INSTANCE FsPaths WITH fp <- s, Walkers <- {"w1", "w2"}, Requests <- PathRequests,
           Trees <- PathTrees, PathNames <- {"a", "b"}, MaxDirs <- 5, MaxMeddling <- 2

-----------------------------------------------------------------------------
(* Listings and walks. *)
ReadSlots ==
  <<[name |-> ".", type |-> "dir"], [name |-> "a", type |-> "file"], [name |-> "..", type |-> "dir"],
    [name |-> "b", type |-> "unknown"], [name |-> "c", type |-> "fifo"]>>

Dirs == INSTANCE DirWalk WITH dw <- s, lr <- s, Listing <- <<".", "a", "..", "b", "c">>, DirBatch <- 2,
          Slots <- ReadSlots, MaxSeeks <- 2

EnrichSpecs ==
  {{"STATX"}, {"XATTR"}, {"STATX", "ACL"}, {"XATTR", "LIST"}, {"STATX", "XATTR", "ACL", "LIST"}}

Enrich == INSTANCE DirEnrich WITH de <- s, Specs <- EnrichSpecs, SizeRetries <- 2

(* Names are byte strings; 2 is the slash, and sorts between the others.   *)
N1 == <<3>>
N2 == <<3, 1>>
N3 == <<3, 3>>
QueryFile(path) == [path |-> path, dir |-> FALSE]
QueryDir(path) == [path |-> path, dir |-> TRUE]
QueryTree == {QueryDir(<<N1>>), QueryFile(<<N2>>), QueryDir(<<N1, N1>>), QueryFile(<<N1, N1, N1>>)}

Query == INSTANCE TreeQuery WITH tw <- s, Tree0 <- QueryTree, Late <- {QueryFile(<<N3>>)}, Slash <- 2,
           Prefix <- <<>>, Clump <- 2, Depths <- {2, 3}, MaxChanges <- 1

(* One tree for the iterator and for the copy; y is too young for a cutoff. *)
TreeEntry(name, type, hint) == [name |-> name, type |-> type, hint |-> hint, young |-> name = "y"]
IterListing ==
  (<<>> :> <<TreeEntry("a", "dir", "dir"), TreeEntry("y", "file", "unknown"), TreeEntry("m", "mount", "dir")>>)
  @@ (<<"a">> :> <<TreeEntry("b", "dir", "unknown"), TreeEntry("l", "symlink", "symlink")>>)
  @@ (<<"a", "b">> :> <<TreeEntry("f", "file", "file")>>)
IterOptions == {[symlinks |-> b, mounts |-> b, cutoff |-> ~b] : b \in BOOLEAN}
CopyListing ==
  (<<>> :> <<TreeEntry(".zfs", "dir", "dir"), TreeEntry("a", "dir", "dir"), TreeEntry("f", "file", "unknown"),
             TreeEntry("m", "mount", "dir")>>)
  @@ (<<".zfs">> :> <<TreeEntry("shares", "dir", "dir")>>) @@ (<<".zfs", "shares">> :> <<>>)
  @@ (<<"a">> :> <<TreeEntry("b", "dir", "unknown"), TreeEntry("s", "special", "special")>>)
  @@ (<<"a", "b">> :> <<TreeEntry("l", "symlink", "unknown")>>)

Iter == INSTANCE TreeCopy WITH fi <- s, tc <- s, Listing <- IterListing, Options <- IterOptions, MaxGone <- 1,
          Configs <- {}, CtlDirs <- {}, ChildMounts <- {}, DstSelf <- None, Present <- {}

-----------------------------------------------------------------------------
(* Copies of a tree with a control directory and a mount below it:         *)
(* elsewhere, where the mount's directory stands ready, and into a         *)
(* directory of the source itself, where it is missing.                    *)
CopyConfigs == [raise : BOOLEAN, existOk : BOOLEAN, perms : BOOLEAN, owner : BOOLEAN, traverse : BOOLEAN]

Copy == INSTANCE TreeCopy WITH tc <- s, fi <- s, Listing <- CopyListing, Options <- IterOptions, MaxGone <- 1,
          Configs <- CopyConfigs, CtlDirs <- {<<".zfs">>}, ChildMounts <- {<<"m">>}, DstSelf <- None,
          Present <- {<<"f">>, <<"m">>}

CopyInto == INSTANCE TreeCopy WITH tc <- s, fi <- s, Listing <- CopyListing, Options <- IterOptions, MaxGone <- 1,
              Configs <- CopyConfigs, CtlDirs <- {<<".zfs">>}, ChildMounts <- {<<"m">>},
              DstSelf <- <<"a", "b">>, Present <- {<<"f">>}

NodeSources ==
  [kind : {"file"}, mode : {{}, {"others", "setid"}}, xattrs : {{}, {"user", "security"}, {"acl", "user"}}, len : {0, 2}]
  \cup [kind : {"symlink", "fifo", "socket"}, mode : {{"others", "setid"}}, xattrs : {{}}, len : {0}]
NodeFlags ==
  {{}, {"OWNER"}, {"PERMISSIONS"}, {"XATTRS", "TIMESTAMPS"}, {"OWNER", "PERMISSIONS", "XATTRS", "TIMESTAMPS"}}
NodeModes ==
  [flags : NodeFlags, raise : BOOLEAN, existOk : {TRUE}, there : BOOLEAN, inherits : BOOLEAN,
   op : {"default", "userspace"}, meddling : {2}]
  \cup [flags : {{}}, raise : {TRUE}, existOk : {FALSE}, there : {TRUE}, inherits : {FALSE},
        op : {"sendfile"}, meddling : {0}]

Node == INSTANCE NodeCopy WITH nd <- s, Sources <- NodeSources, CopyModes <- NodeModes

RangeCopies ==
  {[soff |-> 0, doff |-> 1, len |-> 3], [soff |-> 2, doff |-> 0, len |-> 3], [soff |-> 0, doff |-> 0, len |-> 0]}

Offload == INSTANCE Offloads WITH of <- s, Jobs <- {j1, j2}, Copies <- RangeCopies, SrcLen <- 4, DstLen <- 4,
             MAX_CHUNK <- 2, BufLen <- 2, Batches <- 1

Atomic == INSTANCE AtomicWrite WITH aw <- s, Writers <- {"w1", "w2"}, Noclobber <- {"w2"}, MaxForeign <- 1

-----------------------------------------------------------------------------
(* Access control lists: NFSv4 lists of three ACEs built from these, POSIX *)
(* lists with and without a mask, and 9 for the id no ACL may name; a file *)
(* that starts with or without lists of its own.                           *)
Ace(type, flags, mask, who, id) ==
  [type |-> type, flags |-> flags, mask |-> mask, who |-> who, id |-> id]
Entry(tag, perms, id) == [tag |-> tag, perms |-> perms, id |-> id]
ReadMask == {"READ_DATA"}
AcePrincipals ==
  {<<w, -1, {}>> : w \in {"Owner", "Group", "Everyone"}}
  \cup {<<"Named", 1, f>> : f \in {{}, {"IDENTIFIER_GROUP"}}}
AceChoices ==
  {Ace(t, w[3], ReadMask, w[1], w[2]) : t \in {"Allow", "Deny"}, w \in AcePrincipals}
  \cup {Ace("Allow", {}, {"WRITE_DATA"}, "Everyone", -1),
        Ace("Allow", {}, {"WRITE_DATA", "APPEND_DATA", "DELETE_CHILD"}, "Group", -1),
        Ace("Allow", {"FILE_INHERIT", "INHERIT_ONLY"}, ReadMask, "Everyone", -1),
        Ace("Allow", {"DIRECTORY_INHERIT"}, ReadMask, "Named", 1),
        Ace("Allow", {"FILE_INHERIT", "NO_PROPAGATE_INHERIT"}, ReadMask, "Group", -1),
        Ace("Audit", {}, ReadMask, "Everyone", -1)}
Posix(user, named, group, namedGroup, mask, other) ==
  <<Entry("UserObj", user, -1), Entry("User", named, 1), Entry("GroupObj", group, -1),
    Entry("Group", namedGroup, 1), Entry("Mask", mask, -1), Entry("Other", other, -1)>>
Perms == {{}, {"r"}, {"r", "w"}}
BadLists ==
  {<<Entry("UserObj", {"r"}, -1), Entry("User", {"r"}, 1), Entry("GroupObj", {}, -1), Entry("Other", {}, -1)>>,
   <<Entry("UserObj", {"r"}, -1), Entry("User", {"r"}, 10), Entry("GroupObj", {}, -1), Entry("Mask", {}, -1),
     Entry("Other", {}, -1)>>,
   <<Entry("UserObj", {"r"}, -1), Entry("User", {"r"}, 9), Entry("GroupObj", {}, -1), Entry("Mask", {}, -1),
     Entry("Other", {}, -1)>>}
AclPosix ==
  {<<Entry("UserObj", a, -1), Entry("GroupObj", b, -1), Entry("Other", c, -1)>> : a, b, c \in Perms}
  \cup {Posix(a, d, b, e, f, c) : a, b, d \in {{}, {"r"}}, c \in {{}, {"r", "w"}},
                                  e \in {{"w"}, {"r"}}, f \in {{"r", "w"}, {"w"}}}
  \cup BadLists
AclDefaults ==
  BadLists \cup {<<Entry("UserObj", {"r"}, -1), Entry("User", {"r", "w"}, 1), Entry("GroupObj", {}, -1),
                   Entry("Mask", {"r"}, -1), Entry("Other", {"r"}, -1)>>}
AclStarts == {Posix({"r", "w"}, {"r"}, {}, {"r"}, {"r"}, {})}
AclNfs4 ==
  {<<Ace("Allow", {}, ReadMask, "Owner", -1)>>, <<Ace("Deny", {}, ReadMask, "Group", -1)>>,
   <<Ace("Allow", {"FILE_INHERIT"}, ReadMask, "Owner", -1), Ace("Deny", {}, ReadMask, "Named", 9)>>}
AclModes ==
  {[u |-> {"r", "w"}, g |-> {"r"}, o |-> {}], [u |-> {"r", "w"}, g |-> {"r", "w"}, o |-> {"r", "w"}]}
AclSubjects == [owner : BOOLEAN, uid : {1, 2}, gids : {{}, {1}}, member : BOOLEAN]

Rights == INSTANCE Acl WITH cv <- s, al <- s, MaxAces <- 3, PosixLists <- AclPosix, DefaultLists <- AclDefaults,
            Nfs4Lists <- AclNfs4, StartLists <- AclStarts, CreateModes <- AclModes,
            Subjects <- AclSubjects, NoId <- -1, SpecialId <- 9,
            MaxAclCalls <- 1

(* Configuration files, as sequences of characters: interpolation that     *)
(* outgrows its cap, continuation lines, a header that is none, an option  *)
(* without a value, a duplicate, an option before any section.             *)
ConfigLower(c) == IF c = "A" THEN "a" ELSE c
ConfigDoc(text) == [kind |-> "text", text |-> text]
RefB == <<"%", "(", "b", ")", "s">>
ConfigDocs ==
  {ConfigDoc(<<"[", "s", "]", "\n", "b", "=">> \o [i \in 1..18 |-> "v"] \o <<"\n", "c", "=", "v", "v", "v", "v">>
             \o <<"\n", "a", "=", "%", "(", "c", ")", "s", "v", "v", "v">> \o RefB \o RefB),
   ConfigDoc(<<"[", "s", "]", "\n", "A", "=">> \o RefB \o
             <<"\n", " ", "#", "\n", "\n", " ", "v", "\n", "\n", "[", "D", "]", "\n", "b", ":", "v", "\n">>),
   ConfigDoc(<<"[", "s", "]", "\n", "[", "a", "=", "b", "\n", " ", "]", "\n", "[", "]", "]", "\n", "#", "\n">>),
   ConfigDoc(<<"[", "s", "]", "\n", "a", "\n", "b", "=", "\n", " ", " ", "v">>),
   ConfigDoc(<<"[", "s", "]", "\n", " ", "a", "=", "\n", "b", "=", "b", "\n", "b", "=", "\n">>),
   ConfigDoc(<<"a", "=", "b", "\n">>),
   [kind |-> "errno", text |-> <<>>], [kind |-> "grew", text |-> <<>>]}

Config == INSTANCE ConfigFile WITH cf <- s, Docs <- ConfigDocs, SectionNames <- {<<"]">>, <<"D">>},
            OptionNames <- {<<"a">>, <<"[", "A", "]">>},
            Values <- {<<"v">>, <<"\n", "[", "v", "]">>, <<"v">> \o RefB \o RefB, <<" ", "\n", "#">>, <<"%">>},
            Lower <- ConfigLower, MaxConfigOps <- 2, MaxDepth <- 3, MaxOutput <- 4, NoValue <- None

-----------------------------------------------------------------------------
FilesInit ==
  \/ part = "ops"     /\ Ops!OpsInit
  \/ part = "tight"   /\ Tight!OpsInit
  \/ part = "tasks"   /\ Tasks!ExecInit
  \/ part = "replies" /\ Replies!ReplyInit
  \/ part = "facade"  /\ Facade!FacadeInit
  \/ part = "paths"   /\ Paths!PathsInit
  \/ part = "walk"    /\ Dirs!DirInit
  \/ part = "listing" /\ Dirs!ReadInit
  \/ part = "enrich"  /\ Enrich!EnrichInit
  \/ part = "query"   /\ Query!TreeInit
  \/ part = "iter"    /\ Iter!IterInit
  \/ part = "copy"    /\ Copy!CopyInit
  \/ part = "into"    /\ CopyInto!CopyInit
  \/ part = "node"    /\ Node!NodeInit
  \/ part = "offload" /\ Offload!OffloadsInit
  \/ part = "atomic"  /\ Atomic!AtomicInit
  \/ part = "convert" /\ Rights!CvInit
  \/ part = "acl"     /\ Rights!AlInit
  \/ part = "config"  /\ Config!ConfigInit

FilesNext ==
  /\ part' = part
  /\ \/ part = "ops"     /\ Ops!OpsNext
     \/ part = "tight"   /\ Tight!OpsNext
     \/ part = "tasks"   /\ Tasks!ExecNext
     \/ part = "replies" /\ Replies!ReplyNext
     \/ part = "facade"  /\ Facade!FacadeNext
     \/ part = "paths"   /\ Paths!PathsNext
     \/ part = "walk"    /\ Dirs!DirNext
     \/ part = "listing" /\ Dirs!ReadNext
     \/ part = "enrich"  /\ Enrich!EnrichNext
     \/ part = "query"   /\ Query!TreeNext
     \/ part = "iter"    /\ Iter!IterNext
     \/ part = "copy"    /\ Copy!CopyNext
     \/ part = "into"    /\ CopyInto!CopyNext
     \/ part = "node"    /\ Node!NodeNext
     \/ part = "offload" /\ Offload!OffloadsNext
     \/ part = "atomic"  /\ Atomic!AtomicNext
     \/ part = "convert" /\ Rights!CvNext
     \/ part = "acl"     /\ Rights!AlNext
     \/ part = "config"  /\ Config!ConfigNext

FilesSpec == FilesInit /\ [][FilesNext]_<<part, s>>

-----------------------------------------------------------------------------
\* The operation table (uring_fs/core.rs): every call made is in one place and
\* is answered once, whatever mix of refusal, failed staging, retraction, sweep
\* and drain it meets; an owner is charged for exactly the timers it holds; no
\* operation of a live owner hears the ECANCELED that says its connection is
\* gone; waiting refusals have the loop's attention; and what a closed owner
\* left armed has been asked to end.
OpsSound ==
  /\ part = "ops" =>
       /\ Ops!AnsweredOnce /\ Ops!WallClockExact /\ Ops!TableExact
       /\ Ops!UnmarkedMeansGone /\ Ops!RefusalsNoticed /\ Ops!GoneCancelled
  /\ part = "tight" =>
       /\ Tight!AnsweredOnce /\ Tight!WallClockExact /\ Tight!TableExact
       /\ Tight!UnmarkedMeansGone /\ Tight!RefusalsNoticed /\ Tight!GoneCancelled

\* The executor (uring_fs/task.rs): a task whose await has happened is polled or
\* queued, a queue that is not empty has the loop's attention, and a handle
\* never waits on a task that is over.
TasksWoken == part = "tasks" => Tasks!WakeKept /\ Tasks!HandleResolves

\* File bodies (net/server/io.rs): each is on the wire whole and in order, the
\* books of buffers, shares and outstanding answers balance whichever of flush,
\* close and late read comes first, and a body that is not being read waits for
\* something that will drive it; answers go out in order, and a flush-close
\* loses none but a body that waited behind another, with what is behind it.
RepliesWhole ==
  part = "replies" =>
    Replies!BodiesWhole /\ Replies!BodyBooks /\ Replies!TailDriven /\ Replies!FarewellKept

\* The facades (uring_fs/core.rs, host.rs, mod.rs): the kernel performs
\* what the caller asked for under the personality named, opens are confined
\* and guarded, buffers come back, a walk stands only on real entries by the
\* names of its path and hands back the last, and racing creators of one path
\* all succeed.
RequestsHonest ==
  /\ part = "facade" => Facade!DoneAsAsked /\ Facade!OpensGuarded /\ Facade!BuffersBack
  /\ part = "paths" => Paths!WalkStays /\ Paths!CreatorsAllSucceed

\* Listings, walks and iterations lose nothing: a DIR* has one owner and is
\* closed once, batches are a prefix of the directory, a listing resumes after
\* its cookie, an entry without all it was asked for says so, the pages of a
\* tree query are in order, disjoint and complete, and an iteration yields all
\* it was asked for (sync_fs/dir.rs, query_dir.rs, query_tree.rs,
\* iter.rs).
ListingsComplete ==
  /\ part = "walk" => Dirs!StreamOwned /\ Dirs!WalkComplete
  /\ part = "listing" => Dirs!ListingResumes
  /\ part = "enrich" => Enrich!EnrichHonest
  /\ part = "query" => Query!PathOrder /\ Query!NothingMissed
  /\ part = "iter" => Iter!IterComplete

\* Copies are whole or reported: a copied tree and the mode of its root, a
\* copied node and its metadata at every moment, a copied range, the delivery of
\* an offload's result, and the target of an atomic write after any crash
\* (shutil/copy.rs, shutil/mod.rs, query_dir.rs, atomic.rs).
CopiesWhole ==
  /\ part = "copy" => Copy!RootReleased /\ Copy!CopyExact
  /\ part = "into" => CopyInto!RootReleased /\ CopyInto!CopyExact
  /\ part = "node" => Node!NodeSealed /\ Node!NodeWhole
  /\ part = "offload" => Offload!DeliveredOnce /\ Offload!RangeCopied
  /\ part = "atomic" => Atomic!TargetWhole /\ Atomic!NoLitter

\* Access control (acl): a conversion from NFSv4 never grants more on the
\* object than its source, the one to NFSv4 and back keeps every right, and a
\* write of an ACL is whole, or undone and reported.
AclsExact ==
  /\ part = "convert" => Rights!NeverWider
  /\ part = "acl" => Rights!RightsKept /\ Rights!AclWriteExact

\* Configuration files (config): what is written reads back, and interpolation
\* ends within its cap.
ConfigKept == part = "config" => Config!ConfigReadsBack /\ Config!InterpBounded

\* A read of a configuration file that reports an error has changed nothing but
\* what earlier files of the same call made of the store (read_paths).
ConfigReadWhole ==
  [][part = "config" => Config!ReadKept]_s
=============================================================================
