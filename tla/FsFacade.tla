------------------------------ MODULE FsFacade ------------------------------
(***************************************************************************)
(* The two faces of the filesystem service and everything between a method *)
(* call and the operation the kernel performs.                             *)
(*                                                                         *)
(*   - FsHandle (uring_fs/mod.rs): the face of other threads.  A method    *)
(*     builds an FsInject message, sends it to the loop and blocks; a      *)
(*     start_* method returns an FsPending that is waited on later.        *)
(*   - FsConn (uring_fs/core.rs): the face of a handler on the loop.  A    *)
(*     method calls the submit function directly.                          *)
(*                                                                         *)
(* Both end in a submit function that refuses, or stages one submission    *)
(* queue entry whose fields are packed per opcode.  The wrappers are       *)
(* indifferent to the values they carry, so an operand is represented by   *)
(* its role ("off", "len", "a1", "n2"...): a swapped or dropped operand    *)
(* shows as the wrong role in what the kernel does.  Only what the code    *)
(* branches on varies: the personality, the name of the attribute, the     *)
(* size of its value, the open flags and the special-file policy.          *)
(***************************************************************************)
EXTENDS Naturals, Sequences, FiniteSets

CONSTANTS
    Whos,        \* personalities a caller may name; "0" is the unregistered one
    XattrNames,  \* attribute names
    Permitted,   \* those of them under an allowed trusted.* prefix
    OpenFlags,   \* the sets of open flags callers pass
    Resolves,    \* the sets of RESOLVE_* flags callers pass
    AtFlagSets   \* the sets of AT_* flags callers pass to statx

VARIABLE fc

fcVars == <<fc>>

Guard == "guard"
Allow0 == "allow0"     \* a zero deadline
Allow == "allow"
Policies == {Guard, Allow0, Allow}

(* ------------------------------------------------------------------------ *)
(* Flag arithmetic                                                          *)
(* ------------------------------------------------------------------------ *)

CONFINED == {"BENEATH", "NO_SYMLINKS", "NO_XDEV"}
POLICY == {"BENEATH", "IN_ROOT"}

statx_at_flags(flags) ==
    LET follow == "FOLLOW" \in flags /\ "NOFOLLOW" \notin flags
    IN  (flags \ {"FOLLOW"}) \cup (IF follow THEN {} ELSE {"NOFOLLOW"})

\* Mutant: a stated policy drops the hardening too.
confine_resolve_lax(r) == IF r \cap POLICY = {} THEN r \cup CONFINED ELSE r

confine_resolve(r) ==
    r \cup (IF r \cap POLICY = {} THEN CONFINED ELSE {"NO_XDEV"})

scoping_conflict(r) == "IN_ROOT" \in r

Guards(flags, special) ==
    special = Guard /\ flags \cap {"PATH", "DIRECTORY", "NONBLOCK"} = {}

apply_special_file_guard(flags, special) ==
    IF Guards(flags, special) THEN flags \cup {"NONBLOCK"} ELSE flags

creation_refused(flags) == flags \cap {"CREAT", "TMPFILE"} /= {}

How(flags, resolve) == [flags |-> flags, resolve |-> resolve]

NoHow == How({}, {})

ReopenHow == How(apply_special_file_guard({}, Guard), {})

(* ------------------------------------------------------------------------ *)
(* FsInject: what a method asks of the loop                                 *)
(* ------------------------------------------------------------------------ *)

Msg0 == [kind |-> "none", tag |-> "none", pers |-> "0", file |-> "none",
         a1 |-> "none", n1 |-> "none", a2 |-> "none", n2 |-> "none",
         bufs |-> <<>>, off |-> "0", len |-> "0", aux |-> "0", flags |-> {},
         how |-> NoHow, guarded |-> FALSE, deadline |-> FALSE]

OpenMsg(who, a, path, how, guarded, deadline) ==
    [Msg0 EXCEPT !.kind = "Open", !.tag = "OPEN", !.pers = who, !.a1 = a,
                 !.n1 = path, !.how = how, !.guarded = guarded,
                 !.deadline = deadline]

RwMsg(tag, who, f, bufs, off, flags) ==
    [Msg0 EXCEPT !.kind = "Rw", !.tag = tag, !.pers = who, !.file = f,
                 !.bufs = bufs, !.off = off, !.flags = flags]

FsyncMsg(who, f, datasync, off, len) ==
    [Msg0 EXCEPT !.kind = "Fsync", !.tag = "FSYNC", !.pers = who, !.file = f,
                 !.off = off, !.len = len,
                 !.flags = IF datasync THEN {"DATASYNC"} ELSE {}]

FdMetaMsg(tag, who, f, name, bufs, off, len, aux) ==
    [Msg0 EXCEPT !.kind = "FdMeta", !.tag = tag, !.pers = who, !.file = f,
                 !.n1 = name, !.bufs = bufs, !.off = off, !.len = len,
                 !.aux = aux]

PathMsg(tag, who, a1, n1, a2, n2, flags, len) ==
    [Msg0 EXCEPT !.kind = "PathOp", !.tag = tag, !.pers = who, !.a1 = a1,
                 !.n1 = n1, !.a2 = a2, !.n2 = n2, !.flags = flags,
                 !.len = len]

(* ------------------------------------------------------------------------ *)
(* What a caller means: the operation, whose credentials it runs under and  *)
(* the role of every operand.                                               *)
(* ------------------------------------------------------------------------ *)

Op0 == [op |-> "none", cred |-> "0", fd |-> "none", name |-> "none",
        fd2 |-> "none", name2 |-> "none", buf |-> "none", off |-> "0",
        len |-> "0", flags |-> {}, how |-> NoHow]

\* A submission queue entry; its fields are named as the code names them.
Sqe0 == [opcode |-> "none", fd |-> "none", addr |-> "0", off_addr2 |-> "0",
         len |-> "0", op_flags |-> {}, file_index |-> "0", addr3 |-> "0",
         pers |-> "0", how |-> NoHow]

\* The answer a caller holds; "none" until there is one.
Ans0 == [res |-> "none", bufs |-> <<>>, file |-> "none", nonblock |-> FALSE]

Idle == [pc |-> "idle", face |-> "none", started |-> FALSE, asked |-> Op0,
         wants |-> NoHow, special |-> Guard, bufs |-> <<>>, msg |-> Msg0,
         sqe |-> Sqe0, bound |-> "none", did |-> Op0, ans |-> Ans0,
         stopped |-> FALSE, lost |-> FALSE]

Asks(c, face, op, bufs) ==
    [c EXCEPT !.face = face, !.asked = op, !.bufs = bufs, !.pc = "asked"]

Answered(c, res, bufs) ==
    [c EXCEPT !.pc = "done", !.ans = [Ans0 EXCEPT !.res = res, !.bufs = bufs]]

(* ------------------------------------------------------------------------ *)
(* The submit functions: refuse, or stage one entry.                         *)
(* ------------------------------------------------------------------------ *)

\* Mutant: a refusal keeps the buffers.
RefuseDrops(c, res) == Answered(c, res, <<>>)

Refuse(c, res) == Answered(c, res, c.msg.bufs)

\* A slot may be missing and the ring may refuse the entry; either way the
\* caller's buffers ride the refusal.
Stages(c, s) == {[c EXCEPT !.pc = "staged", !.sqe = s], Refuse(c, "EBUSY")}

\* An open with a deadline holds a worker, so it is first charged to the
\* connection it is for: refused when that is gone or at its cap.  Its timer
\* is a second entry; when the ring takes the open and then has no room for
\* the timer, the open is already staged and is retracted.
SubmitOpen(c) ==
    LET m == c.msg
        s == [Sqe0 EXCEPT !.opcode = "OPENAT2", !.fd = m.a1, !.addr = m.n1,
                          !.off_addr2 = "how", !.how = m.how, !.pers = m.pers]
        Bounded(how) == Stages([c EXCEPT !.bound = how], s)
    IN  IF m.pers = "0" THEN {Refuse(c, "EINVAL")}
        ELSE IF ~m.deadline THEN Stages(c, s)
        ELSE Bounded("timer") \cup Bounded("retracted")
                \cup (IF c.face = "conn" THEN {Refuse(c, "ECANCELED")} ELSE {})

SubmitRw(c) ==
    LET m == c.msg
    IN  Stages(c, [Sqe0 EXCEPT !.opcode = m.tag, !.fd = m.file,
                               !.addr = m.bufs[1], !.len = "1",
                               !.off_addr2 = m.off, !.op_flags = m.flags,
                               !.pers = m.pers])

SubmitFsync(c) ==
    LET m == c.msg
    IN  Stages(c, [Sqe0 EXCEPT !.opcode = "FSYNC", !.fd = m.file,
                               !.off_addr2 = m.off, !.len = m.len,
                               !.op_flags = m.flags, !.pers = m.pers])

Unrepresentable(m) ==
    \/ m.tag = "FSETXATTR" /\ m.bufs[1] = "big"
    \/ m.tag \in {"FGETXATTR", "GETXATTR"} /\ m.bufs[1] = "huge"

\* The operands of an fd operation, packed as the kernel unpacks them.
FdMetaOperands(m, s) ==
    CASE m.tag = "FTRUNCATE" -> [s EXCEPT !.off_addr2 = m.off]
      [] m.tag = "FALLOCATE" ->
           [s EXCEPT !.off_addr2 = m.off, !.addr = m.len, !.len = m.aux]
      [] m.tag = "FADVISE" ->
           [s EXCEPT !.off_addr2 = m.off, !.addr = m.len, !.op_flags = {m.aux}]
      [] m.tag = "SPLICE" ->
           [s EXCEPT !.file_index = m.len, !.off_addr2 = m.off,
                     !.len = m.aux, !.addr = "-1", !.op_flags = {"MOVE"}]
      [] m.tag \in {"FGETXATTR", "FSETXATTR"} ->
           [s EXCEPT !.addr = m.n1, !.off_addr2 = m.bufs[1],
                     !.len = m.bufs[1], !.op_flags = {m.aux}]
      [] m.tag = "GETXATTR" ->
           [s EXCEPT !.addr = m.n1, !.off_addr2 = m.bufs[1],
                     !.addr3 = m.file, !.len = m.bufs[1]]

StageFdMeta(c, pers) ==
    LET m == c.msg
        s == [Sqe0 EXCEPT !.opcode = m.tag, !.fd = m.file, !.pers = pers]
    IN  IF Unrepresentable(m) THEN {Refuse(c, "E2BIG")}
        ELSE Stages(c, FdMetaOperands(m, s))

\* Mutant: the allow list is not consulted before the personality is dropped.
SubmitFdMetaAnyName(c) ==
    IF c.msg.pers = "0" THEN {Refuse(c, "EINVAL")}
    ELSE StageFdMeta(c, IF c.msg.tag = "FSETXATTR" THEN "0" ELSE c.msg.pers)

SubmitFdMeta(c) ==
    LET m == c.msg
        root == m.tag = "FSETXATTR" /\ m.n1 \in Permitted
    IN  IF m.pers = "0" THEN {Refuse(c, "EINVAL")}
        ELSE StageFdMeta(c, IF root THEN "0" ELSE m.pers)

SubmitFgetxattrAsRoot(c) == StageFdMeta(c, "0")

StageReopenProc(c, pers) ==
    Stages(c, [Sqe0 EXCEPT !.opcode = "OPENAT2", !.fd = "cwd",
                           !.addr = c.msg.file, !.off_addr2 = "how",
                           !.how = c.msg.how, !.pers = pers])

SubmitReopenProc(c) ==
    IF c.msg.pers = "0" THEN {Refuse(c, "EINVAL")}
    ELSE StageReopenProc(c, c.msg.pers)

SubmitPathOp(c) ==
    LET m == c.msg
        fd2 == IF m.a2 = "none" THEN m.a1 ELSE m.a2
        s == [Sqe0 EXCEPT !.opcode = m.tag, !.fd = m.a1, !.addr = m.n1,
                          !.pers = m.pers, !.op_flags = m.flags]
        operands ==
            CASE m.tag = "STATX" -> [s EXCEPT !.len = m.len, !.off_addr2 = "stat"]
              [] m.tag = "MKDIRAT" -> [s EXCEPT !.len = m.len]
              [] m.tag = "UNLINKAT" -> s
              [] m.tag = "SYMLINKAT" -> [s EXCEPT !.off_addr2 = m.n2]
              [] m.tag \in {"RENAMEAT", "LINKAT"} ->
                   [s EXCEPT !.off_addr2 = m.n2, !.len = fd2]
    IN  IF m.pers = "0" THEN {Refuse(c, "EINVAL")} ELSE Stages(c, operands)

SubmitLinkatFile(c) ==
    LET m == c.msg
    IN  IF m.pers = "0" THEN {Refuse(c, "EINVAL")}
        ELSE Stages(c, [Sqe0 EXCEPT !.opcode = "LINKAT", !.fd = m.file,
                                    !.addr = "", !.off_addr2 = m.n2,
                                    !.len = m.a2, !.op_flags = {"EMPTY_PATH"},
                                    !.pers = m.pers])

\* Removal runs on the offload pool, as the process, past the allow list only.
RemovePrivXattr(c) ==
    IF c.msg.n1 \notin Permitted THEN {Refuse(c, "EPERM")}
    ELSE {[c EXCEPT !.pc = "staged",
                    !.sqe = [Sqe0 EXCEPT !.opcode = "FREMOVEXATTR",
                                         !.fd = c.msg.file, !.addr = c.msg.n1]]}

\* The loop's dispatch of a message, and the conn face's direct call.
Submit(c) ==
    CASE c.msg.kind = "Open" -> SubmitOpen(c)
      [] c.msg.kind = "Rw" -> SubmitRw(c)
      [] c.msg.kind = "Fsync" -> SubmitFsync(c)
      [] c.msg.kind = "FdMeta" -> SubmitFdMeta(c)
      [] c.msg.kind = "FdMetaAsRoot" -> SubmitFgetxattrAsRoot(c)
      [] c.msg.kind = "Reopen" -> SubmitReopenProc(c)
      [] c.msg.kind = "ReopenAsRoot" -> StageReopenProc(c, "0")
      [] c.msg.kind = "FRemoveXattr" -> RemovePrivXattr(c)
      [] c.msg.kind = "PathOp" -> SubmitPathOp(c)
      [] c.msg.kind = "LinkatFile" -> SubmitLinkatFile(c)

\* What a message carries back when it is answered without being submitted.
Carried(m) == IF m.kind \in {"Rw", "FdMeta", "FdMetaAsRoot"} THEN m.bufs ELSE <<>>

(* ------------------------------------------------------------------------ *)
(* The kernel's reading of an entry (io_uring's prep functions)             *)
(* ------------------------------------------------------------------------ *)

Decode(s) ==
    LET o == [Op0 EXCEPT !.op = s.opcode, !.cred = s.pers, !.fd = s.fd]
    IN  CASE s.opcode = "OPENAT2" -> [o EXCEPT !.name = s.addr, !.how = s.how]
          [] s.opcode \in {"READV", "WRITEV"} ->
               [o EXCEPT !.buf = s.addr, !.off = s.off_addr2, !.flags = s.op_flags]
          [] s.opcode = "FSYNC" ->
               [o EXCEPT !.off = s.off_addr2, !.len = s.len, !.flags = s.op_flags]
          [] s.opcode = "FTRUNCATE" -> [o EXCEPT !.len = s.off_addr2]
          [] s.opcode = "FALLOCATE" ->
               [o EXCEPT !.off = s.off_addr2, !.len = s.addr, !.flags = {s.len}]
          [] s.opcode = "FADVISE" ->
               [o EXCEPT !.off = s.off_addr2, !.len = s.addr, !.flags = s.op_flags]
          [] s.opcode = "SPLICE" ->
               [o EXCEPT !.fd2 = s.file_index, !.off = s.off_addr2,
                         !.len = s.len, !.name = s.addr]
          [] s.opcode \in {"FGETXATTR", "FSETXATTR"} ->
               [o EXCEPT !.name = s.addr, !.buf = s.off_addr2,
                         !.flags = s.op_flags]
          [] s.opcode = "GETXATTR" ->
               [o EXCEPT !.fd = s.addr3, !.name = s.addr, !.buf = s.off_addr2]
          [] s.opcode = "FREMOVEXATTR" -> [o EXCEPT !.name = s.addr]
          [] s.opcode = "STATX" ->
               [o EXCEPT !.name = s.addr, !.len = s.len, !.flags = s.op_flags]
          [] s.opcode = "MKDIRAT" -> [o EXCEPT !.name = s.addr, !.len = s.len]
          [] s.opcode = "UNLINKAT" ->
               [o EXCEPT !.name = s.addr, !.flags = s.op_flags]
          [] s.opcode = "SYMLINKAT" ->
               [o EXCEPT !.name2 = s.addr, !.name = s.off_addr2]
          [] s.opcode \in {"RENAMEAT", "LINKAT"} ->
               [o EXCEPT !.name = s.addr, !.fd2 = s.len, !.name2 = s.off_addr2,
                         !.flags = s.op_flags]

(* ------------------------------------------------------------------------ *)
(* FsHandle: send and the blocking call                                     *)
(* ------------------------------------------------------------------------ *)

Send(c) ==
    IF c.stopped
    THEN Answered(c, "ECONNABORTED", IF c.started THEN <<>> ELSE Carried(c.msg))
    ELSE [c EXCEPT !.pc = "sent"]

HandleCall(op, bufs, msg) ==
    /\ fc.pc = "idle"
    /\ fc' = Send([Asks(fc, "handle", op, bufs) EXCEPT !.msg = msg])

\* start_*: the buffers ride the message; a refused send has no way back.
StartCall(op, bufs, msg) ==
    /\ fc.pc = "idle"
    /\ fc' = Send([Asks(fc, "handle", op, bufs) EXCEPT !.msg = msg,
                                                       !.started = TRUE])

\* FsConn: the submit function runs in the call.
ConnCall(op, bufs, msg) ==
    /\ fc.pc = "idle"
    /\ fc' \in Submit([Asks(fc, "conn", op, bufs) EXCEPT !.msg = msg])

OnFile(op, who) == [Op0 EXCEPT !.op = op, !.cred = who, !.fd = "f"]

At(op, who, name) == [Op0 EXCEPT !.op = op, !.cred = who, !.fd = "a1",
                                 !.name = name]

Between(op, who, flags) ==
    [At(op, who, "n1") EXCEPT !.fd2 = "a2", !.name2 = "n2", !.flags = flags]

(* ---- opens --------------------------------------------------------------*)

OpenPaths == {"path", "/path", ""}

\* open_parts, then the caller's own additions to the resolve set.
OpenParts(flags, resolve, special, more) ==
    How(apply_special_file_guard(flags, special), confine_resolve(resolve) \cup more)

Opened(face, who, path, flags, resolve, special) ==
    [Asks(fc, face, At("OPENAT2", who, path), <<>>) EXCEPT
        !.wants = How(flags, resolve), !.special = special]

HOpens ==
    fc.pc = "idle" /\
    \E who \in Whos, flags \in OpenFlags, r \in Resolves, sp \in Policies,
       start \in BOOLEAN, confined \in BOOLEAN, path \in OpenPaths :
        LET c == [Opened("handle", who, path, flags, r, sp) EXCEPT
                     !.started = start,
                     !.msg = OpenMsg(who, "a1", path,
                                 OpenParts(flags, r, sp,
                                           IF confined THEN CONFINED ELSE {}),
                                 Guards(flags, sp), sp = Allow)]
        IN  /\ ~(start /\ confined)
            /\ fc' = IF path = "" \/ sp = Allow0 \/ (confined /\ scoping_conflict(r))
                     THEN Answered(c, "Validation", <<>>) ELSE Send(c)

COpen ==
    fc.pc = "idle" /\
    \E who \in Whos, flags \in OpenFlags, r \in Resolves, sp \in Policies,
       path \in OpenPaths :
        LET c == [Opened("conn", who, path, flags, r, sp) EXCEPT
                     !.msg = OpenMsg(who, "a1", path,
                                     OpenParts(flags, r, sp, {}),
                                     Guards(flags, sp), sp = Allow)]
        IN  fc' \in IF path \in {"", "/path"} \/ sp = Allow0
                    THEN {Answered(c, "EINVAL", <<>>)} ELSE Submit(c)

\* open_parent and open_parent_across_mount: ".." of the anchor, exactly.
COpenDotdot ==
    fc.pc = "idle" /\
    \E who \in Whos, flags \in OpenFlags, r \in Resolves, across \in BOOLEAN :
        LET kept == (CONFINED \ {"BENEATH"}) \ (IF across THEN {"NO_XDEV"} ELSE {})
            c == [Opened("conn", who, "..", flags, r, Guard) EXCEPT
                     !.msg = OpenMsg(who, "a1", "..", How(flags, r \cup kept),
                                     FALSE, FALSE)]
        IN  fc' \in IF creation_refused(flags) \/ r \cap POLICY /= {}
                    THEN {Answered(c, "EINVAL", <<>>)} ELSE Submit(c)

ReopenMsg(kind, who) ==
    [Msg0 EXCEPT !.kind = kind, !.tag = "OPEN", !.pers = who, !.file = "f",
                 !.how = ReopenHow, !.guarded = TRUE]

Reopening(who) == [Op0 EXCEPT !.op = "OPENAT2", !.cred = who, !.fd = "cwd",
                              !.name = "f"]

HReopen ==
    \/ \E who \in Whos : HandleCall(Reopening(who), <<>>, ReopenMsg("Reopen", who))
    \/ HandleCall(Reopening("0"), <<>>, ReopenMsg("ReopenAsRoot", "0"))

CReopen ==
    \/ \E who \in Whos : ConnCall(Reopening(who), <<>>, ReopenMsg("Reopen", who))
    \/ ConnCall(Reopening("0"), <<>>, ReopenMsg("ReopenAsRoot", "0"))

(* ---- data ---------------------------------------------------------------*)

Transfers(op, who) ==
    [OnFile(op, who) EXCEPT !.buf = "buf", !.off = "off", !.flags = {"rwf"}]

RwTags == {"READV", "WRITEV"}

HRw ==
    \E who \in Whos, t \in RwTags :
        HandleCall(Transfers(t, who), <<"buf">>,
                   RwMsg(t, who, "f", <<"buf">>, "off", {"rwf"}))

HStartRw ==
    \E who \in Whos, t \in RwTags :
        StartCall(Transfers(t, who), <<"buf">>,
                  RwMsg(t, who, "f", <<"buf">>, "off", {"rwf"}))

CRw ==
    \E who \in Whos, t \in RwTags :
        ConnCall(Transfers(t, who), <<"buf">>,
                 RwMsg(t, who, "f", <<"buf">>, "off", {"rwf"}))

Syncs(who, off, len, datasync) ==
    [OnFile("FSYNC", who) EXCEPT !.off = off, !.len = len,
        !.flags = IF datasync THEN {"DATASYNC"} ELSE {}]

HSync ==
    \E who \in Whos, d \in BOOLEAN :
        \/ HandleCall(Syncs(who, "0", "0", d), <<>>, FsyncMsg(who, "f", d, "0", "0"))
        \/ HandleCall(Syncs(who, "off", "len", d), <<>>,
                      FsyncMsg(who, "f", d, "off", "len"))

CSync ==
    \E who \in Whos, d \in BOOLEAN :
        ConnCall(Syncs(who, "0", "0", d), <<>>, FsyncMsg(who, "f", d, "0", "0"))

CSyncRange ==
    \E who \in Whos, d \in BOOLEAN :
        ConnCall(Syncs(who, "off", "len", d), <<>>,
                 FsyncMsg(who, "f", d, "off", "len"))

(* ---- attributes ---------------------------------------------------------*)

Values == {"val", "big", "huge"}

Attribute(op, who, name, v, flags) ==
    [OnFile(op, who) EXCEPT !.name = name, !.buf = v, !.flags = flags]

GetTags == {"FGETXATTR", "GETXATTR"}

GetFlags(tag) == IF tag = "FGETXATTR" THEN {"0"} ELSE {}

AsRootMsg(tag, name, v) ==
    [FdMetaMsg(tag, "0", "f", name, <<v>>, "0", "0", "0") EXCEPT
        !.kind = "FdMetaAsRoot"]

HGetxattr ==
    \E who \in Whos, t \in GetTags, n \in XattrNames, v \in Values :
        \/ HandleCall(Attribute(t, who, n, v, GetFlags(t)), <<v>>,
                      FdMetaMsg(t, who, "f", n, <<v>>, "0", "0", "0"))
        \/ HandleCall(Attribute(t, "0", n, v, GetFlags(t)), <<v>>,
                      AsRootMsg(t, n, v))

HStartGetxattr ==
    \E who \in Whos, n \in XattrNames, v \in Values :
        StartCall(Attribute("FGETXATTR", who, n, v, {"0"}), <<v>>,
                  FdMetaMsg("FGETXATTR", who, "f", n, <<v>>, "0", "0", "0"))

CGetxattr ==
    \E who \in Whos, t \in GetTags, n \in XattrNames, v \in Values :
        \/ ConnCall(Attribute(t, who, n, v, GetFlags(t)), <<v>>,
                    FdMetaMsg(t, who, "f", n, <<v>>, "0", "0", "0"))
        \/ ConnCall(Attribute(t, "0", n, v, GetFlags(t)), <<v>>,
                    AsRootMsg(t, n, v))

HSetxattr ==
    \E who \in Whos, n \in XattrNames, v \in Values :
        HandleCall(Attribute("FSETXATTR", who, n, v, {"xflags"}), <<v>>,
                   FdMetaMsg("FSETXATTR", who, "f", n, <<v>>, "0", "0", "xflags"))

CSetxattr ==
    \E who \in Whos, n \in XattrNames, v \in Values :
        ConnCall(Attribute("FSETXATTR", who, n, v, {"xflags"}), <<v>>,
                 FdMetaMsg("FSETXATTR", who, "f", n, <<v>>, "0", "0", "xflags"))

RemoveMsg(n) == [Msg0 EXCEPT !.kind = "FRemoveXattr", !.file = "f", !.n1 = n]

Removal(n) == [OnFile("FREMOVEXATTR", "0") EXCEPT !.name = n]

HRemovexattr == \E n \in XattrNames : HandleCall(Removal(n), <<>>, RemoveMsg(n))

CRemovexattr == \E n \in XattrNames : ConnCall(Removal(n), <<>>, RemoveMsg(n))

(* ---- metadata on an open file -------------------------------------------*)

Extent(op, who, flags) ==
    [OnFile(op, who) EXCEPT !.off = "off", !.len = "len", !.flags = flags]

SpliceIn(who) ==
    [OnFile("SPLICE", who) EXCEPT !.fd2 = "pipe", !.off = "off", !.len = "len",
                                  !.name = "-1"]

Bare(tag, who, off, len, aux) == FdMetaMsg(tag, who, "f", "none", <<>>, off, len, aux)

HFdMeta ==
    \E who \in Whos :
        \/ HandleCall([OnFile("FTRUNCATE", who) EXCEPT !.len = "len"], <<>>,
                      Bare("FTRUNCATE", who, "len", "0", "0"))
        \/ HandleCall(Extent("FALLOCATE", who, {"mode"}), <<>>,
                      Bare("FALLOCATE", who, "off", "len", "mode"))
        \/ HandleCall(Extent("FADVISE", who, {"advice"}), <<>>,
                      Bare("FADVISE", who, "off", "len", "advice"))
        \/ HandleCall(SpliceIn(who), <<>>, Bare("SPLICE", who, "off", "pipe", "len"))

CFdMeta ==
    \E who \in Whos :
        \/ ConnCall([OnFile("FTRUNCATE", who) EXCEPT !.len = "len"], <<>>,
                    Bare("FTRUNCATE", who, "len", "0", "0"))
        \/ ConnCall(Extent("FALLOCATE", who, {"mode"}), <<>>,
                    Bare("FALLOCATE", who, "off", "len", "mode"))
        \/ ConnCall(Extent("FADVISE", who, {"advice"}), <<>>,
                    Bare("FADVISE", who, "off", "len", "advice"))
        \/ ConnCall(SpliceIn(who), <<>>, Bare("SPLICE", who, "off", "pipe", "len"))

(* ---- names beneath an anchor --------------------------------------------*)

\* What a caller's AT_* set means: a final symlink is not followed unless
\* the caller asks, and asking for both keeps it unfollowed.
Follows(flags) ==
    IF "FOLLOW" \in flags /\ "NOFOLLOW" \notin flags
    THEN flags \ {"FOLLOW"} ELSE (flags \ {"FOLLOW"}) \cup {"NOFOLLOW"}

Stats(who, name, flags) ==
    [At("STATX", who, name) EXCEPT !.len = "mask", !.flags = Follows(flags)]

StatxMsg(who, name, flags) ==
    PathMsg("STATX", who, "a1", name, "none", "none", statx_at_flags(flags), "mask")

HStatx ==
    \E who \in Whos, fl \in AtFlagSets :
        \/ HandleCall(Stats(who, "n1", fl), <<>>, StatxMsg(who, "n1", fl))
        \/ HandleCall(Stats(who, "", fl \cup {"EMPTY_PATH"}), <<>>,
                      StatxMsg(who, "", fl \cup {"EMPTY_PATH"}))

HStartStatx ==
    \E who \in Whos, fl \in AtFlagSets :
        \/ StartCall(Stats(who, "n1", fl), <<>>, StatxMsg(who, "n1", fl))
        \/ StartCall(Stats(who, "", fl \cup {"EMPTY_PATH"}), <<>>,
                     StatxMsg(who, "", fl \cup {"EMPTY_PATH"}))

CStatx ==
    \E who \in Whos, fl \in AtFlagSets :
        \/ ConnCall(Stats(who, "n1", fl), <<>>, StatxMsg(who, "n1", fl))
        \/ ConnCall(Stats(who, "", fl \cup {"EMPTY_PATH"}), <<>>,
                    StatxMsg(who, "", fl \cup {"EMPTY_PATH"}))

Makes(who) == [At("MKDIRAT", who, "n1") EXCEPT !.len = "mode"]

Unlinks(who, flags) == [At("UNLINKAT", who, "n1") EXCEPT !.flags = flags]

OneName(tag, who, flags, len) ==
    PathMsg(tag, who, "a1", "n1", "none", "none", flags, len)

TwoNames(tag, who, flags) == PathMsg(tag, who, "a1", "n1", "a2", "n2", flags, "0")

HPathOps ==
    \E who \in Whos :
        \/ HandleCall(Makes(who), <<>>, OneName("MKDIRAT", who, {}, "mode"))
        \/ HandleCall(Unlinks(who, {}), <<>>, OneName("UNLINKAT", who, {}, "0"))
        \/ HandleCall(Unlinks(who, {"REMOVEDIR"}), <<>>,
                      OneName("UNLINKAT", who, {"REMOVEDIR"}, "0"))
        \/ HandleCall(Between("RENAMEAT", who, {"rflags"}), <<>>,
                      TwoNames("RENAMEAT", who, {"rflags"}))

CPathOps ==
    \E who \in Whos :
        \/ ConnCall(Makes(who), <<>>, OneName("MKDIRAT", who, {}, "mode"))
        \/ ConnCall(Unlinks(who, {}), <<>>, OneName("UNLINKAT", who, {}, "0"))
        \/ ConnCall(Unlinks(who, {"REMOVEDIR"}), <<>>,
                    OneName("UNLINKAT", who, {"REMOVEDIR"}, "0"))
        \/ ConnCall(Between("RENAMEAT", who, {"rflags"}), <<>>,
                    TwoNames("RENAMEAT", who, {"rflags"}))

\* The link lies beneath the anchor; the target is only text.
Symlinks(who) == [At("SYMLINKAT", who, "n1") EXCEPT !.name2 = "target"]

HSymlink ==
    \/ fc.pc = "idle" /\ fc' = Answered([fc EXCEPT !.face = "handle"], "Validation", <<>>)
    \/ \E who \in Whos :
        HandleCall(Symlinks(who), <<>>,
                   PathMsg("SYMLINKAT", who, "a1", "target", "none", "n1", {}, "0"))

CSymlink ==
    \/ fc.pc = "idle" /\ fc' = Answered([fc EXCEPT !.face = "conn"], "EINVAL", <<>>)
    \/ \E who \in Whos :
        ConnCall(Symlinks(who), <<>>,
                 PathMsg("SYMLINKAT", who, "a1", "target", "none", "n1", {}, "0"))

LinkFileMsg(who) ==
    [Msg0 EXCEPT !.kind = "LinkatFile", !.pers = who, !.file = "f",
                 !.a2 = "a2", !.n2 = "n2"]

LinksFile(who) ==
    [OnFile("LINKAT", who) EXCEPT !.name = "", !.fd2 = "a2", !.name2 = "n2",
                                  !.flags = {"EMPTY_PATH"}]

HLink ==
    \E who \in Whos :
        \/ HandleCall(Between("LINKAT", who, {"lflags"}), <<>>,
                      TwoNames("LINKAT", who, {"lflags"}))
        \/ HandleCall(LinksFile(who), <<>>, LinkFileMsg(who))

CLink ==
    \E who \in Whos :
        \/ ConnCall(Between("LINKAT", who, {"lflags"}), <<>>,
                    TwoNames("LINKAT", who, {"lflags"}))
        \/ ConnCall(LinksFile(who), <<>>, LinkFileMsg(who))

(* ------------------------------------------------------------------------ *)
(* The loop, the kernel and the stop                                        *)
(* ------------------------------------------------------------------------ *)

FacadeInit == fc = Idle

RequestStop == ~fc.stopped /\ fc' = [fc EXCEPT !.stopped = TRUE]

DrainInjects == fc.pc = "sent" /\ fc' \in Submit(fc)

\* drain_teardown answers what is still in the channel...
TeardownAnswers ==
    /\ fc.pc = "sent" /\ fc.stopped
    /\ fc' = Answered(fc, "ECONNABORTED", Carried(fc.msg))

\* ... and a message sent past that drops with the receiver.
ReceiverGone ==
    /\ fc.pc = "sent" /\ fc.stopped
    /\ fc' = [Answered(fc, "ECONNABORTED", <<>>) EXCEPT !.lost = TRUE]

\* The kernel performs the entry, or fails it (a deadline, a cancel).  An
\* absolute path is never beneath its anchor.
KernelRuns ==
    /\ fc.pc = "staged"
    /\ \E ok \in BOOLEAN :
        /\ ok => ~(fc.sqe.addr = "/path" /\ "BENEATH" \in fc.sqe.how.resolve)
        /\ fc' = [fc EXCEPT !.pc = "ran", !.did = IF ok THEN Decode(fc.sqe) ELSE Op0]

Ok(c) == c.did.op /= "none"

\* Mutant: the guard's flag stays on the file.
DeliversUnstripped(c, live) ==
    [Answered(c, IF Ok(c) THEN "Ok" ELSE "errno", Carried(c.msg)) EXCEPT
        !.ans.file = IF Ok(c) /\ c.msg.tag = "OPEN" THEN "file" ELSE "none",
        !.ans.nonblock = "NONBLOCK" \in c.did.how.flags]

\* on_cqe: an open's descriptor becomes the file, less the guard's flag.
Delivers(c, live) ==
    [Answered(c, IF Ok(c) THEN "Ok" ELSE "errno", Carried(c.msg)) EXCEPT
        !.ans.file = IF Ok(c) /\ c.msg.tag = "OPEN" THEN "file" ELSE "none",
        !.ans.nonblock = "NONBLOCK" \in c.did.how.flags
                            /\ ~(c.msg.guarded /\ live)]

Complete == fc.pc = "ran" /\ fc' = Delivers(fc, TRUE)

\* on_drain_cqe: a caller that blocks is told, a handler's callback drops.
DrainCompletes ==
    /\ fc.pc = "ran" /\ fc.stopped
    /\ fc' = IF fc.face = "conn" THEN [fc EXCEPT !.pc = "dropped"]
             ELSE [Delivers(fc, FALSE) EXCEPT !.lost = TRUE]

FacadeNext ==
    \/ HOpens \/ COpen \/ COpenDotdot \/ HReopen \/ CReopen
    \/ HRw \/ HStartRw \/ CRw \/ HSync \/ CSync \/ CSyncRange
    \/ HGetxattr \/ HStartGetxattr \/ CGetxattr \/ HSetxattr \/ CSetxattr
    \/ HRemovexattr \/ CRemovexattr \/ HFdMeta \/ CFdMeta
    \/ HStatx \/ HStartStatx \/ CStatx \/ HPathOps \/ CPathOps
    \/ HSymlink \/ CSymlink \/ HLink \/ CLink
    \/ RequestStop \/ DrainInjects \/ TeardownAnswers \/ ReceiverGone
    \/ KernelRuns \/ Complete \/ DrainCompletes

(* ------------------------------------------------------------------------ *)
(* Properties                                                               *)
(* ------------------------------------------------------------------------ *)

\* Whatever face a method is called on, and through however many layers the
\* request passes, the kernel performs the operation the caller asked for:
\* every operand lands in the field the kernel reads it from, under the
\* personality named.  The process's own credentials are used in exactly
\* three cases: a method that says so, a write of an attribute on the allow
\* list, and a removal of one.
DoneAsAsked ==
    LET want == fc.asked
        cred == IF want.op = "FSETXATTR" /\ want.name \in Permitted
                THEN "0" ELSE want.cred
    IN  fc.did.op /= "none" =>
            /\ [fc.did EXCEPT !.how = NoHow] = [want EXCEPT !.cred = cred]
            /\ want.op = "FREMOVEXATTR" => want.name \in Permitted
            /\ (fc.msg.kind \notin {"FdMetaAsRoot", "ReopenAsRoot",
                                    "FRemoveXattr", "Rw", "Fsync"})
                   => want.cred /= "0"

\* An open the facade lets through is confined to its anchor, and it cannot
\* park a kernel worker on a special file unbounded: a timer runs beside it or,
\* when the ring had no room left for the timer, it has been retracted (a cancel
\* asked for, which may find no room either).  An absolute path gets through
\* only where the anchor is its root, and never from a handler.  The file handed
\* out is non-blocking only if the caller asked for that.
OpensGuarded ==
    LET r == fc.did.how.resolve
        f == fc.did.how.flags
    IN  /\ (fc.did.op = "OPENAT2" /\ fc.did.fd = "a1" /\ fc.did.name \in OpenPaths) =>
             /\ r \cap POLICY /= {} /\ "NO_XDEV" \in r
             /\ fc.wants.resolve \subseteq r
             /\ fc.wants.resolve \cap POLICY = {} => "NO_SYMLINKS" \in r
             /\ POLICY \subseteq r => POLICY \subseteq fc.wants.resolve
             /\ f \cap {"NONBLOCK", "PATH", "DIRECTORY"} = {} => fc.bound /= "none"
             /\ fc.wants.flags \subseteq f
             /\ fc.did.name /= ""
             /\ fc.did.name = "/path" => fc.face = "handle" /\ "IN_ROOT" \in fc.wants.resolve
        /\ (fc.did.name = "..") =>
             /\ "NO_SYMLINKS" \in r /\ r \cap POLICY = {}
             /\ ~creation_refused(f)
        /\ (fc.pc = "done" /\ ~fc.lost /\ fc.ans.file = "file") =>
             (fc.ans.nonblock <=> "NONBLOCK" \in fc.wants.flags)

\* The buffers a caller moves into a call come back in its answer, whether
\* the operation ran, was refused at any layer or met the stop; only a
\* start_* whose send is refused, or a message the teardown never saw, may
\* lose them.
BuffersBack ==
    (fc.pc = "done" /\ ~fc.lost) =>
        \/ fc.ans.bufs = fc.bufs
        \/ fc.started /\ fc.ans.res = "ECONNABORTED" /\ fc.stopped

=============================================================================
