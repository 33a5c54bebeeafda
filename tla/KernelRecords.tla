--------------------------- MODULE KernelRecords ----------------------------
(***************************************************************************)
(* Records whose layout the kernel owns: the socket addresses handed to    *)
(* and read back from it (net/core/sock.rs), file handles kept as bytes    *)
(* between processes (sync_fs/fhandle.rs), and the variable-length answer  *)
(* of statmount (mount/statmount.rs).  The kernel's side is external; a    *)
(* byte is a small number and the sizes are scaled.                        *)
(***************************************************************************)
EXTENDS Integers, Sequences, FiniteSets, SequencesExt

CONSTANTS
  Radix,        \* values of a byte
  SunPath,      \* bytes of sun_path, 108
  Addrs,        \* the addresses a server is given
  HandleSz,     \* MAX_HANDLE_SZ
  Objects,      \* files that can be named; an object's data is its own bytes
  MountDescs,   \* what statmount may be asked about: [mask, strs, opts]
  NotText,      \* bytes no UTF-8 text holds
  FirstBuf, Growth,  \* bytes of the string table's buffer, and its growth
  MaxChanges,   \* remounts while a handle or an answer is in use (a bound)
  None

VARIABLE kr

Least(a, b) == IF a < b THEN a ELSE b
Upto(q, n) == SubSeq(q, 1, Least(n, Len(q)))

-----------------------------------------------------------------------------
(* Socket addresses: [family, ip, port, flow, scope, path].                *)

ToBe(n) == <<n \div Radix, n % Radix>>
FromBe(b) == b[1] * Radix + b[2]

PathFitsBare(path) == Len(path) <= SunPath /\ ~Contains(path, 0)

\* build_sockaddr: the storage and its length, or a refusal.  A path is
\* stored with its terminator.
PathFits(path) == Len(path) + 1 <= SunPath /\ ~Contains(path, 0)

BuildSockaddr(a) ==
  CASE a.family = "unix" /\ ~PathFits(a.path) -> None
    [] a.family = "unix" /\ PathFits(a.path) ->
         [family |-> "unix", port |-> <<0, 0>>, ip |-> <<>>, flow |-> 0,
          scope |-> 0, bytes |-> Upto(a.path \o <<0>>, SunPath)]
    [] OTHER ->
         [family |-> a.family, port |-> ToBe(a.port), ip |-> a.ip,
          flow |-> IF a.family = "inet6" THEN a.flow ELSE 0,
          scope |-> IF a.family = "inet6" THEN a.scope ELSE 0, bytes |-> <<>>]

\* parse_inet: None for a family it does not know.
ParseInet(sa) ==
  IF sa.family \notin {"inet", "inet6"} THEN None
  ELSE [family |-> sa.family, ip |-> sa.ip, port |-> FromBe(sa.port),
        flow |-> sa.flow, scope |-> sa.scope, path |-> <<>>]

\* parse_peer: a unix peer has no address, whatever the storage holds.
ParsePeer(sa, kind) ==
  IF kind.family = "unix" THEN [family |-> "unix"] ELSE ParseInet(sa)

\* local_addr: the family asked for, or EINVAL.
LocalAddr(sa, kind) ==
  LET got == ParseInet(sa)
  IN  CASE kind.family = "unix" -> kind
        [] kind.family # "unix" /\ got # None -> 
             IF got.family = kind.family THEN got ELSE None
        [] OTHER -> None

\* External: what bind keeps.  Port zero takes a free one; a path ends at its
\* terminator, or at the storage's end.
Bound(sa, free) ==
  IF sa.family # "unix" /\ FromBe(sa.port) = 0
  THEN [sa EXCEPT !.port = ToBe(free)] ELSE sa

Terminated(sa) == Contains(sa.bytes, 0)

-----------------------------------------------------------------------------
(* File handles.                                                           *)

\* External: name_to_handle_at on a mount; the id is the kind asked for.
NameToHandleAt(mnt, o, unique) ==
  [type |-> mnt.fs, data |-> o, unique |-> unique,
   mount_id |-> IF unique THEN mnt.uid ELSE mnt.id]

ToBytes(h) == <<Len(h.data), h.type>> \o h.data

HEADER_SZ == 2

\* from_bytes: the encoded length against what is there.  Trailing bytes are
\* ignored.
FromBytes(q, id, unique) ==
  IF \/ Len(q) < HEADER_SZ
     \/ Len(q) > HEADER_SZ + HandleSz
     \/ q[1] > Len(q) - HEADER_SZ
  THEN None
  ELSE [type |-> q[2], data |-> SubSeq(q, HEADER_SZ + 1, HEADER_SZ + q[1]),
        unique |-> unique, mount_id |-> id]

MountUnchecked(h, mnt) == TRUE

MOUNT_ID_NONE == 0

\* FileHandle::open's check of the mount it is given.
MountMatches(h, mnt) ==
  (IF h.unique THEN mnt.uid ELSE mnt.id) = h.mount_id

\* The file opened: the kernel looks the bytes up in the mount's file system.
OpenHandle(h, mnt) ==
  IF h.mount_id = MOUNT_ID_NONE \/ ~MountMatches(h, mnt) THEN None
  ELSE [fs |-> mnt.fs, file |-> h.data]

-----------------------------------------------------------------------------
(* statmount.                                                              *)

Strings == {"mnt_root", "mnt_point", "fs_type"}

\* External: the table the kernel writes, each string ended by a zero, and
\* where each begins; a field not in the mask has offset zero.
Table(d) ==
  LET seqOf(f) == IF f \in d.mask THEN d.strs[f] \o <<0>> ELSE <<>>
      a == seqOf("mnt_root")  b == seqOf("mnt_point")  c == seqOf("fs_type")
      opts == IF "opt_array" \in d.mask
              THEN FlattenSeq([i \in DOMAIN d.opts |-> d.opts[i] \o <<0>>])
              ELSE <<>>
  IN  [bytes |-> a \o b \o c \o opts, mask |-> d.mask,
       num |-> IF "opt_array" \in d.mask THEN Len(d.opts) ELSE 0,
       off |-> [f \in Strings \cup {"opt_array"} |->
          CASE f \notin d.mask -> 0
            [] f = "mnt_root" -> 0
            [] f = "mnt_point" -> Len(a)
            [] f = "fs_type" -> Len(a) + Len(b)
            [] f = "opt_array" -> Len(a) + Len(b) + Len(c)]]

\* The call: EOVERFLOW, or the table over what the buffer held before.
Statmount(buf, d) ==
  LET t == Table(d)
  IN  IF Len(t.bytes) > Len(buf) THEN None
      ELSE [hdr |-> [mask |-> t.mask, off |-> t.off, num |-> t.num,
                     size |-> Len(t.bytes)],
            buf |-> t.bytes \o SubSeq(buf, Len(t.bytes) + 1, Len(buf))]

\* The end of the string that begins after start bytes.
EndOf(bytes, start) ==
  LET zeros == {i \in (start + 1)..Len(bytes) : bytes[i] = 0}
  IN  IF zeros = {} THEN Len(bytes)
      ELSE (CHOOSE i \in zeros : \A j \in zeros : i <= j) - 1

GetBytes(bytes, off) ==
  IF off >= Len(bytes) THEN <<>> ELSE SubSeq(bytes, off + 1, EndOf(bytes, off))

GetStrArray(bytes, off, count) ==
  LET at[k \in 1..(count + 1)] ==
        IF k = 1 THEN off ELSE EndOf(bytes, at[k - 1]) + 1
      there == {k \in 1..count : at[k] < Len(bytes)}
  IN  [k \in 1..Cardinality(there) |-> GetBytes(bytes, at[k])]

\* String::from_utf8_lossy: U+FFFD for what is not text; an invalid sequence is
\* one byte here.
REPLACEMENT == -1
Lossy(q) == [i \in DOMAIN q |-> IF q[i] \in NotText THEN REPLACEMENT ELSE q[i]]
LossyAll(qs) == [i \in DOMAIN qs |-> Lossy(qs[i])]

HasAlways(hdr, f) == TRUE

\* parse: a field is there when the answer's own mask says so.
Has(hdr, f) == f \in hdr.mask

\* The mount point is carried as raw bytes, every other string as text.
ParseStatmount(hdr, buf) ==
  LET bytes == Upto(buf, hdr.size)
      str(f) == IF f = "mnt_point" THEN GetBytes(bytes, hdr.off[f])
                ELSE Lossy(GetBytes(bytes, hdr.off[f]))
  IN  [strs |-> [f \in Strings |-> IF Has(hdr, f) THEN <<str(f)>> ELSE <<>>],
       opts |-> IF Has(hdr, "opt_array")
                THEN <<LossyAll(GetStrArray(bytes, hdr.off["opt_array"], hdr.num))>>
                ELSE <<>>]

\* What the mount is, in the same form.
Described(d) ==
  [strs |-> [f \in Strings |-> IF f \in d.mask THEN <<d.strs[f]>> ELSE <<>>],
   opts |-> IF "opt_array" \in d.mask THEN <<d.opts>> ELSE <<>>]

-----------------------------------------------------------------------------

NoMount == [id |-> 1, uid |-> 10, fs |-> 1]

KernelInit ==
  \/ \E a \in Addrs :
       kr = [part |-> "addr", addr |-> a, sa |-> None, local |-> None,
             peer |-> None, pc |-> "build"]
  \/ \E o \in Objects, u \in BOOLEAN :
       kr = [part |-> "handle", mnt |-> NoMount, named |-> [fs |-> 1, file |-> o],
             h |-> NameToHandleAt(NoMount, o, u), stored |-> None,
             opened |-> None, changes |-> MaxChanges]
  \/ \E d \in MountDescs :
       kr = [part |-> "mount", desc |-> d, buf |-> [i \in 1..FirstBuf |-> 0],
             got |-> None, was |-> None, changes |-> MaxChanges]

BuildAddr ==
  /\ kr.part = "addr" /\ kr.pc = "build"
  /\ kr' = [kr EXCEPT !.sa = BuildSockaddr(kr.addr), !.pc = "bind"]

BindAddr ==
  /\ kr.part = "addr" /\ kr.pc = "bind" /\ kr.sa # None
  /\ kr' = [kr EXCEPT !.sa = Bound(@, Radix + 1), !.pc = "local"]

ReadBack ==
  /\ kr.part = "addr" /\ kr.pc = "local"
  /\ kr' = [kr EXCEPT !.local = LocalAddr(kr.sa, kr.addr),
                      !.peer = ParsePeer(kr.sa, kr.addr), !.pc = "done"]

StoreHandle ==
  /\ kr.part = "handle" /\ kr.h # None /\ kr.stored = None
  /\ \E q \in {ToBytes(kr.h), Upto(ToBytes(kr.h), Len(ToBytes(kr.h)) - 1),
               ToBytes(kr.h) \o <<0>>, Upto(ToBytes(kr.h), 1)} :
       \E id \in {kr.h.mount_id, MOUNT_ID_NONE} :
         kr' = [kr EXCEPT !.stored = [q |-> q, id |-> id,
                                      unique |-> kr.h.unique],
                          !.h = None]

LoadHandle ==
  /\ kr.part = "handle" /\ kr.stored # None /\ kr.h = None
  /\ kr' = [kr EXCEPT !.h = FromBytes(kr.stored.q, kr.stored.id,
                                      kr.stored.unique)]
  /\ kr'.h # None

\* Another file system is mounted there; the old kind of id is used again.
Remount ==
  /\ kr.part = "handle" /\ kr.changes > 0
  /\ \E i \in {1, 2} :
       kr' = [kr EXCEPT !.mnt = [id |-> i, uid |-> @.uid + 1, fs |-> 2],
                        !.changes = @ - 1]

OpenByHandle ==
  /\ kr.part = "handle" /\ kr.h # None
  /\ kr' = [kr EXCEPT !.opened = OpenHandle(kr.h, kr.mnt)]

\* statmount's loop: one more call, or a larger buffer.
CallStatmount ==
  /\ kr.part = "mount" /\ kr.got = None
  /\ LET r == Statmount(kr.buf, kr.desc)
     IN  kr' = IF r = None
               THEN [kr EXCEPT !.buf = @ \o [i \in 1..Growth |-> 0]]
               ELSE [kr EXCEPT !.buf = r.buf, !.was = Described(kr.desc),
                               !.got = ParseStatmount(r.hdr, r.buf)]

MountChanges ==
  /\ kr.part = "mount" /\ kr.changes > 0 /\ kr.got = None
  /\ \E d \in MountDescs : kr' = [kr EXCEPT !.desc = d, !.changes = @ - 1]

KernelNext ==
  \/ BuildAddr \/ BindAddr \/ ReadBack
  \/ StoreHandle \/ LoadHandle \/ Remount \/ OpenByHandle
  \/ CallStatmount \/ MountChanges

-----------------------------------------------------------------------------

\* Each string of a list is shown: as it was, or marked where it is no text.
AllShown(got, was) ==
  /\ Len(got) = Len(was)
  /\ \A n \in DOMAIN was :
       LET bad == {i \in DOMAIN was[n] : was[n][i] \in NotText}
       IN  /\ Len(got[n]) = Len(was[n])
           /\ \A i \in DOMAIN was[n] : i \notin bad => got[n][i] = was[n][i]
           /\ bad = {} \/ Contains(got[n], REPLACEMENT) \/ got[n] = was[n]

\* What goes through the kernel's records comes back as it was: an address
\* that was bound reads back as given, port and scope included, and a path the
\* kernel is given is always terminated (build_sockaddr, local_addr); a file
\* handle kept as bytes opens the file it was made for or is refused, cut or
\* padded storage included, and one with a unique mount id is never opened on
\* another mount (from_bytes, open); statmount's answer is the mount as one
\* call described it, absent fields absent, however often the buffer grew or
\* the mount changed: the mount point byte for byte, every other string byte
\* for byte where it is text, with U+FFFD for what is not, so that a string
\* that was changed shows it (statmount, parse).
RecordsExact ==
  CASE kr.part = "addr" ->
         /\ (kr.sa # None /\ kr.sa.family = "unix") => Terminated(kr.sa)
         /\ (kr.pc = "done" /\ kr.addr.family # "unix") =>
              /\ kr.local # None
              /\ [kr.local EXCEPT !.port = kr.addr.port] = kr.addr
              /\ kr.addr.port # 0 => kr.local.port = kr.addr.port
              /\ kr.local.port # 0 /\ kr.peer = kr.local
    [] kr.part = "handle" ->
         /\ kr.opened # None =>
              /\ kr.opened.file = kr.named.file
              /\ (kr.stored = None \/ kr.stored.unique)
                 /\ (kr.h # None => kr.h.unique)
                   => kr.opened.fs = kr.named.fs
    [] kr.part = "mount" ->
         kr.got # None =>
           /\ kr.got.strs["mnt_point"] = kr.was.strs["mnt_point"]
           /\ \A f \in Strings : AllShown(kr.got.strs[f], kr.was.strs[f])
           /\ Len(kr.got.opts) = Len(kr.was.opts)
           /\ \A n \in DOMAIN kr.was.opts : AllShown(kr.got.opts[n], kr.was.opts[n])

-----------------------------------------------------------------------------
(***************************************************************************)
(* Reading fanotify events (src/sync_fs/fanotify.rs): the events of one    *)
(* read, laid end to end by their lengths, their info records likewise,    *)
(* and the descriptors the kernel opened for the process with them, which  *)
(* are nobody's until an event is taken out of the buffer.                 *)
(*                                                                         *)
(* A cell stands for a field: an event begins with <<length, version,      *)
(* length of this part, fd>>, a record with <<type, length>>.  The model   *)
(* indexes the cells as the code indexes bytes, so a read outside a slice  *)
(* is an error of evaluation.                                              *)
(***************************************************************************)

CONSTANTS
  Reads,    \* [cells, events]: what a read returned; events is what the kernel put there, or None
  NoFd      \* FAN_NOFD, negative

VARIABLE fe

METADATA_VERSION   == 3
EVENT_METADATA_LEN == 4
HEADER_LEN         == 2
HANDLE_AT          == 2   \* size_of::<RawFid>, the fsid not carried
INFO_FID           == 1
INFO_DFID_NAME     == 2
INFO_PIDFD         == 4
INFO_MNT           == 7

Slice(b, from, to) == SubSeq(b, from + 1, to)
At(b, i)           == b[i + 1]

(***************************************************************************)
(* The decoder.  A split gives what it found and the rest, or an error.    *)
(***************************************************************************)
Bad == [ok |-> FALSE, is |-> None, rest |-> <<>>]
Got(x, rest) == [ok |-> TRUE, is |-> x, rest |-> rest]

EventFits(b) == At(b, 2) >= EVENT_METADATA_LEN /\ At(b, 2) <= At(b, 0) /\ At(b, 0) <= Len(b)

SplitEvent(b) ==
  IF Len(b) < EVENT_METADATA_LEN THEN Bad
  ELSE IF At(b, 1) # METADATA_VERSION \/ ~EventFits(b) THEN Bad
  ELSE Got([fd |-> At(b, 3), info |-> Slice(b, At(b, 2), At(b, 0))], Slice(b, At(b, 0), Len(b)))

\* fid: the handle by its own length, then for the named kinds a name up to a
\* NUL.
FidOf(t, r) ==
  LET room == Len(r) - HANDLE_AT - 1
      end  == HANDLE_AT + 1 + At(r, HANDLE_AT)
      tail == Slice(r, end, Len(r))
      nuls == {i \in 1..Len(tail) : tail[i] = 0}
  IN IF Len(r) < HANDLE_AT + 1 THEN Bad
     ELSE IF At(r, HANDLE_AT) > room THEN Bad
     ELSE IF t = INFO_FID THEN Got(<<t, Slice(r, HANDLE_AT, end)>>, <<>>)
     ELSE IF nuls = {} THEN Bad
     ELSE Got(<<t, Slice(r, HANDLE_AT, end), SubSeq(tail, 1, (CHOOSE i \in nuls : \A j \in nuls : i <= j) - 1)>>, <<>>)

SplitInfo(b) ==
  IF Len(b) < HEADER_LEN THEN Bad
  ELSE IF At(b, 1) < HEADER_LEN \/ At(b, 1) > Len(b) THEN Bad
  ELSE LET r    == Slice(b, 0, At(b, 1))
           rest == Slice(b, At(b, 1), Len(b))
           fid  == FidOf(At(b, 0), r)
       IN CASE At(b, 0) \in {INFO_FID, INFO_DFID_NAME} -> IF fid.ok THEN Got(fid.is, rest) ELSE Bad
            [] At(b, 0) \in {INFO_PIDFD, INFO_MNT} ->
                 IF Len(r) < HEADER_LEN + 1 THEN Bad ELSE Got(<<At(b, 0), At(r, HEADER_LEN)>>, rest)
            [] OTHER -> Got(<<At(b, 0), Slice(r, HEADER_LEN, Len(r))>>, rest)

\* InfoIter: an error is the last item.
RECURSIVE Infos(_)
Infos(b) ==
  IF b = <<>> THEN <<>>
  ELSE LET s == SplitInfo(b) IN IF s.ok THEN <<s.is>> \o Infos(s.rest) ELSE <<None>>

(***************************************************************************)
(* Fanotify::read, Events and ReadEvent.                                   *)
(***************************************************************************)
FanInit ==
  \E r \in Reads :
    fe = [rest |-> r.cells, sent |-> r.events, got |-> <<>>, held |-> {}, closed |-> <<>>, faults |-> 0, live |-> TRUE]

\* The descriptors an event brings: its own, and the first pidfd of its records.
Adopt(fd) == IF fd >= 0 THEN {fd} ELSE {}
PidfdsOf(infos) == SelectSeq(infos, LAMBDA x : x # None /\ x[1] = INFO_PIDFD)
Pidfd(infos) == IF PidfdsOf(infos) = <<>> THEN {} ELSE Adopt(PidfdsOf(infos)[1][2])

TakeOne(s) ==
  LET e == SplitEvent(s.rest)
      infos == Infos(e.is.info)
  IN IF ~e.ok THEN [s EXCEPT !.rest = <<>>, !.faults = @ + 1]
     ELSE [s EXCEPT !.rest = e.rest, !.got = Append(@, [fd |-> e.is.fd, infos |-> infos]),
                    !.held = @ \cup Adopt(e.is.fd) \cup Pidfd(infos)]

\* The caller takes the next event, and keeps or drops what it took.
NextEvent == fe.live /\ fe.rest # <<>> /\ fe' = TakeOne(fe)
DropFd(fd) == fd \in fe.held /\ fe' = [fe EXCEPT !.held = @ \ {fd}, !.closed = Append(@, fd)]

\* Drop for Events: each event left is taken and dropped.
RECURSIVE Drain(_)
Drain(s) ==
  IF s.rest = <<>> THEN s
  ELSE LET t == TakeOne([s EXCEPT !.held = {}])
       IN Drain([t EXCEPT !.held = s.held, !.closed = @ \o SetToSeq(t.held)])

\* Mutant: dropping the iterator passes over what is left.
DropEventsOnly == fe.live /\ fe' = [fe EXCEPT !.rest = <<>>, !.got = fe.sent, !.live = FALSE]

DropEvents == fe.live /\ fe' = [Drain(fe) EXCEPT !.live = FALSE]

FanNext == NextEvent \/ DropEvents \/ \E fd \in fe.held : DropFd(fd)

(***************************************************************************)
(* Properties.                                                             *)
(***************************************************************************)
\* The descriptors the kernel opened with a read.
Opened == UNION {Adopt(fe.sent[i].fd) \cup Pidfd(fe.sent[i].infos) : i \in DOMAIN fe.sent}

\* Of what the kernel wrote, every event and record is decoded, in order and
\* once; every descriptor that came with it is held by the caller or closed,
\* never both and never twice, and once the iterator is gone none is left
\* that nobody owns, wherever the caller stopped.  Cells that are no event
\* end the iteration with one error.
EventsOwned ==
  /\ fe.faults <= 1
  /\ fe.sent # None =>
       /\ fe.faults = 0
       /\ IsPrefix(fe.got, fe.sent) /\ (fe.rest = <<>> => fe.got = fe.sent)
       /\ IsInjective(fe.closed) /\ Range(fe.closed) \cap fe.held = {}
       /\ ~fe.live => fe.held \cup Range(fe.closed) = Opened
=============================================================================
