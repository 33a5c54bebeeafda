-------------------------- MODULE ProcessServices ---------------------------
(***************************************************************************)
(* What the process around the loops relies on: the journal and the audit  *)
(* log, protected memory, and signals.  They share no state.               *)
(***************************************************************************)
EXTENDS Integers, Sequences, FiniteSets, SequencesExt, FiniteSetsExt

(***************************************************************************)
(* What the process reports: the journal sink (src/log/journal.rs) with    *)
(* its count of lost records, called from any thread; and the audit socket *)
(* (src/audit), a record sent to the kernel and its acknowledgement read   *)
(* back.  jl is the journal, au the audit socket.                          *)
(*                                                                         *)
(* Text is a sequence of small numbers, one per character: NL is a         *)
(* newline, WIDE one of three bytes; for the audit text SP, DQ, SQ, EQ and *)
(* COLON are the ones that matter.                                         *)
(***************************************************************************)

CONSTANTS
  Emitters,      \* threads that log
  Records,       \* what they log: sequences of <<name, pieces>>, pieces what Display writes
  MaxEmits,      \* records per thread
  MAX_VALUE,     \* bytes kept of a value
  AuditEvents,   \* [service, verb, user, fields, success]
  MAX_RECORD_LEN, \* the longest text sent
  MaxSends, AckScanLimit, SeqWrap,
  MaxStray,      \* datagrams of other netlink peers
  None

VARIABLES jl, au

NL == 0
WIDE == 9
CUTMARK == 99
SP == 2
DQ == 3
SQ == 4
EQ == 6
COLON == 7

(***************************************************************************)
(* One journal record: encode, push, write_bounded.                        *)
(***************************************************************************)
\* A character's bytes; the cut mark is three.
BytesOf(c)   == IF c \in {WIDE, CUTMARK} THEN <<c, -c, -c>> ELSE <<c>>
Utf8(s)      == FlattenSeq([i \in DOMAIN s |-> BytesOf(s[i])])

\* Mutant: cut wherever the room ends.
KeepAny(s, room) == room

\* The most bytes of s that fit and end on a character boundary.
Keep(s, room) ==
  LET ends == {Len(Utf8(SubSeq(s, 1, k))) : k \in 0..Len(s)}
  IN CHOOSE k \in ends : k <= room /\ \A j \in ends : j <= room => j <= k

\* Bounded::write_str, piece after piece.
WriteStr(b, s) ==
  LET u == Utf8(s) room == MAX_VALUE - Len(b.buf)
  IN IF b.cut THEN b
     ELSE IF Len(u) <= room THEN [b EXCEPT !.buf = @ \o u]
     ELSE [buf |-> b.buf \o SubSeq(u, 1, Keep(s, room)), cut |-> TRUE]
WriteBounded(pieces) ==
  LET b == FoldLeft(WriteStr, [buf |-> <<>>, cut |-> FALSE], pieces)
  IN IF b.cut THEN b.buf \o Utf8(<<CUTMARK>>) ELSE b.buf

\* push: NAME=value, or NAME, the length and the value where it has a newline.
PushField(buf, f) ==
  LET v == WriteBounded(f[2])
  IN buf \o <<f[1]>> \o (IF NL \in Range(v) THEN <<NL, Len(v)>> ELSE <<EQ>>) \o v \o <<NL>>
Encode(rec) == FoldLeft(PushField, <<>>, rec)

\* The journal's reading of it.
RECURSIVE JournalReads(_)
JournalReads(b) ==
  IF b = <<>> THEN <<>>
  ELSE LET end == IF b[2] = NL THEN 3 + b[3] + 1
                  ELSE CHOOSE i \in 3..Len(b) : b[i] = NL /\ \A j \in 3..(i - 1) : b[j] # NL
           from == IF b[2] = NL THEN 4 ELSE 3
       IN <<<<b[1], SubSeq(b, from, end - 1)>>>> \o JournalReads(SubSeq(b, end + 1, Len(b)))

\* Every character of it whole.
Whole(v) == \A i \in DOMAIN v : v[i] \in {WIDE, CUTMARK} => i + 2 <= Len(v) /\ v[i + 1] = -v[i] /\ v[i + 2] = -v[i]

(***************************************************************************)
(* Journal::send, from several threads, to a journal that may be away or   *)
(* full.                                                                   *)
(***************************************************************************)
JournalInit ==
  jl = [lost |-> 0, pc |-> [e \in Emitters |-> "idle"], rec |-> [e \in Emitters |-> <<>>], said |-> [e \in Emitters |-> 0],
        missing |-> 0, told |-> 0, wire |-> {}, emits |-> [e \in Emitters |-> 0], on |-> TRUE]

\* emit, at a level that is on: the count is taken.
SendBegin(e, r) ==
  /\ jl.pc[e] = "idle" /\ jl.emits[e] < MaxEmits /\ jl.on
  /\ jl' = [jl EXCEPT !.emits[e] = @ + 1, !.rec[e] = r, !.said[e] = jl.lost, !.lost = 0,
                      !.pc[e] = IF jl.lost > 0 THEN "notice" ELSE "record"]

SetLevel == jl' = [jl EXCEPT !.on = ~@]

\* Mutant: a notice that could not be sent is forgotten with its count.
NoticeForgotten(e) ==
  /\ jl.pc[e] = "notice"
  /\ \/ jl' = [jl EXCEPT !.told = @ + jl.said[e], !.said[e] = 0, !.pc[e] = "record"]
     \/ jl' = [jl EXCEPT !.said[e] = 0, !.pc[e] = "record"]

\* The gap is said first; if that fails the count goes back.
Notice(e) ==
  /\ jl.pc[e] = "notice"
  /\ \/ jl' = [jl EXCEPT !.told = @ + jl.said[e], !.said[e] = 0, !.pc[e] = "record"]
     \/ jl' = [jl EXCEPT !.pc[e] = "putback"]
PutBack(e) ==
  jl.pc[e] = "putback" /\ jl' = [jl EXCEPT !.lost = @ + jl.said[e], !.said[e] = 0, !.pc[e] = "record"]

SendRecord(e) ==
  /\ jl.pc[e] = "record"
  /\ \/ jl' = [jl EXCEPT !.wire = {<<jl.rec[e], Encode(jl.rec[e])>>}, !.pc[e] = "idle"]
     \/ jl' = [jl EXCEPT !.missing = @ + 1, !.pc[e] = "count"]
CountLost(e) == jl.pc[e] = "count" /\ jl' = [jl EXCEPT !.lost = @ + 1, !.pc[e] = "idle"]

JournalNext ==
  \/ SetLevel
  \/ \E e \in Emitters : Notice(e) \/ PutBack(e) \/ SendRecord(e) \/ CountLost(e) \/ \E r \in Records : SendBegin(e, r)

(***************************************************************************)
(* The text of an audit record (src/audit/record.rs).                      *)
(***************************************************************************)
\* Mutant: the kernel's rule alone, without the apostrophe.
NeedsEncodingKernel(v) == \E i \in DOMAIN v : v[i] \in {SP, DQ}

NeedsEncoding(v) == \E i \in DOMAIN v : v[i] \in {SP, DQ, SQ}
Hex(v)           == [i \in DOMAIN v |-> 100 + v[i]]
Separate(out)    == IF out = <<>> THEN out ELSE Append(out, SP)
EncodeNv(out, key, v) ==
  Separate(out) \o key \o <<EQ>> \o (IF NeedsEncoding(v) THEN Hex(v) ELSE <<DQ>> \o v \o <<DQ>>)
SanitizeKey(key) == [i \in DOMAIN key |-> IF key[i] \in {SP, DQ, SQ, EQ, COLON} THEN 8 ELSE key[i]]

OP == <<11>>
ACCT == <<12>>
RES == <<13>>
PushOpt(out, key, v) == IF v = None THEN out ELSE EncodeNv(out, key, v)
WriteMessage(ev) ==
  LET op  == ev.service \o <<COLON>> \o ev.verb
      o1  == IF NeedsEncoding(ev.service) \/ NeedsEncoding(ev.verb) THEN EncodeNv(<<>>, OP, op) ELSE OP \o <<EQ>> \o op
      o2  == PushOpt(o1, ACCT, ev.user)
      o3  == FoldLeft(LAMBDA out, f : EncodeNv(out, SanitizeKey(f[1]), f[2]), o2, ev.fields)
  IN Separate(o3) \o RES \o <<EQ, IF ev.success THEN 1 ELSE 5>>

\* A reader's view: the kernel wraps the text in apostrophes; words by spaces,
\* a value quoted, in hex, or bare.
Before(s, c) == LET at == {i \in DOMAIN s : s[i] = c} IN
  IF at = {} THEN s ELSE SubSeq(s, 1, (CHOOSE i \in at : \A j \in at : i <= j) - 1)
ValueIn(w) ==
  IF w # <<>> /\ w[1] = DQ THEN Before(Tail(w), DQ)
  ELSE IF \A i \in DOMAIN w : w[i] >= 100 THEN [i \in DOMAIN w |-> w[i] - 100] ELSE w
RECURSIVE AuditReads(_)
AuditReads(s) ==
  IF s = <<>> THEN <<>>
  ELSE LET w == Before(s, SP) k == Before(w, EQ)
       IN <<<<k, ValueIn(SubSeq(w, Len(k) + 2, Len(w)))>>>> \o AuditReads(SubSeq(s, Len(w) + 2, Len(s)))
AuditFields(ev) ==
  <<<<OP, ev.service \o <<COLON>> \o ev.verb>>>>
  \o (IF ev.user = None THEN <<>> ELSE <<<<ACCT, ev.user>>>>)
  \o [i \in DOMAIN ev.fields |-> <<SanitizeKey(ev.fields[i][1]), ev.fields[i][2]>>]
  \o <<<<RES, <<IF ev.success THEN 1 ELSE 5>>>>>>

(***************************************************************************)
(* AuditSocket: send_text and read_ack.                                    *)
(***************************************************************************)
\* verdict: what the kernel made of each record sent, by its number; queue:
\* acknowledgements to be read; owed: those the kernel has still to give.
AuditInit ==
  \E s \in {0, SeqWrap - 2} :
    au = [seq |-> s, n |-> 0, pc |-> "idle", verdict |-> <<>>, seqOf |-> <<>>, queue |-> <<>>, owed |-> {}, scans |-> 0,
          ret |-> "none", why |-> "none", msg |-> <<>>, ev |-> None, stray |-> 0]

\* wrapping_add(1).max(1).
NextSeq(s) == IF (s + 1) % SeqWrap = 0 THEN 1 ELSE (s + 1) % SeqWrap

\* What a verdict is to the caller; sendto's own errors are told the same way.
DecodeAck(is) == CASE is = "ok" -> "Delivered" [] is = "EPERM" -> "Unavailable" [] OTHER -> is

\* A text too long is refused before it has a sequence number; sendto may fail.
SendText(ev) ==
  /\ au.pc = "idle" /\ au.n < MaxSends
  /\ LET asked == [au EXCEPT !.n = @ + 1, !.ev = ev, !.msg = WriteMessage(ev), !.ret = "none", !.why = "none"]
         a == [asked EXCEPT !.seq = NextSeq(@)]
         Recorded(s, v) == [s EXCEPT !.verdict = Append(@, v), !.seqOf = Append(@, s.seq)]
     IN IF Len(asked.msg) > MAX_RECORD_LEN
        THEN au' = [Recorded(asked, "unsent") EXCEPT !.ret = "EMSGSIZE", !.why = "refused"]
        ELSE \/ \E v \in {"ok", "EPERM", "EIO"} :
                  au' = [Recorded(a, v) EXCEPT !.owed = @ \cup {a.n}, !.pc = "ack", !.scans = 0]
             \/ \E e \in {"EPERM", "ENOBUFS"} :
                  au' = [Recorded(a, "unsent") EXCEPT !.ret = DecodeAck(e), !.why = "refused"]

\* The kernel acknowledges, late or at once; another peer's datagram may come.
AckArrives(k) ==
  /\ k \in au.owed
  /\ au' = [au EXCEPT !.owed = @ \ {k}, !.queue = Append(@, [from |-> 0, seq |-> au.seqOf[k], is |-> au.verdict[k]])]
StrayArrives(s) ==
  /\ au.stray < MaxStray
  /\ au' = [au EXCEPT !.stray = @ + 1, !.queue = Append(@, [from |-> 1, seq |-> s, is |-> "EIO"])]

\* Mutant: the first acknowledgement is taken for the record's own.
OwnAckAny(d) == d.from = 0

OwnAck(d) == d.from = 0 /\ d.seq = au.seq

ReadAck ==
  /\ au.pc = "ack"
  /\ \/ /\ au.scans = AckScanLimit
        /\ au' = [au EXCEPT !.ret = "Delivered", !.why = "scanned", !.pc = "idle"]
     \/ /\ au.scans < AckScanLimit /\ au.queue # <<>>
        /\ LET d == Head(au.queue) a == [au EXCEPT !.queue = Tail(@), !.scans = @ + 1]
           IN au' = IF OwnAck(d) THEN [a EXCEPT !.ret = DecodeAck(d.is), !.why = "acked", !.pc = "idle"] ELSE a
     \/ /\ au.scans < AckScanLimit /\ au.queue = <<>>
        /\ au' = [au EXCEPT !.ret = "Delivered", !.why = "timeout", !.pc = "idle"]

AuditNext ==
  \/ ReadAck
  \/ \E ev \in AuditEvents : SendText(ev)
  \/ \E k \in au.owed : AckArrives(k)
  \/ \E s \in {au.seq, NextSeq(au.seq)} : StrayArrives(s)

(***************************************************************************)
(* Properties.                                                             *)
(***************************************************************************)
\* Every record the journal did not get is accounted for once, across all
\* threads: in the count, in the hands of the thread about to say it, or in a
\* notice the journal has; and every record it did get reads back field by
\* field, a value too long for it cut between two characters.
LossAccounted ==
  /\ jl.missing = jl.told + jl.lost + Cardinality({e \in Emitters : jl.pc[e] = "count"})
                  + FoldLeft(LAMBDA a, e : a + jl.said[e], 0, SetToSeq(Emitters))
  /\ \A w \in jl.wire :
       /\ JournalReads(w[2]) = [i \in DOMAIN w[1] |-> <<w[1][i][1], WriteBounded(w[1][i][2])>>]
       /\ \A i \in DOMAIN w[1] : Whole(WriteBounded(w[1][i][2]))

\* A send is answered with the kernel's verdict on that very record, never with
\* a late one on an earlier record or a word from another peer; the text of a
\* record reads back as its fields, and no value ends it early.
VerdictOwn ==
  /\ au.why = "acked" => au.ret = DecodeAck(au.verdict[au.n])
  /\ au.ev # None => /\ AuditReads(au.msg) = AuditFields(au.ev)
                     /\ SQ \notin Range(au.msg)

-----------------------------------------------------------------------------
(***************************************************************************)
(* Protected memory (src/secrets.rs): SecretMem::with_capacity, one system *)
(* call at a time and each able to fail, against a locked-page limit that  *)
(* other processes of the user charge as well; unbound_memlock, available  *)
(* and drop.  A length is a number of bytes of pages of PageSize.          *)
(***************************************************************************)

CONSTANTS
  PageSize,
  Lens,        \* the lengths asked for
  Limits,      \* soft and hard limits a process starts with, in pages
  Unlimited,   \* RLIM_INFINITY
  MaxOther,    \* what other processes charge (a bound)
  MaxRegions   \* regions alive at once (a bound)

VARIABLE se

Idle0 == [at |-> "idle", len |-> 0, mapped |-> 0, done |-> 0, dontfork |-> FALSE]

SecretInit ==
  \E soft, hard \in Limits, cap \in BOOLEAN :
    /\ soft <= hard
    /\ se = [call |-> Idle0, fds |-> 0, maps |-> 0, regions |-> <<>>,
             charged |-> 0, other |-> 0, soft |-> soft, hard |-> hard,
             cap |-> cap, answer |-> "none", kid |-> "none"]

\* checked_next_multiple_of(page) of at least one byte, in pages.
Pages(len) == (Max({len, 1}) + PageSize - 1) \div PageSize

-----------------------------------------------------------------------------
(* with_capacity, from one system call to the next.                        *)

At(s, at) == [s EXCEPT !.call.at = at]

\* An early return: the OwnedFd closes, and its caller sees the error.
Fail(s, e) == [s EXCEPT !.call = Idle0, !.fds = @ - 1, !.answer = e]

\* memfd_secret, the length rounded up first.
Open(s, len) ==
  [s EXCEPT !.fds = @ + 1, !.answer = "none",
     !.call = [Idle0 EXCEPT !.at = "truncate", !.len = len, !.mapped = Pages(len)]]

Map(s) == [At(s, "advise") EXCEPT !.maps = @ + 1]

\* munmap frees the folios the region had faulted in.
Unmap(s, pages) == [s EXCEPT !.maps = @ - 1, !.charged = @ - pages]

\* Mutant: the mapping outlives the failed prefault.
RefusedLeaves(s, e) == Fail(s, e)

\* madvise or prefault refused: unmapped before the error goes back.
Refused(s, e) == Fail(Unmap(s, s.call.done), e)

Advised(s) == [At(s, "fault") EXCEPT !.call.dontfork = TRUE]

\* A page is charged as it is touched, against the user's total.
Room(s) == s.soft = Unlimited \/ s.charged + s.other < s.soft

\* One read of /dev/zero: a page taken in, or the refusal of the next one.
Fault(s) == [s EXCEPT !.call.done = @ + 1, !.charged = @ + 1]

Prefault(s) == IF Room(s) THEN Fault(s) ELSE Refused(s, "EFAULT")

Built(s) ==
  [s EXCEPT !.call = Idle0, !.fds = @ - 1, !.answer = "ok",
     !.regions = Append(@, [len |-> s.call.len, mapped |-> s.call.mapped,
                            done |-> s.call.done, dontfork |-> s.call.dontfork])]

-----------------------------------------------------------------------------

Quiet == se.call.at = "idle"

WithCapacity ==
  \/ \E len \in Lens :
       /\ Quiet /\ Len(se.regions) < MaxRegions
       /\ se' \in {Open(se, len), [se EXCEPT !.answer = "ENOSYS"]}
  \/ /\ se.call.at = "truncate"
     /\ se' \in {At(se, "map"), Fail(se, "EIO")}
  \/ /\ se.call.at = "map"
     /\ se' \in {Map(se), Fail(se, "EAGAIN")}
  \/ /\ se.call.at = "advise"
     /\ se' \in {Advised(se), Refused(se, "EINVAL")}
  \/ /\ se.call.at = "fault" /\ se.call.done < se.call.mapped
     /\ se' \in {Prefault(se), Refused(se, "EMFILE")}
  \/ /\ se.call.at = "fault" /\ se.call.done = se.call.mapped
     /\ se' = Built(se)

\* Drop
Drop ==
  \E i \in DOMAIN se.regions :
    /\ Quiet
    /\ se' = [Unmap(se, se.regions[i].done) EXCEPT
                !.regions = SubSeq(@, 1, i - 1) \o SubSeq(@, i + 1, Len(@))]

\* SecretMem::available: a probe's descriptor is closed at once, and only an
\* error that holds for the whole process says no.
Available ==
  \E e \in {"ok", "ENOSYS", "EPERM", "EMFILE", "ENOMEM"} :
    /\ Quiet
    /\ se' = [se EXCEPT !.answer = IF e \in {"ENOSYS", "EPERM"} THEN "no" ELSE "yes"]

\* unbound_memlock: the hard limit needs CAP_SYS_RESOURCE; without it the soft
\* one goes up to the hard one and the error still goes back.
UnboundMemlock ==
  /\ Quiet
  /\ se' = IF se.cap \/ se.hard = Unlimited
           THEN [se EXCEPT !.soft = Unlimited, !.hard = Unlimited, !.answer = "ok"]
           ELSE [se EXCEPT !.soft = se.hard, !.answer = "EPERM"]

\* Another process of the user charges a page or gives one back.
OtherCharges ==
  \E n \in {-1, 1} :
    /\ se.other + n \in 0..MaxOther
    /\ se' = [se EXCEPT !.other = @ + n]

\* fork, by any thread at any time: the child gets the mappings not marked
\* VM_DONTCOPY, the one between its mmap and its madvise included ("early").
Fork ==
  /\ se.kid = "none"
  /\ se' = [se EXCEPT !.kid = IF \E i \in DOMAIN se.regions : ~se.regions[i].dontfork THEN "shares"
                              ELSE IF se.maps > Len(se.regions) /\ ~se.call.dontfork THEN "early"
                              ELSE "bare"]

SecretNext == WithCapacity \/ Drop \/ Available \/ UnboundMemlock \/ OtherCharges \/ Fork

-----------------------------------------------------------------------------

\* A region handed out has every page of it charged and taken in, so no touch
\* of it can be refused later whatever the other processes charge; a child
\* holds no region built before its fork; and every failed construction leaves no mapping, no
\* descriptor and no charge behind (SecretMem::with_capacity, prefault, drop).
SecretsHeld ==
  /\ \A i \in DOMAIN se.regions :
       /\ se.regions[i].done = se.regions[i].mapped
       /\ se.regions[i].len <= se.regions[i].mapped * PageSize
  /\ se.kid # "shares"
  /\ Quiet => /\ se.maps = Len(se.regions) /\ se.fds = 0
              /\ se.charged = MapThenSumSet(LAMBDA i : se.regions[i].mapped, DOMAIN se.regions)

-----------------------------------------------------------------------------
(***************************************************************************)
(* Blocking signals and taking them (src/signal.rs): block and             *)
(* block_strict on one thread while others run, start and exit, the signal *)
(* wait and the signalfd.                                                  *)
(*                                                                         *)
(* One signal of the set is enough.  A thread has it blocked or not and a  *)
(* new one inherits its creator's mask; a signal to the process goes to    *)
(* some thread that has it unblocked, where its default action ends the    *)
(* process, or stays pending for a thread that waits.                      *)
(***************************************************************************)

CONSTANTS
  Tids,       \* threads there may be; Main is one
  Main,
  Early,      \* the threads there may be before the call: a set of sets
  Strict,     \* {TRUE}: block_strict; {FALSE}: block; or both
  MaxRaised

VARIABLE sg

SigInit ==
  \E e \in Early, st \in Strict :
    sg = [live |-> {Main} \cup e, blocked |-> {}, strict |-> st, pc |-> "start", listed |-> {}, ret |-> "none",
          pending |-> FALSE, dead |-> FALSE, raised |-> 0, taken |-> 0, merged |-> 0, ready |-> {}, alone |-> FALSE]

\* block: this thread's mask.
Block ==
  /\ sg.pc = "start" /\ ~sg.dead
  /\ sg' = [sg EXCEPT !.blocked = @ \cup {Main}, !.alone = sg.live = {Main}, !.pc = IF sg.strict THEN "list" ELSE "done",
                      !.ret = IF sg.strict THEN @ ELSE "ok"]

\* block_strict: the task directory is read, then each status; a thread that
\* has exited is passed over.
ListTasks ==
  /\ sg.pc = "list" /\ ~sg.dead
  /\ \/ sg' = [sg EXCEPT !.listed = sg.live \ {Main}, !.pc = "scan"]
     \/ sg' = [sg EXCEPT !.ret = "ENOSYS", !.pc = "done"]
ScanTask(t) ==
  /\ sg.pc = "scan" /\ ~sg.dead /\ t \in sg.listed
  /\ \/ t \notin sg.live /\ sg' = [sg EXCEPT !.listed = @ \ {t}]
     \/ t \in sg.live /\ t \in sg.blocked /\ sg' = [sg EXCEPT !.listed = @ \ {t}]
     \/ t \in sg.live /\ t \notin sg.blocked /\ sg' = [sg EXCEPT !.ret = "EBUSY", !.pc = "done"]
ScanDone == sg.pc = "scan" /\ ~sg.dead /\ sg.listed = {} /\ sg' = [sg EXCEPT !.ret = "ok", !.pc = "done"]

\* Any thread starts another, which has its mask; any but the caller exits.
StartThread(by, t) ==
  /\ ~sg.dead /\ by \in sg.live /\ t \notin sg.live
  /\ sg' = [sg EXCEPT !.live = @ \cup {t}, !.blocked = IF by \in @ THEN @ \cup {t} ELSE @ \ {t}]
ExitThread(t) == ~sg.dead /\ t \in sg.live \ {Main} /\ sg' = [sg EXCEPT !.live = @ \ {t}, !.ready = @ \ {t}]

\* The signal is sent to the process: an unblocked thread takes its default
\* action, else it is pending; one more while pending is merged.
Raise ==
  /\ ~sg.dead /\ sg.raised < MaxRaised
  /\ sg' = IF sg.live \ sg.blocked # {} THEN [sg EXCEPT !.raised = @ + 1, !.dead = TRUE]
           ELSE [sg EXCEPT !.raised = @ + 1, !.merged = IF sg.pending THEN @ + 1 ELSE @, !.pending = TRUE]

\* Blocked::wait and wait_timeout: sigwaitinfo takes the pending signal.
Waiters == sg.live \cap sg.blocked
Wait(t) ==
  /\ ~sg.dead /\ sg.pc = "done" /\ t \in Waiters /\ sg.pending
  /\ sg' = [sg EXCEPT !.pending = FALSE, !.taken = @ + 1]

\* SignalFd::wait: ppoll, then a read that does not block; another reader may
\* have been first, which is a read of nothing.
PollReady(t) ==
  /\ ~sg.dead /\ sg.pc = "done" /\ t \in Waiters \ sg.ready /\ sg.pending
  /\ sg' = [sg EXCEPT !.ready = @ \cup {t}]

\* Mutant: what ppoll said is taken for a signal.
ReadFdTrusting(t) ==
  /\ ~sg.dead /\ t \in sg.ready
  /\ sg' = [sg EXCEPT !.ready = @ \ {t}, !.taken = @ + 1, !.pending = FALSE]

ReadFd(t) ==
  /\ ~sg.dead /\ t \in sg.ready
  /\ sg' = [sg EXCEPT !.ready = @ \ {t}, !.taken = IF sg.pending THEN @ + 1 ELSE @, !.pending = FALSE]

SigNext ==
  \/ Block \/ ListTasks \/ ScanDone \/ Raise
  \/ \E t \in Tids : ScanTask(t) \/ ExitThread(t) \/ Wait(t) \/ PollReady(t) \/ ReadFd(t)
  \/ \E t, u \in Tids : StartThread(t, u)

(***************************************************************************)
(* Properties.                                                             *)
(***************************************************************************)
\* With the set blocked before any other thread exists, no signal of it ever
\* ends the process, whoever starts threads later, and each one raised is
\* taken once, by one waiter, or still pending, or merged with one that is.
SignalsTaken ==
  /\ sg.alone => ~sg.dead
  /\ ~sg.dead => sg.raised = sg.taken + sg.merged + (IF sg.pending THEN 1 ELSE 0)

\* "an `Ok` from this function is supposed to mean the process is covered"
\* (block_strict): once it has returned Ok, every thread has the set blocked.
StrictCovers == sg.strict /\ sg.ret = "ok" => sg.live \subseteq sg.blocked
=============================================================================
