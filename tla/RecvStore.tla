----------------------------- MODULE RecvStore -----------------------------
(***************************************************************************)
(* Where a request's bytes lie: the framer's verdict (frame_step), the     *)
(* receives it arms, the RecvBuf they fill (a pool buffer, storage of the  *)
(* connection's own, or a body placed by itself), and the Body a handler   *)
(* is given (src/net/core: protocol.rs, conn.rs, reactor/io.rs).           *)
(*                                                                         *)
(* One connection, one incoming stream of bytes.  A byte is its value; the *)
(* bytes of a body are all different, so that a byte out of place shows.   *)
(* Junk stands for what a buffer holds before the kernel writes there.     *)
(***************************************************************************)
EXTENDS Integers, Sequences, SequencesExt, FiniteSets

CONSTANTS
  Junk, None,
  Radix,         \* values of a length byte
  MaxRequest,    \* max_request_bytes
  Chunk,         \* RECV_CHUNK
  StoreModes     \* [framer, stream, threshold, pool, ktls, faults]: one server's settings

VARIABLE st

EmptyBuf == [owned |-> <<>>, claim |-> None, pooled |-> FALSE, leased |-> FALSE, filled |-> 0]
NoBody   == [mem |-> <<>>, len |-> 0, is |-> FALSE]
NoRecv   == [op |-> "no", at |-> 0, want |-> 0, exact |-> FALSE, into |-> FALSE, select |-> FALSE]

StoreInit ==
  \E c \in StoreModes :
    st = [cfg |-> c, wire |-> c.stream, left |-> c.faults,
          buf |-> [EmptyBuf EXCEPT !.pooled = c.pool > 0],
          body |-> NoBody, hdr |-> 0, blen |-> 0, recv |-> NoRecv, bad |-> FALSE,
          pc |-> "pump", log |-> <<>>, closed |-> "no"]

Cells(n, x) == [i \in 1..n |-> x]
Least(a, b) == IF a =< b THEN a ELSE b

(***************************************************************************)
(* Framing: what a header handler answers.                                 *)
(***************************************************************************)
Need(n)        == [kind |-> "need", n |-> n, h |-> 0, b |-> 0]
More           == [kind |-> "more", n |-> 0, h |-> 0, b |-> 0]
Whole(h, b)    == [kind |-> "complete", n |-> 0, h |-> h, b |-> b]
Invalid        == [kind |-> "invalid", n |-> 0, h |-> 0, b |-> 0]

\* read_prefix
ReadPrefix(q, width, big) ==
  FoldLeft(LAMBDA v, i : v + q[i] * Radix^(IF big THEN width - i ELSE i - 1), 0, [i \in 1..width |-> i])

\* length_prefix_header
LengthPrefixHeader(q, width, big, self) ==
  IF Len(q) < width THEN Need(width - Len(q))
  ELSE LET total == ReadPrefix(q, width, big)
           body  == IF self THEN total - width ELSE total
       IN IF body < 0 THEN Invalid ELSE Whole(width, body)

\* A handler that scans for the end of a head, and one with records of a
\* fixed size, the whole of which is body.
Eol == Radix
ScanHeader(q) ==
  IF \E i \in DOMAIN q : q[i] = Eol THEN Whole(CHOOSE i \in DOMAIN q : q[i] = Eol /\ \A j \in 1..(i - 1) : q[j] # Eol, q[1])
  ELSE More

Verdict(f, q) ==
  CASE f.kind = "prefix" -> LengthPrefixHeader(q, f.width, f.big, f.self)
    [] f.kind = "scan"   -> ScanHeader(q)
    [] f.kind = "fixed"  -> Whole(0, f.width)

(***************************************************************************)
(* RecvBuf.                                                                *)
(***************************************************************************)
Backing(b)     == IF b.claim # None THEN b.claim ELSE b.owned
Filled(b)      == SubSeq(Backing(b), 1, b.filled)
NeedsBuffer(b) == b.pooled /\ b.claim = None /\ b.filled = 0 /\ b.owned = <<>>
Covers(b, n)   == b.claim # None /\ Len(b.claim) >= n
Install(b, cap) == [b EXCEPT !.claim = Cells(cap, Junk), !.filled = 0]

\* promote_for: off a pool buffer too small for what is to be read.
PromoteFor(b, at, want) ==
  IF b.claim = None \/ at + want =< Len(b.claim) THEN b
  ELSE [b EXCEPT !.owned = Filled(b) \o Cells(at + want - b.filled, Junk), !.claim = None]

\* reserve_at: what is granted, and the storage with room for it.
Granted(b, at, want) == IF b.claim # None THEN Least(want, Len(b.claim) - at) ELSE want
ReserveAt(b, at, want) ==
  IF b.claim # None \/ NeedsBuffer(b) \/ at + want =< Len(b.owned) THEN b
  ELSE [b EXCEPT !.owned = b.owned \o Cells(at + want - Len(b.owned), Junk)]

ArmedWithin(b, at, want) == at + want =< Len(Backing(b))

\* Mutant: a leased buffer's remaining bytes are left behind in it.
DrainFrontLeft(b, n) ==
  IF b.leased THEN [b EXCEPT !.claim = None, !.leased = FALSE, !.owned = <<>>, !.filled = 0]
  ELSE LET rest == b.filled - Least(n, b.filled) IN
       IF b.claim # None
       THEN [b EXCEPT !.claim = SubSeq(@, b.filled - rest + 1, b.filled) \o SubSeq(@, rest + 1, Len(@)), !.filled = rest]
       ELSE [b EXCEPT !.owned = SubSeq(@, b.filled - rest + 1, b.filled) \o SubSeq(@, rest + 1, Len(@)), !.filled = rest]

\* drain_front: a leased claim goes to the write that reads it, and what lies
\* past the message is copied out; otherwise the rest moves to the front.
DrainFront(b, n) ==
  LET k    == Least(n, b.filled)
      rest == b.filled - k
      Slid(m) == SubSeq(m, k + 1, b.filled) \o SubSeq(m, rest + 1, Len(m))
  IN IF b.leased THEN [b EXCEPT !.claim = None, !.leased = FALSE, !.owned = SubSeq(b.claim, k + 1, b.filled), !.filled = rest]
     ELSE IF b.claim # None THEN [b EXCEPT !.claim = Slid(@), !.filled = rest]
     ELSE [b EXCEPT !.owned = Slid(@), !.filled = rest]

\* release: an empty buffer goes back to the pool; owned storage of a pooled
\* connection goes to the body pool.
Release(b) ==
  IF b.filled > 0 \/ b.leased THEN b
  ELSE [b EXCEPT !.claim = None, !.owned = IF b.pooled THEN <<>> ELSE @]

\* take_owned: the storage itself, cut to what was received.
TakeOwned(b) == SubSeq(b.owned, 1, b.filled)
CanTakeOwned(b) == b.claim = None /\ ~b.pooled

(***************************************************************************)
(* Body.                                                                   *)
(***************************************************************************)
Inline(q)          == [kind |-> "inline", buf |-> q, start |-> 0, len |-> Len(q)]
OwnedRange(q, s, n) == [kind |-> "owned", buf |-> q, start |-> s, len |-> n]
Placed(q)          == OwnedRange(q, 0, Len(q))
BodyBytes(b)       == SubSeq(b.buf, b.start + 1, b.start + b.len)

\* take: an inline body is copied, an owned one slid to its storage's front
\* and cut.  What is left reads as empty.
TakeBody(b) ==
  IF b.kind = "inline" THEN b.buf
  ELSE SubSeq(SubSeq(b.buf, b.start + 1, b.start + b.len) \o SubSeq(b.buf, b.len + 1, Len(b.buf)), 1, b.len)
TakenBody(b) == [b EXCEPT !.buf = <<>>, !.start = 0, !.len = 0]

(***************************************************************************)
(* Arming a receive.                                                       *)
(***************************************************************************)
Close(s, why) == [s EXCEPT !.closed = why, !.pc = "closed", !.recv = NoRecv, !.buf = [EmptyBuf EXCEPT !.pooled = s.buf.pooled]]

\* arm_body_recv: storage for the body alone, the part of it that came with
\* the header moved there.
ArmBodyRecv(s, op) ==
  LET prefix == s.buf.filled - s.hdr
  IN [s EXCEPT !.body = [mem |-> SubSeq(Filled(s.buf), s.hdr + 1, s.buf.filled) \o Cells(s.blen - prefix, Junk), len |-> prefix, is |-> TRUE],
               !.buf.filled = s.hdr,
               !.recv = [op |-> op, at |-> prefix, want |-> s.blen - prefix, exact |-> TRUE, into |-> TRUE, select |-> FALSE],
               !.pc = "wait"]

\* arm_recv, and the refusal of an exact read it cannot grant.
ArmRecv(s, op, want, exact, select) ==
  LET at == s.buf.filled
      g  == Granted(s.buf, at, want)
  IN IF g < want /\ exact THEN Close(s, "too_large")
     ELSE [s EXCEPT !.buf = ReserveAt(s.buf, at, want), !.pc = "wait",
                    !.recv = [op |-> op, at |-> at, want |-> g, exact |-> exact, into |-> FALSE, select |-> select]]

\* submit_recv: the kernel picks the buffer when none is held, unless the
\* pool's are too small for an exact read; a held one too small is left.
SubmitRecv(s, op, want, exact, place) ==
  LET ask == ~place /\ NeedsBuffer(s.buf)
      sel == ask /\ ~(exact /\ want > s.cfg.pool)
      b   == IF ask /\ ~sel THEN [s.buf EXCEPT !.pooled = FALSE] ELSE s.buf
  IN IF place THEN ArmBodyRecv(s, op)
     ELSE ArmRecv([s EXCEPT !.buf = PromoteFor(b, b.filled, want)], op, want, exact, sel)

\* need_step
NeedStep(s, n) ==
  IF n = 0 THEN Close(s, "malformed")
  ELSE IF s.buf.filled + n > MaxRequest THEN Close(s, "too_large")
  ELSE SubmitRecv(s, "header", n, TRUE, FALSE)

\* The body is placed by itself when it is large and no one buffer has, or
\* will have, the whole message.
Placing(s, v) ==
  /\ s.buf.filled >= v.h /\ v.b >= s.cfg.threshold
  /\ ~Covers(s.buf, v.h + v.b)
  /\ ~(NeedsBuffer(s.buf) /\ v.h + v.b =< s.cfg.pool)

\* frame_step and enact_frame_step.
EnactFrameStep(s, v) ==
  CASE v.kind = "invalid" -> Close(s, "malformed")
    [] v.kind = "need"    -> NeedStep(s, v.n)
    [] v.kind = "more"    -> SubmitRecv(s, "header", Chunk, FALSE, FALSE)
    [] v.kind = "complete" ->
         LET total == v.h + v.b
             f     == [s EXCEPT !.hdr = v.h, !.blen = v.b]
         IN IF total = 0 THEN Close(s, "malformed")
            ELSE IF total > MaxRequest THEN Close(s, "too_large")
            ELSE IF s.buf.filled >= total THEN [f EXCEPT !.pc = "deliver"]
            ELSE SubmitRecv(f, "body", total - s.buf.filled, TRUE, Placing(s, v))

\* Server::pump, one turn: pump_gate's limit on what is buffered.
Pump ==
  /\ st.pc = "pump"
  /\ st' = IF st.buf.filled > MaxRequest THEN Close(st, "too_large")
           ELSE EnactFrameStep(st, Verdict(st.cfg.framer, Filled(st.buf)))

(***************************************************************************)
(* The kernel, and what a completion does.                                 *)
(***************************************************************************)
\* n bytes of the wire at recv_ptr; out of bounds is marked.
Poke(mem, at, q) == [i \in DOMAIN mem |-> IF i \in (at + 1)..(at + Len(q)) THEN q[i - at] ELSE mem[i]]
Landed(s, n) ==
  LET q == SubSeq(s.wire, 1, n)
      r == s.recv
      t == [s EXCEPT !.wire = SubSeq(@, n + 1, Len(@)),
                     !.bad = @ \/ r.at + n > Len(IF r.into THEN s.body.mem ELSE Backing(s.buf))]
  IN IF r.into THEN [t EXCEPT !.body.mem = Poke(@, r.at, q)]
     ELSE IF t.buf.claim # None THEN [t EXCEPT !.buf.claim = Poke(@, r.at, q)]
     ELSE [t EXCEPT !.buf.owned = Poke(@, r.at, q)]

\* finish_body_recv, and set_filled for the rest.
RecvDone(s, n) ==
  IF s.recv.into THEN [s EXCEPT !.body.len = s.blen, !.recv.into = FALSE]
  ELSE [s EXCEPT !.buf.filled = s.recv.at + n]

\* resubmit_exact_recv, resubmit_ktls_recv: the rest of an exact read is armed
\* where the first part ended, unless that is past the storage.
Resubmit(s) ==
  LET r == s.recv
      within == IF r.into THEN r.at + r.want =< s.blen ELSE ArmedWithin(s.buf, r.at, r.want)
  IN IF within THEN s ELSE Close(s, "recv_error")

\* recv_result: an exact read completes whole; a short one moves on and is
\* armed again.
RecvResult(s, n) ==
  IF ~s.recv.exact \/ n = s.recv.want
  THEN [RecvDone(s, n) EXCEPT !.recv = NoRecv, !.pc = IF s.recv.op = "body" THEN "deliver" ELSE "pump"]
  ELSE Resubmit([s EXCEPT !.recv.at = @ + n, !.recv.want = @ - n])

\* A receive completes with n bytes; one with a kernel-picked buffer names it
\* (adopt_recv_buffer).  Without kTLS only a fault makes an exact one short.
OnRecv(n) ==
  /\ st.pc = "wait" /\ st.recv.op # "no" /\ n \in 1..Len(st.wire)
  /\ LET cap == IF st.recv.select THEN Least(st.recv.want, st.cfg.pool) ELSE st.recv.want
         s   == IF st.recv.select THEN [st EXCEPT !.buf = Install(@, st.cfg.pool), !.recv.select = FALSE] ELSE st
         short == st.recv.exact /\ n < st.recv.want
     IN /\ n =< cap
        /\ short /\ ~st.cfg.ktls => st.left > 0
        /\ st' = RecvResult(Landed([s EXCEPT !.left = IF short /\ ~st.cfg.ktls THEN @ - 1 ELSE @], n), n)

\* recv_buffer_shortage: ENOBUFS, with growth (asked again) and without.
OnShortage ==
  /\ st.pc = "wait" /\ st.recv.select /\ st.left > 0
  /\ st' \in {[st EXCEPT !.recv = NoRecv, !.pc = "pump", !.left = @ - 1],
              [st EXCEPT !.recv = NoRecv, !.pc = "pump", !.left = @ - 1, !.buf.pooled = FALSE]}

(***************************************************************************)
(* Delivery: deliver_one, deliver_parts and consume.                       *)
(***************************************************************************)
\* take_body_handoff: a message that is all body, in storage of its own.
HandsOff(s) ==
  /\ s.hdr = 0 /\ s.blen > 0 /\ s.buf.filled = s.blen /\ s.blen >= s.cfg.threshold /\ CanTakeOwned(s.buf)

\* deliver_parts: a body placed by itself, one handed off, or a piece of the
\* receive buffer.
DeliverParts(s) ==
  IF s.body.is THEN [header |-> SubSeq(Filled(s.buf), 1, s.hdr), body |-> Placed(SubSeq(s.body.mem, 1, s.body.len)),
                     left |-> [s EXCEPT !.body = NoBody]]
  ELSE IF HandsOff(s) THEN [header |-> <<>>, body |-> Placed(TakeOwned(s.buf)),
                            left |-> [s EXCEPT !.buf.owned = <<>>, !.buf.filled = 0]]
  ELSE [header |-> SubSeq(Filled(s.buf), 1, s.hdr),
        body   |-> Inline(SubSeq(Filled(s.buf), s.hdr + 1, Least(s.hdr + s.blen, s.buf.filled))), left |-> s]

\* consume, then release_recv_buf.
Consume(s) ==
  [s EXCEPT !.buf = Release(DrainFront(s.buf, s.hdr + s.blen)), !.hdr = 0, !.blen = 0, !.pc = "pump"]

\* The handler reads or takes its body, and may lease the buffer it lies in to
\* a write.
DeliverOne(lease) ==
  /\ st.pc = "deliver"
  /\ LET d == DeliverParts(st)
         t == TakeBody(d.body)
         b == [d.left EXCEPT !.log = Append(@, [header |-> d.header, body |-> BodyBytes(d.body), taken |-> t,
                                                again |-> BodyBytes(TakenBody(d.body))])]
     IN /\ lease => b.buf.claim # None
        /\ st' = Consume([b EXCEPT !.buf.leased = lease])

StoreNext ==
  \/ Pump \/ OnShortage
  \/ \E n \in 1..Len(st.wire) : OnRecv(n)
  \/ \E lease \in BOOLEAN : DeliverOne(lease)

(***************************************************************************)
(* Properties.                                                             *)
(***************************************************************************)
\* The stream, minus what was not read yet.
ReadBytes == SubSeq(st.cfg.stream, 1, Len(st.cfg.stream) - Len(st.wire))

Flatten(log) == FoldLeft(LAMBDA q, e : q \o e.header \o e.body, <<>>, log)

\* The bytes a connection holds, in the order they came, a receive in progress
\* included.
Held ==
  IF st.body.is THEN Filled(st.buf) \o SubSeq(st.body.mem, 1, IF st.recv.into THEN st.recv.at ELSE st.body.len)
  ELSE IF st.recv.op # "no" /\ ~st.recv.select THEN SubSeq(Backing(st.buf), 1, st.recv.at) ELSE Filled(st.buf)

\* No byte of the stream is lost, doubled, reordered or read before it was
\* received, whichever of the three storages each message went through and
\* however the receives were cut; every message delivered is one whole message,
\* its body reads the same taken or not; a stream of messages within the limit
\* is never refused, unless several lie in one chunk of a scanning framer; and
\* no receive is armed past the end of its storage (recv_result, promote_for, drain_front, arm_body_recv,
\* deliver_parts, Body::take).
StreamExact ==
  /\ st.closed = "no" => Flatten(st.log) \o Held = ReadBytes
  /\ \A k \in DOMAIN st.log :
       LET e == st.log[k] IN
       /\ Verdict(st.cfg.framer, e.header \o e.body) = Whole(Len(e.header), Len(e.body))
       /\ e.taken = e.body /\ e.again = <<>>
  /\ st.cfg.legal => st.closed = "no"
  /\ ~st.bad
  /\ st.recv.op # "no" /\ ~st.recv.select =>
       st.recv.at + st.recv.want =< Len(IF st.recv.into THEN st.body.mem ELSE Backing(st.buf))
=============================================================================
