------------------------------ MODULE NetConn ------------------------------
(***************************************************************************)
(* One slot of the server's connection table, over the connections that    *)
(* use it in turn (net/core/conn.rs, table.rs, reactor/, net/server/):     *)
(* accept, framed reads, delivery to the handler, inline, deferred,        *)
(* detached and pushed answers, the clocks, the deferred teardown, the     *)
(* graceful drain.  Each completion is one action: the kernel chooses its  *)
(* result and the loop dispatches it.  An operation is in flight from the  *)
(* moment it is staged, because the ring takes entries in order; a cancel  *)
(* marks what is then in flight, and what is marked may still complete on  *)
(* its own.  A completion already queued when something else happens is    *)
(* the same completion chosen later.  The framing is a header of Hdr bytes *)
(* and a body of Body bytes.  Every timeout of ServerConfig is set, so     *)
(* each read has its clock; splice, kTLS and file bodies are left out.     *)
(***************************************************************************)
EXTENDS Integers, Sequences, FiniteSets, FiniteSetsExt

CONSTANTS
  None,
  Hdr, Body,        \* bytes of a message's header and body
  Chunk,            \* RECV_CHUNK, the read of a framer that answers More
  HeaderNeed,       \* whether the framer asks for the header exactly (Need)
  PduLen,           \* bytes of a reply or a push
  MaxSendCoalesce, MaxSendBacklog, MaxInFlight,   \* ServerConfig
  MaxConns,         \* bound: connections that use the slot
  MaxBytes,         \* bound: bytes the peers send, over all connections
  MaxReq,           \* bound: handler runs per connection
  MaxPush           \* bound: pushes and push-closes made

ASSUME NetAssumption ==
  /\ {Hdr, Body, Chunk, PduLen, MaxSendCoalesce, MaxInFlight} \subseteq Nat \ {0}
  /\ {MaxConns, MaxBytes, MaxReq, MaxPush, MaxSendBacklog} \subseteq Nat
  /\ HeaderNeed \in BOOLEAN

VARIABLES
  w,      \* the loop's state: the slot, its connection, the operations in flight
  pend,   \* the second completion of a recv and its linked clock, once the first is reaped
  rx,     \* the peer: bytes left to send, bytes unread, bytes read, how its side stands
  inj,    \* the inject queue
  held,   \* the Deferred handles workers hold
  dets,   \* the Detached handles workers hold
  pushed  \* pushes and push-closes made so far

vars == <<w, pend, rx, inj, held, dets, pushed>>

MsgLen == Hdr + Body

\* Connection::new.  `why` is close_reason; `got` counts messages delivered.
NewConn ==
  [len |-> 0, at |-> 0, want |-> 0, exact |-> TRUE, op |-> "header", frame |-> 0, got |-> 0,
   recving |-> FALSE, idle |-> FALSE, served |-> FALSE, fired |-> FALSE, stash |-> None,
   retry |-> FALSE, receipt |-> FALSE, owed |-> 0,
   q |-> <<>>, sent |-> 0, armed |-> 0, sending |-> FALSE,
   evict |-> FALSE, flush |-> None, peerClosed |-> FALSE,
   closing |-> FALSE, deferred |-> FALSE, shutFirst |-> FALSE, why |-> None,
   outstanding |-> 0, ops |-> 0, next |-> 0, open |-> {}]

NoFlight ==
  [recv |-> None, send |-> None, shut |-> FALSE, close |-> FALSE,
   fetch |-> None, install |-> None, retry |-> {}, receipt |-> <<>>]

NewPeer(left) == [left |-> left, avail |-> 0, took |-> 0, side |-> "open"]
Took(p, n) == [p EXCEPT !.avail = @ - n, !.took = @ + n]

Init ==
  /\ w = [slot |-> "Empty", gen |-> 0, c |-> None, fly |-> NoFlight, todo |-> "none",
          idx |-> FALSE, draining |-> FALSE, stop |-> FALSE]
  /\ pend = None /\ rx = NewPeer(MaxBytes)
  /\ inj = <<>> /\ held = {} /\ dets = {} /\ pushed = 0

(***************************************************************************)
(* The table (table.rs).                                                   *)
(***************************************************************************)
WithConn == {"Serving", "Detaching", "Detached"}
Serving(v) == v.slot = "Serving"
Matches(v, g) == v.gen = g /\ v.slot = "Serving"
AtCqe(v, g) == v.gen = g /\ v.slot \in WithConn

MaybeFinishDrain(v) ==
  IF v.draining /\ v.slot \notin WithConn THEN [v EXCEPT !.stop = TRUE] ELSE v

Reclaim(v) ==
  MaybeFinishDrain([v EXCEPT !.slot = "Empty", !.c = None, !.gen = @ + 1])

(***************************************************************************)
(* Closing (reactor/close.rs).                                             *)
(***************************************************************************)
\* An operation in flight: the generation in its user_data, and whether a
\* cancel has reached it.
Flight(v) == [gen |-> v.gen, cxl |-> FALSE]
Marked(f) == IF f = None THEN None ELSE [f EXCEPT !.cxl = TRUE]

\* Mutant: the completion the cancel leaves behind is not expected.
CancelReceiptUnowed(v) ==
  IF Serving(v) /\ v.c.receipt
  THEN [v EXCEPT !.c.receipt = FALSE,
                 !.fly.receipt = [i \in DOMAIN @ |-> IF @[i].gen = v.gen THEN Marked(@[i]) ELSE @[i]]]
  ELSE v

CancelReceipt(v) ==
  IF Serving(v) /\ v.c.receipt
  THEN [v EXCEPT !.c.receipt = FALSE, !.c.owed = @ + 1,
                 !.fly.receipt = [i \in DOMAIN @ |-> IF @[i].gen = v.gen THEN Marked(@[i]) ELSE @[i]]]
  ELSE v

CancelRetry(v) ==
  IF Serving(v) /\ v.c.retry
  THEN [v EXCEPT !.c.retry = FALSE,
                 !.fly.retry = {IF f.gen = v.gen THEN Marked(f) ELSE f : f \in @}]
  ELSE v

SubmitTeardown(v, shutFirst) ==
  LET u == IF Serving(v) THEN [v EXCEPT !.c.ops = @ + 1] ELSE v
  IN IF shutFirst THEN [u EXCEPT !.fly.shut = TRUE] ELSE [u EXCEPT !.fly.close = TRUE]

SubmitDeferredTeardown(v) ==
  SubmitTeardown([v EXCEPT !.c.deferred = FALSE], v.c.shutFirst)

PeerGone == {"PeerClosed", "RecvError", "SendError"}

\* Mutant: the teardown does not wait for the operations it cancels.
CloseConnAtOnce(v, reason) ==
  IF v.c.closing THEN v
  ELSE LET u == CancelRetry(CancelReceipt([v EXCEPT !.c.closing = TRUE, !.c.why = reason]))
       IN SubmitTeardown([u EXCEPT !.fly.recv = Marked(@), !.fly.send = Marked(@)], reason \notin PeerGone)

CloseConn(v, reason) ==
  IF v.c.closing THEN v
  ELSE LET u == CancelRetry(CancelReceipt([v EXCEPT !.c.closing = TRUE, !.c.why = reason]))
       IN IF v.c.recving \/ v.c.sending
          THEN [u EXCEPT !.c.deferred = TRUE, !.c.shutFirst = reason \notin PeerGone,
                         !.fly.recv = Marked(@), !.fly.send = Marked(@)]
          ELSE SubmitTeardown(u, reason \notin PeerGone)

\* Mutant: the last cancelled operation does not start the deferred teardown.
OpDoneForgets(v) ==
  LET u == [v EXCEPT !.c.ops = @ - 1]
  IN IF u.c.closing /\ u.c.ops = 0 /\ ~u.c.deferred THEN Reclaim(u) ELSE u

OpDone(v) ==
  LET u == [v EXCEPT !.c.ops = @ - 1]
  IN IF ~u.c.closing THEN u
     ELSE IF u.c.deferred /\ ~u.c.recving /\ ~u.c.sending THEN SubmitDeferredTeardown(u)
     ELSE IF u.c.ops = 0 THEN Reclaim(u)
     ELSE u

OnClosed(v) ==
  IF ~Serving(v) THEN Reclaim(v)
  ELSE LET u == [v EXCEPT !.c.ops = @ - 1]
       IN IF u.c.ops = 0 THEN Reclaim(u) ELSE u

(***************************************************************************)
(* The send side.                                                          *)
(***************************************************************************)

\* The bytes one gather covers: whole PDUs but for the front one's sent part.
ArmSend(c) == PduLen * Min({Len(c.q), MaxSendCoalesce}) - c.sent

SubmitSend(v) ==
  [v EXCEPT !.c.armed = ArmSend(v.c),
            !.c.sending = TRUE, !.c.ops = @ + 1, !.fly.send = Flight(v)]

KickSend(v) ==
  IF ~v.c.sending /\ ~v.c.closing /\ v.c.q # <<>> THEN SubmitSend(v) ELSE v

DriveFlushClose(v) ==
  IF ~v.c.sending /\ v.c.q = <<>>
  THEN CloseConn([v EXCEPT !.c.flush = None], v.c.flush)
  ELSE KickSend(v)

\* A PDU, and the generation of the connection it was made for.
Pdu(kind, g) == [kind |-> kind, gen |-> g]
Enqueue(v, pdus) == [v EXCEPT !.c.q = @ \o pdus]
Replies(q) == Cardinality({i \in DOMAIN q : q[i].kind = "last"})

AdvanceSent(c, n) ==
  LET gone == (c.sent + n) \div PduLen
  IN [c EXCEPT !.q = SubSeq(@, gone + 1, Len(@)), !.sent = (@ + n) % PduLen,
               !.armed = @ - n, !.served = TRUE,
               !.outstanding = Max({0, @ - Replies(SubSeq(c.q, 1, gone))})]

SendCloseReason(v, res) ==
  IF res.e = "cancelled" THEN IF v.draining THEN "ShuttingDown" ELSE "SendTimeout"
  ELSE "SendError"

\* The close that waits for the queue to drain, if it is due.
FlushDue(c) ==
  LET dry == ~c.sending /\ c.q = <<>>
  IN IF c.flush # None /\ dry THEN c.flush
     ELSE IF c.peerClosed /\ dry /\ c.outstanding = 0 THEN "PeerClosed"
     ELSE None

OnSend(v, g, res) ==
  IF ~Matches(v, g) THEN v
  ELSE LET u == OpDone([v EXCEPT !.c.sending = FALSE]) IN
    IF v.c.closing THEN u
    ELSE IF res.e # "ok" THEN CloseConn(u, SendCloseReason(u, res))
    ELSE LET a == [u EXCEPT !.c = AdvanceSent(@, res.n)] IN
      IF a.c.armed > 0 THEN SubmitSend(a)
      ELSE LET b == KickSend(a) IN
        IF FlushDue(b.c) # None
        THEN CloseConn([b EXCEPT !.c.flush = None, !.c.peerClosed = b.c.flush # None /\ @], FlushDue(b.c))
        ELSE [b EXCEPT !.todo = "pump"]

(***************************************************************************)
(* The receive side (reactor/io.rs).                                       *)
(***************************************************************************)
ArmReceipt(v) ==
  IF v.c.receipt THEN v
  ELSE [v EXCEPT !.c.receipt = TRUE, !.fly.receipt = Append(@, Flight(v))]

SubmitRecv(v, op, want, exact) ==
  LET idle == op = "header" /\ v.c.len = 0
      u == IF idle THEN v ELSE ArmReceipt(v)
  IN [u EXCEPT !.c.at = v.c.len, !.c.want = want, !.c.exact = exact, !.c.op = op,
               !.c.recving = TRUE, !.c.idle = idle, !.c.ops = @ + 1, !.c.fired = FALSE,
               !.c.served = ~idle /\ @, !.fly.recv = Flight(v)]

\* Mutant: the read armed again is not counted.
ResubmitExactUncounted(v) ==
  [v EXCEPT !.c.recving = TRUE, !.c.idle = FALSE, !.c.fired = FALSE, !.fly.recv = Flight(v)]

\* Mutant: the read starts over.
ResubmitExactRestarts(v) ==
  [v EXCEPT !.c.recving = TRUE, !.c.idle = FALSE, !.c.ops = @ + 1, !.c.fired = FALSE,
            !.c.at = v.c.len, !.c.want = @ + (v.c.at - v.c.len), !.fly.recv = Flight(v)]

\* The same read again, past the bytes that have arrived.
ResubmitExact(v) ==
  [v EXCEPT !.c.recving = TRUE, !.c.idle = FALSE, !.c.ops = @ + 1, !.c.fired = FALSE,
            !.fly.recv = Flight(v)]

RecvCloseReason(v, res, wasIdle) ==
  CASE res.e = "ok"        -> IF res.n = 0 /\ wasIdle THEN "PeerClosed" ELSE "TruncatedMessage"
    [] res.e = "cancelled" -> IF v.draining THEN "ShuttingDown"
                              ELSE IF wasIdle THEN "IdleTimeout" ELSE "RequestTimeout"
    [] OTHER               -> "RecvError"

ShortRecvReason(v, fired, wasIdle) ==
  IF v.draining THEN "ShuttingDown"
  ELSE IF fired THEN RecvCloseReason(v, [e |-> "cancelled", n |-> 0], wasIdle)
  ELSE "TruncatedMessage"

\* exact_partial_continues, or the close.
ResolveShort(v, fired, wasIdle) ==
  IF fired /\ ~wasIdle /\ ~v.draining
  THEN ResubmitExact(v)
  ELSE CloseConn(v, ShortRecvReason(v, fired, wasIdle))

OwesReply(c) == c.outstanding > 0 \/ c.sending \/ c.q # <<>>

\* Mutant: the peer's end of stream closes at once.
FinishFailedRecvDrops(v, reason) ==
  IF v.c.len = 0 /\ v.draining /\ reason = "ShuttingDown" THEN [v EXCEPT !.todo = "pump"]
  ELSE IF v.c.len = 0 /\ reason = "IdleTimeout" /\ (OwesReply(v.c) \/ v.c.served)
  THEN [v EXCEPT !.todo = "pump"]
  ELSE CloseConn(v, reason)

FinishFailedRecv(v, reason) ==
  IF v.c.len = 0 /\ v.draining /\ reason = "ShuttingDown" THEN [v EXCEPT !.todo = "pump"]
  ELSE IF v.c.len = 0 /\ reason = "IdleTimeout" /\ (OwesReply(v.c) \/ v.c.served)
  THEN [v EXCEPT !.todo = "pump"]
  ELSE IF v.c.len = 0 /\ reason = "PeerClosed" /\ OwesReply(v.c)
  THEN [v EXCEPT !.c.peerClosed = TRUE]
  ELSE CloseConn(v, reason)

\* recv_buffer_shortage: the pool grows (or the connection owns a buffer) and
\* the read is armed again, or it is parked behind a retry timer.
BufferShortage(v, grew) ==
  IF grew THEN [v EXCEPT !.todo = "pump"]
  ELSE IF v.c.retry THEN v
  ELSE [v EXCEPT !.c.retry = TRUE, !.fly.retry = @ \cup {Flight(v)}]

RecvComplete(c, res) == res.e = "ok" /\ (IF c.exact THEN res.n = c.want ELSE res.n > 0)

OnRecv(v, g, res, grew) ==
  IF ~Matches(v, g) THEN v
  ELSE LET wasIdle == v.c.op = "header" /\ v.c.idle
           u == OpDone([v EXCEPT !.c.recving = FALSE]) IN
    IF v.c.closing \/ v.c.flush # None \/ v.c.peerClosed THEN u
    ELSE IF res.e = "nobufs" THEN BufferShortage(u, grew)
    ELSE IF RecvComplete(v.c, res)
    THEN [u EXCEPT !.c.len = v.c.at + res.n,
                   !.todo = IF v.c.op = "body" THEN "deliver" ELSE "pump"]
    ELSE IF res.e = "ok" /\ res.n > 0
    THEN LET a == [u EXCEPT !.c.at = @ + res.n, !.c.want = @ - res.n] IN
         IF v.c.fired THEN ResolveShort(a, TRUE, wasIdle)
         ELSE [a EXCEPT !.c.stash = [idle |-> wasIdle]]
    ELSE FinishFailedRecv(u, RecvCloseReason(u, res, wasIdle))

OnRecvClock(v, g, fired) ==
  IF ~Matches(v, g) THEN v
  ELSE IF v.c.closing \/ v.c.flush # None THEN [v EXCEPT !.c.stash = None]
  ELSE IF v.c.stash # None
  THEN ResolveShort([v EXCEPT !.c.stash = None], fired, v.c.stash.idle)
  ELSE [v EXCEPT !.c.fired = @ \/ fired]

\* Mutant: any completion is taken for one that was owed.
OnReceiptDeadlineOwed(v, g, expired) ==
  IF AtCqe(v, g) THEN [v EXCEPT !.c.owed = @ - 1] ELSE v

OnReceiptDeadline(v, g, expired) ==
  IF AtCqe(v, g) /\ v.c.owed > 0 THEN [v EXCEPT !.c.owed = @ - 1]
  ELSE IF ~expired THEN v
  ELSE IF ~Matches(v, g) THEN IF AtCqe(v, g) THEN [v EXCEPT !.c.receipt = FALSE] ELSE v
  ELSE IF ~v.c.receipt THEN v
  ELSE CloseConn([v EXCEPT !.c.receipt = FALSE], "ReceiptTimeout")

OnRecvRetry(v, g) ==
  IF ~Matches(v, g) THEN IF AtCqe(v, g) THEN [v EXCEPT !.c.retry = FALSE] ELSE v
  ELSE [v EXCEPT !.c.retry = FALSE, !.todo = "pump"]

(***************************************************************************)
(* The pump (Server::pump): pump_gate, the framer, enact_frame_step.       *)
(***************************************************************************)
Quiet(c) == c.outstanding = 0 /\ ~c.sending /\ c.q = <<>>

\* What stops the pump before the framer runs, and what it does about it.
GateStops(v) ==
  \/ ~Serving(v)
  \/ v.c.recving \/ v.c.closing \/ v.c.stash # None \/ v.c.flush # None
  \/ v.c.outstanding >= MaxInFlight
  \/ v.draining /\ v.c.len = 0
  \/ v.c.peerClosed

\* Mutant: the pump leaves a half-closed connection to the send side.
GateEffectHalfClosed(v) ==
  IF ~Serving(v) THEN v
  ELSE IF v.c.recving \/ v.c.closing \/ v.c.stash # None \/ v.c.flush # None THEN v
  ELSE IF v.c.outstanding >= MaxInFlight \/ ~Quiet(v.c) THEN v
  ELSE IF v.draining /\ v.c.len = 0 THEN CloseConn(v, "ShuttingDown")
  ELSE v

GateEffect(v) ==
  IF ~Serving(v) THEN v
  ELSE IF v.c.recving \/ v.c.closing \/ v.c.stash # None \/ v.c.flush # None THEN v
  ELSE IF v.c.outstanding >= MaxInFlight \/ ~Quiet(v.c) THEN v
  ELSE IF v.draining /\ v.c.len = 0 THEN CloseConn(v, "ShuttingDown")
  ELSE IF v.c.peerClosed THEN CloseConn([v EXCEPT !.c.peerClosed = FALSE], "PeerClosed")
  ELSE v

\* The framer's verdict enacted; `valid` is its opinion of a header it has.
EnactFrameStep(v, valid) ==
  IF v.c.len < Hdr
  THEN SubmitRecv([v EXCEPT !.todo = "none"], "header",
                  IF HeaderNeed THEN Hdr - v.c.len ELSE Chunk, HeaderNeed)
  ELSE IF ~valid THEN CloseConn([v EXCEPT !.todo = "none"], "Malformed")
  ELSE IF v.c.len >= MsgLen
  THEN [v EXCEPT !.c.frame = MsgLen, !.todo = "deliver"]
  ELSE SubmitRecv([v EXCEPT !.c.frame = MsgLen, !.todo = "none"], "body",
                  MsgLen - v.c.len, TRUE)

PumpStep(v, valid) ==
  IF GateStops(v) THEN GateEffect([v EXCEPT !.todo = "none"]) ELSE EnactFrameStep(v, valid)

(***************************************************************************)
(* Delivery (Server::deliver_one).  A message from the wire is dropped     *)
(* from the buffer; a redelivery has an empty frame, and a body that is    *)
(* being read meanwhile keeps its own.                                     *)
(***************************************************************************)
Settled(c) ==
  /\ ~c.closing /\ c.ops = 0 /\ ~c.recving /\ ~c.sending
  /\ c.outstanding = 0 /\ c.len = 0 /\ c.q = <<>>

SubmitDetachInstall(v) == [v EXCEPT !.slot = "Detaching", !.fly.install = v.gen]

Respond(v, req, resp) ==
  LET counted == [v EXCEPT !.c.outstanding = @ + 1]
      final(u) == DriveFlushClose([u EXCEPT !.c.flush = "HandlerClosed"])
      reply == Enqueue(counted, <<Pdu("last", v.gen)>>)
  IN CASE resp = "Close"      -> CloseConn(v, "HandlerClosed")
       [] resp = "Defer"      -> [counted EXCEPT !.c.open = @ \cup {req}]
       [] resp = "Detach"     -> IF Settled(v.c)
                                 THEN SubmitDetachInstall(v)
                                 ELSE CloseConn(v, "HandlerClosed")
       [] resp = "Empty"      -> v
       [] resp \in {"Reply", "Stray"} -> KickSend(reply)
       [] resp = "Vectored"   -> KickSend(Enqueue(counted, <<Pdu("part", v.gen), Pdu("last", v.gen)>>))
       [] resp = "ReplyClose" -> final(reply)
       [] resp = "EmptyClose" -> final(v)

Responses ==
  {"Close", "Defer", "Detach", "Empty", "Reply", "Stray", "Vectored", "ReplyClose", "EmptyClose"}

Consume(c) == [c EXCEPT !.len = @ - Min({c.frame, @}), !.frame = 0]

DeliverOne(v, fromWire, resp) ==
  LET u == IF fromWire THEN CancelReceipt(v) ELSE v
      c == IF fromWire THEN [Consume(u.c) EXCEPT !.got = @ + 1]
           ELSE [Consume([u.c EXCEPT !.frame = 0]) EXCEPT !.frame = u.c.frame]
  IN Respond([u EXCEPT !.c = [c EXCEPT !.next = @ + 1], !.todo = "pump"], u.c.next, resp)

(***************************************************************************)
(* The inject queue (drain_injections), one message.                       *)
(***************************************************************************)
\* Mutant: a push goes to whatever connection has the slot.
OnPushAnyone(v, g) ==
  IF v.draining \/ v.slot \notin WithConn \/ v.c.flush # None THEN v
  ELSE LET u == Enqueue(v, <<Pdu("push", g)>>) IN IF Serving(v) THEN KickSend(u) ELSE u

OnPush(v, g) ==
  IF v.draining \/ ~AtCqe(v, g) THEN v
  ELSE IF v.c.flush # None THEN v
  ELSE IF PduLen * (Len(v.c.q) + 1) > MaxSendBacklog
  THEN IF Serving(v) THEN CloseConn(v, "SendBacklog") ELSE [v EXCEPT !.c.evict = TRUE]
  ELSE LET u == Enqueue(v, <<Pdu("push", g)>>) IN IF Serving(v) THEN KickSend(u) ELSE u

OnPushClose(v, g) ==
  IF ~AtCqe(v, g) THEN v
  ELSE IF v.c.closing \/ v.c.flush # None THEN v
  ELSE LET u == [v EXCEPT !.c.flush = "PushClosed"]
       IN IF Serving(v) THEN DriveFlushClose(u) ELSE u

Reattached(v) == [v EXCEPT !.slot = "Serving"]
Parked(v, g) == v.gen = g /\ v.slot \in {"Detaching", "Detached"}

OnDetachResume(v, g) ==
  IF ~Parked(v, g) THEN v
  ELSE LET u == [Reattached(v) EXCEPT !.c.evict = FALSE] IN
    IF v.c.evict THEN CloseConn(u, "SendBacklog")
    ELSE IF v.c.flush # None THEN DriveFlushClose(u)
    ELSE [KickSend(u) EXCEPT !.todo = "pump"]

OnDetachClose(v, g) ==
  IF ~Parked(v, g) THEN v ELSE CloseConn(Reattached(v), "WorkerClosed")

OneFewer(v) == [v EXCEPT !.c.outstanding = Max({0, @ - 1})]

\* Mutant: an outcome for a request already answered is taken.
OnOutcomeStale(v, m) ==
  IF ~Matches(v, m.gen) THEN v
  ELSE IF v.c.closing \/ v.c.flush # None THEN v
  ELSE KickSend(Enqueue([v EXCEPT !.c.open = @ \ {m.req}], <<Pdu("last", m.gen)>>))

\* A worker's outcome, dropped when its connection is gone or being torn
\* down, or when its request has been answered.
OnOutcome(v, m) ==
  IF ~Matches(v, m.gen) THEN v
  ELSE IF v.c.closing \/ v.c.flush # None \/ m.req \notin v.c.open THEN v
  ELSE LET u == [v EXCEPT !.c.open = @ \ {m.req}]
           reply == Enqueue(u, <<Pdu("last", m.gen)>>)
           final(x) == DriveFlushClose([x EXCEPT !.c.flush = "WorkerClosed"])
       IN CASE m.kind = "Reply"      -> KickSend(reply)
            [] m.kind = "ReplyClose" -> final(reply)
            [] m.kind = "EmptyClose" -> final(OneFewer(u))
            [] m.kind = "Done"       -> [OneFewer(u) EXCEPT !.todo = "pump"]
            [] m.kind = "Close"      -> CloseConn(u, "WorkerClosed")
            [] m.kind = "Redeliver"  -> [OneFewer(u) EXCEPT !.todo = "redeliver"]

Outcomes == {"Reply", "ReplyClose", "EmptyClose", "Done", "Close", "Redeliver"}

OnInject(v, m) ==
  CASE m.kind = "Push"         -> OnPush(v, m.gen)
    [] m.kind = "PushClose"    -> OnPushClose(v, m.gen)
    [] m.kind = "DetachResume" -> OnDetachResume(v, m.gen)
    [] m.kind = "DetachClose"  -> OnDetachClose(v, m.gen)
    [] m.kind \in Outcomes     -> OnOutcome(v, m)

(***************************************************************************)
(* The graceful drain (begin_drain).                                       *)
(***************************************************************************)
\* Mutant: a read parked for the next request is left in flight.
OnDrainKeepsReads(v) ==
  LET u == [v EXCEPT !.draining = TRUE]
  IN MaybeFinishDrain(
       IF Serving(v) /\ ~v.c.closing /\ ~v.c.recving /\ Quiet(v.c)
       THEN CloseConn(u, "ShuttingDown") ELSE u)

OnDrain(v) ==
  LET u == [v EXCEPT !.draining = TRUE]
  IN MaybeFinishDrain(
       IF ~Serving(v) THEN u
       ELSE IF v.c.closing THEN u
       ELSE IF v.c.recving /\ v.c.idle THEN [u EXCEPT !.fly.recv = Marked(@)]
       ELSE IF ~v.c.recving /\ Quiet(v.c) THEN CloseConn(u, "ShuttingDown")
       ELSE u)

(***************************************************************************)
(* Accepting (net/server/accept.rs), over a TCP listener.                  *)
(***************************************************************************)
AcceptConnection(v) ==
  IF v.draining THEN SubmitTeardown(v, TRUE)
  ELSE [v EXCEPT !.slot = "PeerFetch", !.fly.fetch = v.gen]

OnPeerFetch(v, g, named, admitted) ==
  IF v.gen # g \/ v.slot # "PeerFetch" THEN v
  ELSE LET u == [v EXCEPT !.slot = "Empty"]
       IN IF ~named \/ v.draining \/ ~admitted THEN SubmitTeardown(u, TRUE)
          ELSE [u EXCEPT !.slot = "Serving", !.c = NewConn, !.todo = "pump"]

ParkDetached(v) == [v EXCEPT !.slot = "Detached"]

OnDetachInstall(v, g, ok) ==
  IF ~Parked(v, g) THEN v
  ELSE IF ok /\ ~v.draining THEN ParkDetached(v)
  ELSE CloseConn(Reattached(v), IF ok THEN "ShuttingDown" ELSE "RecvError")

(***************************************************************************)
(* The actions.  The loop dispatches one completion at a time, and runs    *)
(* what the completion leads to before the next.                           *)
(***************************************************************************)
LoopFree == w.todo = "none" /\ ~w.stop

Pump(valid) ==
  /\ w.todo = "pump" /\ ~w.stop
  /\ w' = PumpStep(w, valid)
  /\ UNCHANGED <<pend, rx, inj, held, dets, pushed>>

\* The body handler runs.  A handler that defers keeps the Deferred; one
\* that answers may have kept one too ("Stray").
Deliver(resp) ==
  /\ w.todo \in {"deliver", "redeliver"} /\ ~w.stop
  /\ w' = DeliverOne(w, w.todo = "deliver", resp)
  /\ held' = IF resp \in {"Defer", "Stray"}
             THEN held \cup {[gen |-> w.gen, req |-> w.c.next]} ELSE held
  /\ UNCHANGED <<pend, rx, inj, dets, pushed>>

Inject ==
  /\ LoopFree /\ inj # <<>>
  /\ w' = OnInject(w, Head(inj)) /\ inj' = Tail(inj)
  /\ UNCHANGED <<pend, rx, held, dets, pushed>>

BeginDrain ==
  /\ LoopFree /\ ~w.draining
  /\ w' = OnDrain(w)
  /\ UNCHANGED <<pend, rx, inj, held, dets, pushed>>

\* The grace period ends.
Deadline ==
  /\ LoopFree /\ w.draining
  /\ w' = [w EXCEPT !.stop = TRUE]
  /\ UNCHANGED <<pend, rx, inj, held, dets, pushed>>

\* The kernel gives the slot's index to a new socket.
Accept ==
  /\ LoopFree /\ ~w.idx /\ w.gen < MaxConns
  /\ w' = AcceptConnection([w EXCEPT !.idx = TRUE])
  /\ rx' = NewPeer(rx.left)
  /\ UNCHANGED <<pend, inj, held, dets, pushed>>

PeerFetched(named, admitted) ==
  /\ LoopFree /\ w.fly.fetch # None
  /\ w' = OnPeerFetch([w EXCEPT !.fly.fetch = None], w.fly.fetch, named, admitted)
  /\ UNCHANGED <<pend, rx, inj, held, dets, pushed>>

\* What a recv that ends by itself can return, and one that is cancelled.
OwnResults ==
  LET take == {n \in 1..rx.avail : IF w.c.exact THEN n = w.c.want ELSE n <= w.c.want}
      short == IF \/ rx.side = "fin" /\ (IF w.c.exact THEN rx.avail < w.c.want ELSE rx.avail = 0)
                  \/ rx.side = "reset" /\ w.c.exact /\ rx.avail \in 1..(w.c.want - 1)
               THEN {rx.avail} ELSE {}
  IN {[e |-> "ok", n |-> n] : n \in take \cup short}
       \cup (IF rx.side = "reset" THEN {[e |-> "err", n |-> 0]} ELSE {})
       \cup (IF w.c.len = 0 /\ rx.avail > 0 THEN {[e |-> "nobufs", n |-> 0]} ELSE {})

CutResults ==
  {[e |-> "cancelled", n |-> 0]}
    \cup {[e |-> "ok", n |-> n] : n \in {m \in 1..rx.avail : w.c.exact /\ m < w.c.want}}

\* The result of a recv with that of its linked clock, and which is reaped
\* first.  A clock that lost is completed by its recv's completion, after it;
\* one that fired may come first.  The two are queued by one run of task work,
\* so the clock of a read is reaped before the read that follows it completes.
RecvEnds(res, fired, clockFirst, grew) ==
  /\ LoopFree /\ w.fly.recv # None /\ pend = None
  /\ \/ res \in OwnResults
     \/ res \in CutResults /\ (fired \/ w.fly.recv.cxl)
  /\ clockFirst => fired
  /\ IF clockFirst
     THEN /\ w' = OnRecvClock(w, w.fly.recv.gen, fired)
          /\ pend' = [kind |-> "recv", gen |-> w.fly.recv.gen, res |-> res]
          /\ UNCHANGED rx
     ELSE /\ w' = OnRecv([w EXCEPT !.fly.recv = None], w.fly.recv.gen, res, grew)
          /\ pend' = [kind |-> "clock", gen |-> w.fly.recv.gen, fired |-> fired]
          /\ rx' = Took(rx, res.n)
  /\ UNCHANGED <<inj, held, dets, pushed>>

\* The other one of the pair.
PairEnds(grew) ==
  /\ LoopFree /\ pend # None
  /\ IF pend.kind = "clock"
     THEN w' = OnRecvClock(w, pend.gen, pend.fired) /\ UNCHANGED rx
     ELSE /\ w' = OnRecv([w EXCEPT !.fly.recv = None], pend.gen, pend.res, grew)
          /\ rx' = Took(rx, pend.res.n)
  /\ pend' = None
  /\ UNCHANGED <<inj, held, dets, pushed>>

\* A send ends in full or short, fails, or is cancelled by its timeout.
SendEnds(res) ==
  /\ LoopFree /\ w.fly.send # None
  /\ res.n <= w.c.armed /\ (res.e = "ok" <=> res.n > 0)
  /\ res.e = "err" => rx.side = "reset"
  /\ w' = OnSend([w EXCEPT !.fly.send = None], w.fly.send.gen, res)
  /\ UNCHANGED <<pend, rx, inj, held, dets, pushed>>

ShutdownEnds ==
  /\ LoopFree /\ w.fly.shut
  /\ w' = [w EXCEPT !.fly.shut = FALSE, !.fly.close = TRUE]
  /\ UNCHANGED <<pend, rx, inj, held, dets, pushed>>

CloseEnds ==
  /\ LoopFree /\ w.fly.close
  /\ w' = OnClosed([w EXCEPT !.fly.close = FALSE, !.idx = FALSE])
  /\ UNCHANGED <<pend, rx, inj, held, dets, pushed>>

\* A receipt timer expires, or its cancel completes it; they end in order.
ReceiptEnds(expired) ==
  /\ LoopFree /\ w.fly.receipt # <<>>
  /\ expired \/ Head(w.fly.receipt).cxl
  /\ w' = OnReceiptDeadline([w EXCEPT !.fly.receipt = Tail(@)], Head(w.fly.receipt).gen, expired)
  /\ UNCHANGED <<pend, rx, inj, held, dets, pushed>>

RetryEnds(f) ==
  /\ LoopFree
  /\ w' = OnRecvRetry([w EXCEPT !.fly.retry = @ \ {f}], f.gen)
  /\ UNCHANGED <<pend, rx, inj, held, dets, pushed>>

InstallEnds(ok) ==
  /\ LoopFree /\ w.fly.install # None
  /\ w' = OnDetachInstall([w EXCEPT !.fly.install = None], w.fly.install, ok)
  /\ dets' = IF w'.slot = "Detached" THEN dets \cup {w.gen} ELSE dets
  /\ UNCHANGED <<pend, rx, inj, held, pushed>>

\* The peer sends a byte, half-closes or resets.
PeerSends ==
  /\ w.idx /\ rx.side = "open" /\ rx.left > 0
  /\ rx' = [rx EXCEPT !.left = @ - 1, !.avail = @ + 1]
  /\ UNCHANGED <<w, pend, inj, held, dets, pushed>>

PeerEnds(side) ==
  /\ w.idx /\ rx.side = "open"
  /\ rx' = [rx EXCEPT !.side = side]
  /\ UNCHANGED <<w, pend, inj, held, dets, pushed>>

\* A worker answers, or drops, the Deferred it holds.
Answer(t, kind) ==
  /\ kind = "Redeliver" => w.c # None /\ w.gen = t.gen /\ w.c.next < MaxReq
  /\ held' = held \ {t}
  /\ inj' = Append(inj, [kind |-> kind, gen |-> t.gen, req |-> t.req])
  /\ UNCHANGED <<w, pend, rx, dets, pushed>>

\* The owner of a Detached resumes it, or closes or drops it.
GiveBack(g, kind) ==
  /\ dets' = dets \ {g}
  /\ inj' = Append(inj, [kind |-> kind, gen |-> g, req |-> 0])
  /\ UNCHANGED <<w, pend, rx, held, pushed>>

\* A PushHandle of this connection or of an earlier one.
Push(g, kind) ==
  /\ pushed < MaxPush /\ pushed' = pushed + 1
  /\ inj' = Append(inj, [kind |-> kind, gen |-> g, req |-> 0])
  /\ UNCHANGED <<w, pend, rx, held, dets>>

AnyRecvEnds ==
  /\ w.fly.recv # None
  /\ \E res \in OwnResults \cup CutResults, fired, clockFirst, grew \in BOOLEAN :
       RecvEnds(res, fired, clockFirst, grew)

AnySendEnds ==
  /\ w.fly.send # None
  /\ \E e \in {"ok", "cancelled", "err"}, n \in 0..w.c.armed : SendEnds([e |-> e, n |-> n])

Next ==
  \/ \E valid \in BOOLEAN : Pump(valid)
  \/ \E resp \in Responses : Deliver(resp)
  \/ Inject \/ BeginDrain \/ Deadline \/ Accept
  \/ \E named, admitted \in BOOLEAN : PeerFetched(named, admitted)
  \/ AnyRecvEnds \/ \E grew \in BOOLEAN : PairEnds(grew)
  \/ AnySendEnds \/ ShutdownEnds \/ CloseEnds
  \/ \E expired \in BOOLEAN : ReceiptEnds(expired)
  \/ \E f \in w.fly.retry : RetryEnds(f)
  \/ \E ok \in BOOLEAN : InstallEnds(ok)
  \/ PeerSends \/ \E side \in {"fin", "reset"} : PeerEnds(side)
  \/ \E t \in held, kind \in Outcomes : Answer(t, kind)
  \/ \E g \in dets, kind \in {"DetachResume", "DetachClose"} : GiveBack(g, kind)
  \/ \E g \in Max({0, w.gen - 1})..w.gen, kind \in {"Push", "PushClose"} : Push(g, kind)

Spec == Init /\ [][Next]_vars

\* A completion waits in a queue the loop reaps in order, so it is dispatched
\* however often the loop is busy with others.  A send or a read of a message
\* ends, because its timeout is armed; a read between messages only once it is
\* cancelled.  Workers answer or drop what they hold.  The peer, the drain and
\* its deadline are under no fairness.
Fairness ==
  /\ WF_vars((\E valid \in BOOLEAN : Pump(valid)) \/ (\E resp \in Responses : Deliver(resp)))
  /\ SF_vars(Inject)
  /\ SF_vars((AnyRecvEnds /\ (w.fly.recv.cxl \/ ~w.c.idle)) \/ (\E grew \in BOOLEAN : PairEnds(grew)))
  /\ SF_vars(AnySendEnds)
  /\ SF_vars(ShutdownEnds \/ CloseEnds)
  /\ SF_vars((\E f \in w.fly.retry : RetryEnds(f)) \/ (\E ok \in BOOLEAN : InstallEnds(ok)))
  /\ WF_vars(\/ \E t \in held, kind \in Outcomes : Answer(t, kind)
             \/ \E g \in dets, kind \in {"DetachResume", "DetachClose"} : GiveBack(g, kind))

FairSpec == Spec /\ Fairness

-----------------------------------------------------------------------------
Ops == [gen : Nat, cxl : BOOLEAN]

\* The type of the slot, its connection's counters, the operations in flight and
\* the handles outside the loop; a connection exists just in the slots with one.
TypeOK ==
  /\ w.slot \in {"Empty", "PeerFetch"} \cup WithConn
  /\ w.todo \in {"none", "pump", "deliver", "redeliver"}
  /\ w.gen \in Nat /\ {w.idx, w.draining, w.stop} \subseteq BOOLEAN
  /\ w.c # None <=> w.slot \in WithConn
  /\ w.c # None => {w.c.ops, w.c.owed, w.c.outstanding, w.c.len, w.c.want, w.c.sent, w.c.armed} \subseteq Nat
  /\ {w.fly.recv, w.fly.send} \subseteq Ops \cup {None} /\ w.fly.retry \subseteq Ops
  /\ {rx.left, rx.avail, rx.took} \subseteq Nat /\ held \subseteq [gen : Nat, req : Nat] /\ dets \subseteq Nat

HasConn == w.slot \in WithConn
InFlight(g) == {i \in DOMAIN w.fly.receipt : w.fly.receipt[i].gen = g}
One(b) == IF b THEN 1 ELSE 0

\* close_conn: the CLOSE that frees the index, and the SHUTDOWN before it, are
\* the connection's last operations: nothing else on the socket is in flight.
CloseIsLast ==
  w.fly.close \/ w.fly.shut =>
    w.fly.recv = None /\ w.fly.send = None /\ w.fly.install = None /\ w.fly.fetch = None

\* accept_connection: a slot the kernel may give to another socket is Empty, so
\* an accept never overwrites a connection.
NeverOverwritten == ~w.idx => w.slot = "Empty"

\* A socket's number is reused only when nothing of its connection is left.
CloseClean == CloseIsLast /\ NeverOverwritten

\* Connection::ops counts the operations whose completions will lower it, and
\* the flags say which they are.
OpsExact ==
  HasConn =>
    /\ w.c.recving <=> w.fly.recv # None
    /\ w.c.sending <=> w.fly.send # None
    /\ w.c.ops = One(w.c.recving) + One(w.c.sending) + One(w.fly.shut) + One(w.fly.close)

\* receipt_deadline_owed: of this connection's receipt timers exactly the
\* cancelled ones are owed, so an expiry is charged to the message it timed.
ReceiptExact ==
  HasConn => Cardinality(InFlight(w.gen)) = w.c.owed + One(w.c.receipt)

\* Connection::outstanding: the requests a worker still holds and the replies
\* not yet sent in full, never more than max_in_flight_requests.
OutstandingExact ==
  HasConn /\ ~w.c.closing =>
    /\ w.c.outstanding = Cardinality(w.c.open) + Replies(w.c.q)
    /\ w.c.outstanding <= MaxInFlight

\* The bookkeeping of a connection (Connection): types, operations in flight,
\* receipt timers owed and requests outstanding.
CountsExact == TypeOK /\ OpsExact /\ ReceiptExact /\ OutstandingExact

\* Every byte taken from the socket is in a message delivered, in the buffer,
\* or part of the read in progress: no resumed read or redelivery loses,
\* repeats or shifts any.
BytesConserved ==
  HasConn /\ ~w.c.closing /\ w.c.flush = None =>
    rx.took =
      MsgLen * w.c.got + w.c.len
        + (IF w.c.recving \/ w.c.stash # None THEN w.c.at - w.c.len ELSE 0)

\* Token: a connection only ever sends what was produced for it, whatever
\* outlived the slot's earlier connection.
OwnAnswers == HasConn => \A i \in DOMAIN w.c.q : w.c.q[i].gen = w.gen

\* finish_failed_recv, drive_flush_close: a half-closed peer, or an idle one
\* that has not begun its next message, is dropped only when nothing is owed
\* to it, and a farewell only after the queue.
OwedBeforeClose ==
  HasConn =>
    /\ w.c.why = "PeerClosed" => w.c.outstanding = 0
    /\ w.c.why = "IdleTimeout" => w.c.outstanding = 0 \/ w.c.at > w.c.len
    /\ w.c.why = "PushClosed" => Replies(w.c.q) = 0

Queued(t) == \E i \in DOMAIN inj : inj[i].gen = t.gen /\ inj[i].req = t.req /\ inj[i].kind \in Outcomes
GivenBack(g) == \E i \in DOMAIN inj : inj[i].gen = g /\ inj[i].kind \in {"DetachResume", "DetachClose"}

\* pump_gate, recv_close_stash: a connection that is not being torn down always
\* has something coming that will drive it on; no slot is held for ever.
NeverWedged ==
  w.todo = "none" /\ HasConn =>
    /\ w.slot = "Detaching" => w.fly.install = w.gen
    /\ w.slot = "Detached" => w.gen \in dets \/ GivenBack(w.gen)
    /\ w.slot = "Serving" /\ ~w.c.closing =>
         \/ w.c.recving \/ w.c.sending
         \/ w.c.retry /\ \E f \in w.fly.retry : f.gen = w.gen
         \/ w.c.stash # None /\ pend # None
         \/ \E r \in w.c.open : LET t == [gen |-> w.gen, req |-> r] IN t \in held \/ Queued(t)
    /\ w.c.closing => w.c.ops > 0

\* close_conn's deferred teardown: a connection being closed is freed, whatever
\* was in flight when the close began.
ClosingFreed == (HasConn /\ w.c.closing) ~> (w.slot = "Empty" \/ w.stop)

\* ShutdownHandle::shutdown_graceful: a drain completes by itself once the
\* workers answer, before any deadline, wherever the connection stands.
DrainEnds == w.draining ~> w.stop

\* Connection::peer_closed: a half-closed connection sends what it owes and is
\* then freed.
HalfClosedFreed == (HasConn /\ w.c.peerClosed) ~> (w.slot = "Empty" \/ w.stop)

\* A connection that is to go does go, its slot freed.
SlotFreed == ClosingFreed /\ HalfClosedFreed

\* recv_close_stash: a short read parked for the result of its clock is
\* resolved by it.
StashResolves ==
  HasConn => (w.c.stash # None /\ ~w.c.closing /\ w.c.flush = None => pend # None)
=============================================================================
