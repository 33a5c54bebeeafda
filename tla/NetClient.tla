----------------------------- MODULE NetClient -----------------------------
(***************************************************************************)
(* The outbound client of src/net/client over the shared reactor of        *)
(* src/net/core: connects (plain, or through a TLS handshake a worker      *)
(* thread finishes), requests correlated with their replies in order,      *)
(* spliced bodies under a watchdog, graceful and abrupt closes, the event  *)
(* queue, and the four ways to wait on it (next_event, the bounded         *)
(* next_event_timeout, and the blocking request and connect).              *)
(*                                                                         *)
(* The kernel side is external: `sq` holds what is staged, `kern` what is  *)
(* submitted and not complete, `cq` what is complete and not reaped.  A    *)
(* cancel runs when it is submitted and completes its target in the same   *)
(* io_uring_enter.                                                         *)
(***************************************************************************)
EXTENDS Integers, Sequences, FiniteSets, SequencesExt, Functions

CONSTANTS
    Slots,          \* the connection table
    MaxInFlight,    \* ClientConfig.max_in_flight
    Configs,        \* the uses of the client: tls, push, splice, timeout, and
                    \* the slots it has and the bounds on what it is asked:
                    \* connects, requests, failures of io_uring_enter, and
                    \* which other calls are made
    None            \* no value

VARIABLE nc

Unsolicited == 0            \* RequestId::UNSOLICITED

-----------------------------------------------------------------------------
(* The slot table *)

\* A slot: SlotState and, while Serving, what the reactor keeps for it.
EmptySlot(g) ==
    [gen |-> g, st |-> "Empty", tls |-> FALSE, sending |-> FALSE,
     queue |-> <<>>, recving |-> FALSE, splicing |-> FALSE, polling |-> FALSE,
     out |-> 0, cof |-> FALSE, peerClosed |-> FALSE, closing |-> FALSE,
     deferred |-> FALSE, ops |-> 0,
     left |-> 0, mark |-> 0, armed |-> FALSE, owed |-> 0]

Serving(n, s) == n.slot[s].st = "Serving"
Matches(n, s, g) == Serving(n, s) /\ n.slot[s].gen = g
Is(n, s, st) == n.slot[s].st = st
With(n, s, f, v) == [n EXCEPT !.slot[s][f] = v]
\* events.push_back: `log` keeps every event made, the queue its place there.
Push(n, ev) ==
    [n EXCEPT !.log = Append(@, ev), !.events = Append(@, Len(n.log) + 1)]

\* Event::{Connected, ConnectFailed, Closed, Reply, Splice}, with the request
\* the peer answered kept beside the one the client names.
Ev(kind, s, g, id, of) ==
    [ev |-> kind, conn |-> <<s, g>>, id |-> id, answers |-> of]

\* Reactor::stage: the operation joins the submission queue and is counted.
Stage(n, op, s, g) ==
    [n EXCEPT !.sq = Append(@, [op |-> op, s |-> s, g |-> g, of |-> {}]),
              !.inflight = @ + 1]
StageCancel(n, of, s, g) ==
    [n EXCEPT !.sq = Append(@, [op |-> "Cancel", s |-> s, g |-> g, of |-> of]),
              !.inflight = @ + 1]

\* ConnTable::free: the slot empties and its generation moves on.
FreeSlot(n, s) ==
    [n EXCEPT !.slot[s] = EmptySlot(n.slot[s].gen + 1), !.peer[s] = <<>>]

-----------------------------------------------------------------------------
(* Teardown: src/net/core/reactor/close.rs *)

SubmitTeardown(n, s, g) ==
    Stage(IF Serving(n, s) THEN With(n, s, "ops", n.slot[s].ops + 1) ELSE n,
          "Shutdown", s, g)

\* cancel_splice_deadline: a cancelled watchdog still owes its completion.
CancelSpliceDeadline(n, s, g) ==
    IF Serving(n, s) /\ n.slot[s].armed
    THEN StageCancel(
            [n EXCEPT !.slot[s].armed = FALSE, !.slot[s].owed = @ + 1],
            {"SpliceDeadline"}, s, g)
    ELSE n

\* close_conn: once; what is in flight on the socket is cancelled and the
\* teardown waits for it.
CloseConn(n, s, g) ==
    IF n.slot[s].closing THEN n
    ELSE LET a == CancelSpliceDeadline(With(n, s, "closing", TRUE), s, g)
             c == a.slot[s]
             onFd == c.recving \/ c.sending \/ c.polling
             b == [a EXCEPT !.slot[s].deferred = TRUE]
             d == IF onFd
                  THEN StageCancel(b, {"Recv", "Send", "SplicePoll"}, s, g)
                  ELSE b
         IN IF onFd \/ c.splicing
            THEN IF c.splicing THEN StageCancel(d, {"SpliceRecv"}, s, g) ELSE d
            ELSE SubmitTeardown(a, s, g)

\* op_done: one of the connection's operations ended; FALSE in `go` when the
\* connection is being torn down, the deferred teardown starting with the last.
OpDone(n, s) ==
    LET a == With(n, s, "ops", n.slot[s].ops - 1)
        c == a.slot[s]
    IN IF ~c.closing THEN [n |-> a, go |-> TRUE]
       ELSE IF c.deferred /\ ~c.recving /\ ~c.sending /\ ~c.splicing
                          /\ ~c.polling
            THEN [n |-> SubmitTeardown(With(a, s, "deferred", FALSE), s, c.gen),
                  go |-> FALSE]
            ELSE [n |-> IF c.ops = 0 THEN FreeSlot(a, s) ELSE a, go |-> FALSE]

\* A client that reports the close and keeps the correlation queue.
OnClosedKeepsQueue(n, s) ==
    LET was == Serving(n, s)
        g == n.slot[s].gen
        a == IF was THEN With(n, s, "ops", n.slot[s].ops - 1) ELSE n
        b == IF ~was \/ a.slot[s].ops = 0 THEN FreeSlot(a, s) ELSE a
    IN IF was /\ ~Serving(b, s)
       THEN Push(b, Ev("Closed", s, g, None, None))
       ELSE b

\* Client::on_closed: the slot is reclaimed, and a connection that was serving
\* is reported once; its unanswered requests and pending splice go with it.
OnClosed(n, s) ==
    LET was == Serving(n, s)
        g == n.slot[s].gen
        a == IF was THEN With(n, s, "ops", n.slot[s].ops - 1) ELSE n
        b == IF ~was \/ a.slot[s].ops = 0 THEN FreeSlot(a, s) ELSE a
    IN IF was /\ ~Serving(b, s)
       THEN [Push(b, Ev("Closed", s, g, None, None))
                EXCEPT !.awaiting[s] = <<>>, !.pend[s] = None]
       ELSE b

-----------------------------------------------------------------------------
(* Sending and receiving *)

\* kick_send / submit_send: one send at a time, over everything queued.
KickSend(n, s, g) ==
    IF ~n.slot[s].sending /\ ~n.slot[s].closing /\ n.slot[s].queue # <<>>
    THEN Stage([n EXCEPT !.slot[s].sending = TRUE, !.slot[s].ops = @ + 1,
                         !.slot[s].out = Len(n.slot[s].queue)],
               "Send", s, g)
    ELSE n

Dry(n, s) == ~n.slot[s].sending /\ n.slot[s].queue = <<>>

\* drive_flush_close
DriveFlushClose(n, s, g) ==
    IF Dry(n, s) THEN CloseConn(With(n, s, "cof", FALSE), s, g)
    ELSE KickSend(n, s, g)

\* pump_gate, then a framer that asks for the next header: the receive is armed.
Pump(n, s, g) ==
    LET c == n.slot[s]
    IN IF \/ ~Serving(n, s) \/ c.recving \/ c.splicing \/ c.polling
          \/ c.closing \/ c.cof
       THEN n
       ELSE IF c.peerClosed
            THEN IF Dry(n, s)
                 THEN CloseConn(With(n, s, "peerClosed", FALSE), s, g) ELSE n
            ELSE Stage([n EXCEPT !.slot[s].recving = TRUE, !.slot[s].ops = @ + 1],
                       "Recv", s, g)

\* arm_splice_deadline: one watchdog a connection, over the bytes still to move.
ArmSpliceDeadline(n, s, g) ==
    IF ~n.cfg.timeout \/ n.slot[s].armed THEN n
    ELSE [Stage([n EXCEPT !.slot[s].armed = TRUE,
                          !.slot[s].mark = n.slot[s].left],
                "SpliceDeadline", s, g)
            EXCEPT !.moved[s] = FALSE]

\* submit_splice_recv, for a new body or for the rest of one: the splice of a
\* TLS stream blocks in the kernel and is the one that gets a watchdog.
SubmitSpliceRecv(n, s, g) ==
    LET a == Stage([n EXCEPT !.slot[s].splicing = TRUE, !.slot[s].ops = @ + 1],
                   "SpliceRecv", s, g)
    IN IF n.slot[s].tls THEN ArmSpliceDeadline(a, s, g) ELSE a

\* The request a frame answers: the oldest unanswered one, or none if pushes
\* are expected.  A frame nobody asked for closes the connection.
Owner(n, s) ==
    IF n.awaiting[s] # <<>> THEN Head(n.awaiting[s])
    ELSE IF n.cfg.push THEN Unsolicited ELSE None
TakeOwner(n, s) ==
    IF n.awaiting[s] # <<>> THEN [n EXCEPT !.awaiting[s] = Tail(@)] ELSE n

DeliverReply(n, s, g, of) ==
    IF Owner(n, s) = None THEN CloseConn(n, s, g)
    ELSE Push(TakeOwner(n, s), Ev("Reply", s, g, Owner(n, s), of))

BeginSplice(n, s, g, of) ==
    IF Owner(n, s) = None THEN CloseConn(n, s, g)
    ELSE [TakeOwner(n, s) EXCEPT
            !.pend[s] = [id |-> Owner(n, s), answers |-> of]]

DeliverSplice(n, s) ==
    IF n.pend[s] = None THEN n
    ELSE [Push(n, Ev("Splice", s, n.slot[s].gen, n.pend[s].id,
                     n.pend[s].answers)) EXCEPT !.pend[s] = None]

\* The end of the stream waits for what is still to send; an error closes.
FinishFailedRecv(n, s, g, res) ==
    IF res.kind = "eof" /\ ~Dry(n, s) THEN With(n, s, "peerClosed", TRUE)
    ELSE CloseConn(n, s, g)

\* on_recv / on_recv_complete: `res` is a frame, the end of the stream or an
\* error.
OnRecv(n, s, g, res) ==
    IF ~Matches(n, s, g) THEN n
    ELSE LET d == OpDone(With(n, s, "recving", FALSE), s)
             a == d.n
         IN IF ~d.go \/ a.slot[s].cof \/ a.slot[s].peerClosed THEN a
            ELSE CASE res.kind = "reply" ->
                        Pump(DeliverReply(a, s, g, res.of), s, g)
                   [] /\ res.kind = "splice"
                      /\ (a.slot[s].tls => a.cfg.timeout) ->
                        BeginSplice(
                          SubmitSpliceRecv([a EXCEPT !.slot[s].left = 2], s, g),
                          s, g, res.of)
                   [] OTHER -> FinishFailedRecv(a, s, g, res)

\* on_send / on_send_complete: what was queued when the send was armed is out.
OnSend(n, s, g, res) ==
    IF ~Matches(n, s, g) THEN n
    ELSE LET d == OpDone(With(n, s, "sending", FALSE), s)
         IN IF ~d.go THEN d.n
            ELSE IF res.kind = "err" THEN CloseConn(d.n, s, g)
            ELSE LET a == [d.n EXCEPT
                             !.slot[s].queue = SubSeq(@, n.slot[s].out + 1, Len(@))]
                     b == KickSend(a, s, g)
                 IN IF Dry(b, s) /\ (b.slot[s].cof \/ b.slot[s].peerClosed)
                    THEN CloseConn([b EXCEPT !.slot[s].cof = FALSE,
                                             !.slot[s].peerClosed = FALSE], s, g)
                    ELSE Pump(b, s, g)

\* The socket is dry: wait until it is readable.
SubmitSplicePoll(n, s, g) ==
    Stage([n EXCEPT !.slot[s].polling = TRUE, !.slot[s].ops = @ + 1],
          "SplicePoll", s, g)

\* on_splice_recv / on_splice_recv_complete: bytes moved, would block, or over.
OnSpliceRecv(n, s, g, res) ==
    IF ~Matches(n, s, g) THEN n
    ELSE LET d == OpDone(With(n, s, "splicing", FALSE), s)
             a == d.n
         IN IF ~d.go THEN a
            ELSE CASE res.kind = "again" -> SubmitSplicePoll(a, s, g)
                   [] res.kind = "moved" /\ a.slot[s].left > 1 ->
                        SubmitSpliceRecv([a EXCEPT !.slot[s].left = @ - 1,
                                                   !.moved[s] = TRUE], s, g)
                   [] res.kind = "moved" ->
                        Pump(DeliverSplice(
                               CancelSpliceDeadline(
                                 [a EXCEPT !.slot[s].left = 0,
                                           !.moved[s] = TRUE], s, g), s), s, g)
                   [] OTHER -> CloseConn(a, s, g)

OnSplicePoll(n, s, g, res) ==
    IF ~Matches(n, s, g) THEN n
    ELSE LET d == OpDone(With(n, s, "polling", FALSE), s)
         IN IF ~d.go THEN d.n
            ELSE IF res.kind = "ready" THEN SubmitSpliceRecv(d.n, s, g)
            ELSE CloseConn(d.n, s, g)

\* on_splice_deadline: a completion owed by a cancelled watchdog says nothing;
\* an expiry cancels a body that has not moved since the watchdog was armed.
OnSpliceDeadline(n, s, g, res) ==
    LET c == n.slot[s]
    IN IF Matches(n, s, g) /\ c.owed > 0 THEN With(n, s, "owed", c.owed - 1)
       ELSE IF res.kind # "etime" \/ ~Matches(n, s, g) \/ ~c.armed THEN n
       ELSE LET a == With(n, s, "armed", FALSE)
            IN IF ~c.splicing /\ ~c.polling THEN a
               ELSE IF c.left < c.mark THEN ArmSpliceDeadline(a, s, g)
               ELSE [StageCancel(a, {"SpliceRecv"}, s, g)
                        EXCEPT !.early = @ \/ n.moved[s]]

-----------------------------------------------------------------------------
(* Connecting: connect.rs and tls.rs *)

ReserveConnecting(n, s) ==
    [n EXCEPT !.slot[s].st = "Connecting", !.slot[s].tls = n.cfg.tls,
              !.started = @ \cup {<<s, n.slot[s].gen>>}]

\* connect_start_with_state: a free slot is reserved and the connect staged, or
\* nothing is left behind.
ConnectStart(n, s) ==
    Stage(ReserveConnecting(n, s), "Connect", s, n.slot[s].gen)

Install(n, s) ==
    LET g == n.slot[s].gen
    IN Pump(Push(With(n, s, "st", "Serving"), Ev("Connected", s, g, None, None)),
            s, g)

Failed(n, s) == Push(n, Ev("ConnectFailed", s, n.slot[s].gen, None, None))

\* on_connect
OnConnect(n, s, g, res) ==
    IF n.slot[s].gen # g THEN n
    ELSE IF res.kind # "ok" THEN Stage(Failed(n, s), "Close", s, g)
    ELSE IF ~Is(n, s, "Connecting") THEN n
    ELSE IF n.slot[s].tls THEN Stage(n, "FdInstall", s, g)
    ELSE Install(n, s)

\* ensure_wake_armed
EnsureWakeArmed(n) ==
    IF n.wakeArmed THEN n ELSE [Stage(n, "Wake", 0, 0) EXCEPT !.wakeArmed = TRUE]

ParkTlsConnecting(n, s) == With(n, s, "st", "TlsConnecting")

\* take_tls_connecting finds the slot parked mid-handshake.
TlsConnecting(n, s, g) == n.slot[s].gen = g /\ Is(n, s, "TlsConnecting")

\* on_fd_install: the slot parks under a timer, the wake read is armed before
\* the worker can answer, and the deferral goes to the hook ("undup" fails
\* after the slot is parked: it is shed at once).
OnFdInstall(n, s, g, res) ==
    IF n.slot[s].gen # g THEN n
    ELSE IF res.kind = "err" THEN SubmitTeardown(Failed(n, s), s, g)
    ELSE IF ~Is(n, s, "Connecting") THEN n
    ELSE LET p == ParkTlsConnecting(n, s)
             a == EnsureWakeArmed(IF n.cfg.timeout
                                  THEN Stage(p, "HandshakeTimeout", s, g) ELSE p)
         IN IF res.kind = "undup"
            THEN SubmitTeardown(With(Failed(a, s), s, "st", "TlsParked"), s, g)
            ELSE [a EXCEPT !.parked = @ + 1,
                           !.deferrals = @ \cup {<<s, g>>}]

\* shed_parked
ShedParked(n, s) ==
    SubmitTeardown(Failed(With(n, s, "st", "TlsParked"), s), s, n.slot[s].gen)

\* One outcome of drain_handshake_outcomes: moot unless the slot still parks
\* that very handshake.
Outcome(n, o) ==
    IF ~TlsConnecting(n, o.s, o.g) THEN n
    ELSE LET p == [n EXCEPT !.parked = @ - 1]
             a == IF n.cfg.timeout
                  THEN StageCancel(p, {"HandshakeTimeout"}, o.s, o.g) ELSE p
         IN IF o.ready THEN Install(a, o.s) ELSE ShedParked(a, o.s)

\* on_wake / drain_handshake_outcomes: everything handed back so far, then the
\* read again while a handshake is parked.
OnWake(n) ==
    LET a == FoldLeft(Outcome, [n EXCEPT !.wakeArmed = FALSE, !.rx = <<>>], n.rx)
    IN IF a.parked > 0 THEN EnsureWakeArmed(a) ELSE a

\* on_handshake_timeout
OnHandshakeTimeout(n, s, g) ==
    IF ~TlsConnecting(n, s, g) THEN n
    ELSE ShedParked([n EXCEPT !.parked = @ - 1], s)

\* Client::dispatch: the completion is counted off and routed.
Dispatch(n, c) ==
    LET a == [n EXCEPT !.inflight = @ - 1]
    IN CASE c.op = "Connect" -> OnConnect(a, c.s, c.g, c.res)
         [] c.op = "FdInstall" -> OnFdInstall(a, c.s, c.g, c.res)
         [] c.op = "HandshakeTimeout" -> OnHandshakeTimeout(a, c.s, c.g)
         [] c.op = "Wake" -> OnWake(a)
         [] c.op = "Recv" -> OnRecv(a, c.s, c.g, c.res)
         [] c.op = "Send" -> OnSend(a, c.s, c.g, c.res)
         [] c.op = "SpliceRecv" -> OnSpliceRecv(a, c.s, c.g, c.res)
         [] c.op = "SplicePoll" -> OnSplicePoll(a, c.s, c.g, c.res)
         [] c.op = "SpliceDeadline" -> OnSpliceDeadline(a, c.s, c.g, c.res)
         [] c.op = "Shutdown" -> Stage(a, "Close", c.s, c.g)
         [] c.op = "Close" -> OnClosed(a, c.s)
         [] c.op = "Deadline" -> [a EXCEPT !.dlInflight = FALSE]
         [] c.op = "Cancel" -> a

-----------------------------------------------------------------------------
(* The kernel, the peers and the handshake workers (external) *)

Cqe(o, res) == [op |-> o.op, s |-> o.s, g |-> o.g, res |-> res]
R(kind) == [kind |-> kind, of |-> None]

\* One submitted entry: a cancel completes what it finds and says if it found
\* anything.
Submitted(n, e) ==
    IF e.op # "Cancel"
    THEN [n EXCEPT !.kern = @ \cup {[op |-> e.op, s |-> e.s, g |-> e.g]}]
    ELSE LET hit == {o \in n.kern : o.op \in e.of
                                    /\ (o.op = "Deadline" \/ (o.s = e.s /\ o.g = e.g))}
         IN [n EXCEPT !.kern = @ \ hit,
                      !.cq = Append(@, Cqe(e, R(IF hit = {} THEN "ENOENT" ELSE "ok")))
                             \o [i \in 1..Cardinality(hit) |->
                                    Cqe(SetToSeq(hit)[i], R("canceled"))]]
SubmitAll(n) == FoldLeft(Submitted, [n EXCEPT !.sq = <<>>], n.sq)

\* What an operation may complete with.
Results(n, o) ==
    CASE o.op = "Connect" -> {R("ok"), R("err")}
      [] o.op = "FdInstall" -> {R("ok"), R("err"), R("undup")}
      [] o.op = "Recv" ->
            {R("eof"), R("err")}
            \cup (IF n.peer[o.s] # <<>>
                  THEN {[kind |-> k, of |-> Head(n.peer[o.s])] :
                            k \in IF n.cfg.splice THEN {"splice"} ELSE {"reply"}}
                  ELSE IF ~n.stray
                       THEN {[kind |-> "reply", of |-> Unsolicited]} ELSE {})
      [] o.op = "Send" ->
            {R("ok"), R("err")}
      [] o.op = "SpliceRecv" -> {R("moved"), R("again"), R("eof")}
      [] o.op = "SplicePoll" -> {R("ready"), R("err")}
      [] o.op \in {"HandshakeTimeout", "SpliceDeadline", "Deadline"} -> {R("etime")}
      [] o.op = "Wake" -> IF n.poked THEN {R("ok")} ELSE {}
      [] OTHER -> {R("ok")}

Completed(n, o, res) ==
    LET a == [n EXCEPT !.kern = @ \ {o}, !.cq = Append(@, Cqe(o, res))]
    IN CASE o.op = "Wake" -> [a EXCEPT !.poked = FALSE]
         [] o.op = "Send" /\ res.kind = "ok" ->
               [a EXCEPT !.peer[o.s] =
                            @ \o SubSeq(n.slot[o.s].queue, 1, n.slot[o.s].out)]
         [] o.op = "Recv" /\ res.kind \in {"reply", "splice"} ->
               IF res.of = Unsolicited
               THEN [a EXCEPT !.pushed = @ \cup {<<o.s, o.g>>},
                              !.stray = TRUE]
               ELSE [a EXCEPT !.peer[o.s] = Tail(@)]
         [] OTHER -> a

\* ConnectDeferral::{ready, reject, drop}: once, from any thread.
Answered(n, d, ready) ==
    [n EXCEPT !.deferrals = @ \ {d}, !.poked = TRUE,
              !.rx = Append(@, [s |-> d[1], g |-> d[2], ready |-> ready])]

-----------------------------------------------------------------------------
(* The caller *)

Idle0 == [at |-> "idle", via |-> "next", conn |-> None, id |-> None,
          phase |-> "main", fired |-> FALSE, out |-> None]

ClientInit ==
    \E c \in Configs :
      nc = [slot |-> [s \in Slots |-> EmptySlot(0)],
            awaiting |-> [s \in Slots |-> <<>>],
            pend |-> [s \in Slots |-> None], peer |-> [s \in Slots |-> <<>>],
            events |-> <<>>, stash |-> <<>>, log |-> <<>>, given |-> {},
            sq |-> <<>>, kern |-> {}, cq |-> <<>>, inflight |-> 0,
            parked |-> 0, wakeArmed |-> FALSE, dlInflight |-> FALSE, timers |-> 0,
            poked |-> FALSE, rx |-> <<>>, deferrals |-> {},
            call |-> Idle0, reqs |-> 0, started |-> {}, cfg |-> c,
            moved |-> [s \in Slots |-> FALSE], early |-> FALSE,
            pushed |-> {}, stray |-> FALSE, faults |-> 0, sound |-> TRUE]

Idle == nc.call.at = "idle"
Waiting(n) == n.call.at = "enter"

\* no_live_work
NoLiveWork(n) ==
    n.parked = 0 /\ n.inflight = (IF n.wakeArmed THEN 1 ELSE 0)

Return(n) == [n EXCEPT !.call = Idle0, !.events = n.stash \o @, !.stash = <<>>]
Enter(n) == [SubmitAll(n) EXCEPT !.call.at = "enter"]

\* The caller has event number i in hand.
Give(n, i) == Return([n EXCEPT !.given = @ \cup {i}])

\* The event a blocking helper waits for.
AwaitConnectEnds(n, ev) ==
    n.call.via = "await" /\ ev.ev \in {"Connected", "ConnectFailed"}
RequestEnds(n, ev) ==
    /\ n.call.via = "request"
    /\ \/ ev.ev \in {"Closed", "ConnectFailed"}
       \/ ev.ev = "Reply" /\ ev.id = n.call.id
Ends(n, ev) ==
    ev.conn = n.call.conn /\ (AwaitConnectEnds(n, ev) \/ RequestEnds(n, ev))

\* The loops of next_event, request and await_connect, up to the next wait: the
\* events that are not the awaited one are stashed in their order.
RECURSIVE NextEvent(_)
NextEvent(n) ==
    IF n.events # <<>>
    THEN LET i == Head(n.events)
             a == [n EXCEPT !.events = Tail(@)]
         IN IF n.call.via = "next" \/ Ends(n, n.log[i]) THEN Give(a, i)
            ELSE NextEvent([a EXCEPT !.stash = Append(@, i)])
    ELSE IF NoLiveWork(n)
         THEN [Return(n) EXCEPT
                 !.sound = @ /\ \A s \in Slots : Is(n, s, "Empty")]
         ELSE Enter(n)

CancelDeadline(n, phase) ==
    Enter([StageCancel(n, {"Deadline"}, 0, 0) EXCEPT !.call.phase = phase])

\* next_event_timeout from the point where the deadline is armed.
ArmDeadline(n) ==
    Enter([Stage(n, "Deadline", 0, 1 - n.timers)
             EXCEPT !.timers = 1 - @, !.dlInflight = TRUE, !.call.phase = "main"])

\* A bounded wait that does not look for a deadline left in flight.
TimedCareless(n) ==
    IF n.events # <<>> THEN Give([n EXCEPT !.events = Tail(@)], Head(n.events))
    ELSE IF NoLiveWork(n) THEN Return(n)
    ELSE ArmDeadline(n)

Timed(n) ==
    IF n.events # <<>> THEN Give([n EXCEPT !.events = Tail(@)], Head(n.events))
    ELSE IF NoLiveWork(n) THEN Return(n)
    ELSE IF n.dlInflight THEN CancelDeadline(n, "leftover")
    ELSE ArmDeadline(n)

\* What a bounded wait does with the completions it reaps: the deadline's own
\* is counted off in place, the rest are dispatched.
Reaped(n, c) ==
    IF c.op = "Deadline" /\ n.call.via = "timed"
    THEN [n EXCEPT !.inflight = @ - 1, !.call.fired = TRUE,
                   !.sound = @ /\ (n.call.phase = "main"
                                   => c.g = n.timers /\ c.res.kind = "etime")]
    ELSE LET a == Dispatch(n, c)
         IN IF n.call.via = "timed" /\ n.call.phase # "main"
               /\ c.op = "Cancel" /\ c.res.kind = "ENOENT"
            THEN [a EXCEPT !.call.fired = TRUE] ELSE a
ReapAll(n) == FoldLeft(Reaped, [n EXCEPT !.cq = <<>>], n.cq)

\* next_event_timeout and cancel_and_reap_deadline after a batch is reaped.
TimedStep(n) ==
    LET over == [n EXCEPT !.dlInflight = FALSE, !.call.fired = FALSE]
    IN CASE n.call.phase = "main" /\ n.events # <<>> ->
              LET a == [n EXCEPT !.events = Tail(@),
                                 !.call.out = Head(n.events)]
              IN IF n.call.fired
                 THEN Give([a EXCEPT !.dlInflight = FALSE], a.call.out)
                 ELSE CancelDeadline(a, "final")
         [] n.call.phase = "main" /\ n.events = <<>> ->
              IF n.call.fired THEN Return(over) ELSE Enter(n)
         [] n.call.phase = "leftover" ->
              IF n.call.fired THEN ArmDeadline(over) ELSE Enter(n)
         [] n.call.phase = "final" ->
              IF n.call.fired THEN Give(over, n.call.out) ELSE Enter(n)

-----------------------------------------------------------------------------
(* Actions *)

\* Client::send
CanSend(n, s, g) == Matches(n, s, g) /\ Len(n.awaiting[s]) < MaxInFlight
SendOn(n, s, g) ==
    KickSend([n EXCEPT !.reqs = @ + 1,
                       !.slot[s].queue = Append(@, n.reqs + 1),
                       !.awaiting[s] = Append(@, n.reqs + 1)], s, g)

Live == {<<s, nc.slot[s].gen>> : s \in {t \in Slots : Serving(nc, t)}}

ConnectCall ==
    /\ Idle /\ Cardinality(nc.started) < nc.cfg.conns
    /\ \E s \in nc.cfg.slots :
         /\ Is(nc, s, "Empty") /\ \A t \in Slots : t < s => ~Is(nc, t, "Empty")
         /\ \E block \in BOOLEAN :
              LET a == ConnectStart(nc, s)
              IN nc' = IF block
                       THEN NextEvent([a EXCEPT !.call.via = "await",
                                          !.call.conn = <<s, a.slot[s].gen>>])
                       ELSE a

SendCall ==
    /\ Idle /\ nc.reqs < nc.cfg.reqs
    /\ \E k \in Live, block \in BOOLEAN :
         /\ CanSend(nc, k[1], k[2])
         /\ LET a == SendOn(nc, k[1], k[2])
            IN nc' = IF block
                     THEN NextEvent([a EXCEPT !.call.via = "request",
                                        !.call.conn = k, !.call.id = a.reqs])
                     ELSE a

\* Client::close flushes what is queued first; Client::close_now does not.
Close(n, s, g) ==
    IF n.slot[s].sending \/ n.slot[s].queue # <<>>
    THEN DriveFlushClose(With(n, s, "cof", TRUE), s, g)
    ELSE CloseConn(n, s, g)

CloseCall ==
    /\ Idle /\ "close" \in nc.cfg.calls
    /\ \E k \in Live : nc' \in {Close(nc, k[1], k[2]), CloseConn(nc, k[1], k[2])}
    /\ nc' # nc

NextCall == Idle /\ nc.log # <<>> /\ nc' = NextEvent(nc)
TimedCall ==
    Idle /\ "timed" \in nc.cfg.calls /\ nc' = Timed([nc EXCEPT !.call.via = "timed"])

\* submit_and_wait returns with completions.
Wakes ==
    /\ Waiting(nc) /\ nc.cq # <<>>
    /\ LET a == ReapAll(nc)
       IN nc' = IF a.call.via = "timed" THEN TimedStep(a) ELSE NextEvent(a)

\* submit_and_wait fails: the call unwinds, its stash and a deadline behind it.
Fault ==
    /\ Waiting(nc) /\ nc.faults < nc.cfg.faults
    /\ nc' = [nc EXCEPT !.faults = @ + 1, !.call = Idle0, !.stash = <<>>]

\* Completions are looked at in a wait; between waits they matter only to a
\* cancel that is not yet submitted.
Kernel ==
    /\ Waiting(nc) \/ \E i \in DOMAIN nc.sq : nc.sq[i].op = "Cancel"
    /\ \E o \in nc.kern : \E res \in Results(nc, o) : nc' = Completed(nc, o, res)

Worker ==
    \E d \in nc.deferrals, ready \in BOOLEAN : nc' = Answered(nc, d, ready)

ClientNext ==
    \/ ConnectCall \/ SendCall \/ CloseCall \/ NextCall \/ TimedCall
    \/ Wakes \/ Fault \/ Kernel \/ Worker

ClientSpec == ClientInit /\ [][ClientNext]_nc

-----------------------------------------------------------------------------
(* Properties *)

Pending(n) == n.stash \o (IF n.call.out = None THEN <<>> ELSE <<n.call.out>>)
              \o n.events
LogOf(n, k) == SelectSeq(n.log, LAMBDA e : e.conn = k)

\* The caller hears of every connection and every reply exactly once: what was
\* queued is still queued, in its order, or was handed over (a failed
\* io_uring_enter excepted); a connection reports its failure, or that it is up,
\* then replies, then that it closed; and a reply names the request the peer
\* answered, whatever the slot served before (connections whose peer pushes
\* excepted).
EventsExact ==
    /\ nc.faults = 0 =>
         /\ Range(Pending(nc)) \cup nc.given = DOMAIN nc.log
         /\ Range(Pending(nc)) \cap nc.given = {}
         /\ \A i \in 1..(Len(Pending(nc)) - 1) :
              nc.call.via # "timed" => Pending(nc)[i] < Pending(nc)[i + 1]
    /\ \A k \in nc.started :
         LET l == LogOf(nc, k)
         IN \A i \in DOMAIN l :
              CASE l[i].ev \in {"Connected", "ConnectFailed"} -> i = 1
                [] l[i].ev = "Closed" -> i = Len(l) /\ i > 1
                [] OTHER -> i > 1 /\ l[1].ev = "Connected"
    /\ \A i \in DOMAIN nc.log :
         (nc.log[i].ev \in {"Reply", "Splice"} /\ nc.log[i].conn \notin nc.pushed)
           => nc.log[i].id = nc.log[i].answers

\* Waiting is sound: the counts are exact; a caller blocked in the kernel has
\* something to wake it; next_event says "none left" only when every slot is
\* empty; next_event_timeout's "none yet" comes from its own deadline, never from
\* one a failed call left behind; and the watchdog of a spliced body gives up on
\* one only if nothing moved since it was armed.
WaitsSound ==
    /\ nc.inflight = Len(nc.sq) + Cardinality(nc.kern) + Len(nc.cq)
    /\ nc.parked = Cardinality({s \in Slots : Is(nc, s, "TlsConnecting")})
    /\ (Waiting(nc) /\ nc.cq = <<>>) =>
         \E o \in nc.kern : o.op # "Wake" \/ nc.poked \/ nc.deferrals # {}
    /\ nc.sound /\ ~nc.early

=============================================================================
