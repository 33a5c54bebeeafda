----------------------------- MODULE ApiSession -----------------------------
(***************************************************************************)
(* The API client of truenas_api_client: one session (session.rs) and the  *)
(* client that drives it (lib.rs, bulk.rs).  The session correlates calls, *)
(* keeps the server's concurrency budget, queues what exceeds it, backs    *)
(* off and reissues a refused call, times calls out and recognises their   *)
(* late answers.  The client turns a session's acts into sends and events  *)
(* and carries deferred items in core.bulk calls.                          *)
(*                                                                         *)
(* The server and the transport are external: the server answers what it   *)
(* was sent, in any order, whole or in fragments; it may refuse, report an *)
(* error without an id, notify, ping, close, or break the protocol.        *)
(***************************************************************************)
EXTENDS Integers, Sequences, SequencesExt

CONSTANTS
  MaxCalls,        \* calls a caller starts (a bound)
  CallBudget,      \* CALL_BUDGET, at least 1
  MaxCallRetries,  \* MAX_CALL_RETRIES
  MaxQueued,       \* max_queued_calls
  MaxQueuedBytes,  \* max_queued_bytes
  MaxOutbound,     \* max_outbound_bytes, in units of a short frame
  UploadCap,       \* MIDDLEWARE_MSG_CAP_EXTENDED, in the same units
  MaxInbound,      \* max_message_bytes, in units of a short message
  MaxTickets,      \* items a caller defers (a bound)
  ChunkItems,      \* deferred items that fit one core.bulk frame
  Fabricates,      \* the server may answer a call it was not sent
  Modes,           \* pairs: a legacy endpoint or not, calls with a timeout or not
  None

VARIABLE ap

SetupCall == 0
Tickets == 1 .. MaxTickets
Carrier(t) == MaxCalls + t   \* the core.bulk call whose first item is t
ApiCalls == 0 .. MaxCalls + MaxTickets

\* Session::new, ApiClient::new and the peer before the dial
ApiInit ==
  \E mode \in Modes :
    ap = [up |-> FALSE, phase |-> "head", legacy |-> mode[1], timed |-> mode[2],
          pending |-> [c \in ApiCalls |-> None], backlog |-> <<>>,
          queued |-> 0, budget |-> CallBudget, armed |-> FALSE,
          until |-> FALSE, frag |-> 0, subs |-> {},
          next |-> 1, out |-> <<>>, bulk |-> <<>>, next_ticket |-> 1,
          carriers |-> [c \in ApiCalls |-> <<>>],
          ran |-> FALSE, head |-> FALSE, panicked |-> FALSE,
          room |-> 0, owed |-> {}, closed |-> FALSE,
          begun |-> {}, ended |-> [c \in ApiCalls |-> 0], items |-> [t \in Tickets |-> 0]]

-----------------------------------------------------------------------------
\* session.rs.  An operation gives the session afterwards and its acts.

Did(s, acts) == [s |-> s, acts |-> acts]
Act(a, c) == [act |-> a, call |-> c]
Fault(s) == Did(s, <<Act("fault", None)>>)

Live(s) == {c \in ApiCalls : s.pending[c] # None}

BackingOff(s) == s.armed \/ s.until

\* outbound_cap: the upload methods alone are exempt from the ordinary cap.
OutboundCap(upload) == IF upload THEN UploadCap ELSE MaxOutbound

\* submit's refusals: TooLarge, and the two caps on the backlog.
Sending(s) == s.budget > 0 /\ ~BackingOff(s)

SubmitRefused(s, len, upload) ==
  \/ len > OutboundCap(upload)
  \/ /\ ~Sending(s)
     /\ Len(s.backlog) >= MaxQueued \/ s.queued + len > MaxQueuedBytes

Submit(s, c, kind, len, sub) ==
  LET entry == [sent |-> Sending(s), kind |-> kind, len |-> len, sub |-> sub,
                timed |-> s.timed /\ kind # "options", abandoned |-> FALSE,
                retry |-> kind = "user" /\ len <= MaxOutbound, retries |-> 0]
      held == [s EXCEPT !.pending[c] = entry]
  IN IF Sending(s)
     THEN Did([held EXCEPT !.budget = @ - 1], <<Act("send", c)>>)
     ELSE Did([held EXCEPT !.queued = @ + len,
                            !.backlog = Append(@, [call |-> c, len |-> len])],
              <<>>)

\* What drain_backlog sends; abandoned and unknown entries are dropped on the way.
Drained(s) ==
  LET Sendable(c) == s.pending[c] # None /\ ~s.pending[c].abandoned
      Drop(d, c) == [d EXCEPT !.pending[c] = None]
      Put(d, c) == [d EXCEPT !.pending[c].sent = TRUE, !.budget = @ - 1]
      f[k \in 0 .. Len(s.backlog)] ==
        IF k = 0 THEN Did(s, <<>>)
        ELSE LET d == f[k - 1].s
                 c == s.backlog[k].call
                 popped == [d EXCEPT !.backlog = Tail(@),
                                     !.queued = @ - s.backlog[k].len]
             IN CASE d.budget = 0 -> f[k - 1]
                  [] d.budget > 0 /\ Sendable(c) ->
                       Did(Put(popped, c), Append(f[k - 1].acts, Act("send", c)))
                  [] OTHER -> Did(Drop(popped, c), f[k - 1].acts)
  IN f[Len(s.backlog)]

\* Mutant: a closing session goes on sending.
DrainBacklogAnyway(s) == IF BackingOff(s) THEN Did(s, <<>>) ELSE Drained(s)

\* drain_backlog
DrainBacklog(s) ==
  IF s.phase = "closing" \/ BackingOff(s) THEN Did(s, <<>>) ELSE Drained(s)

\* The calls a teardown or a report ends, in the map's order.
DoneActs(s, calls) ==
  [k \in 1 .. Cardinality(calls) |->
     Act("done", SetToSeq(calls)[k])]

Owes(s, c) == ~s.pending[c].abandoned /\ s.pending[c].kind # "options"

\* fail_outstanding: a sent call keeps its entry and its slot.
FailOutstanding(s) ==
  LET told == {c \in Live(s) : Owes(s, c)}
  IN Did([s EXCEPT
            !.pending = [c \in ApiCalls |->
               CASE c \notin Live(s) -> None
                 [] c \in Live(s) /\ ~s.pending[c].sent -> None
                 [] OTHER -> [s.pending[c] EXCEPT
                                !.abandoned = @ \/ c \in told]],
            !.backlog = <<>>, !.queued = 0],
         DoneActs(s, told))

FailAll(s) ==
  Did([s EXCEPT !.pending = [c \in ApiCalls |-> None], !.frag = 0,
                !.backlog = <<>>, !.queued = 0],
      DoneActs(s, {c \in Live(s) : Owes(s, c)}))

\* on_head: validate_101, then Ready, or Setup and core.set_options
OnHead(s, valid) ==
  CASE ~valid -> Did(s, <<Act("failed", None)>>)
    [] valid /\ s.legacy ->
         Did([s EXCEPT !.phase = "open"], <<Act("ready", None)>>)
    [] OTHER -> Submit([s EXCEPT !.phase = "setup"], SetupCall, "options", 1,
                     None)

\* The outcome of the call, by its kind, when its caller still waits.
Concluded(s, c, p, outcome) ==
  CASE p.kind = "options" /\ outcome = "ok" ->
         Did([s EXCEPT !.phase = "open"], <<Act("ready", None)>>)
    [] p.kind = "options" /\ outcome # "ok" -> Did(s, <<Act("setup_failed", None)>>)
    [] p.kind = "subscribe" /\ outcome = "ok" ->
         Did([s EXCEPT !.subs = @ \cup {c}], <<Act("subscribed", c)>>)
    [] p.kind = "unsubscribe" /\ outcome \in {"ok", "odd"} ->
         Did([s EXCEPT !.subs = @ \ {p.sub}], <<Act("unsubscribed", c)>>)
    [] OTHER -> Did(s, <<Act("done", c)>>)

\* on_answer for an answer naming call c
OnAnswer(s, c, outcome) ==
  LET p == s.pending[c]
      gone == [s EXCEPT !.pending[c] = None]
      freed == [gone EXCEPT !.budget = @ + 1]
      refused == outcome = "refused"
      armed == IF refused THEN [freed EXCEPT !.armed = TRUE] ELSE freed
      again == [armed EXCEPT !.pending[c] =
                                [p EXCEPT !.sent = FALSE, !.retries = @ + 1],
                             !.backlog = <<[call |-> c, len |-> p.len]>> \o @, !.queued = @ + p.len]
      drained == DrainBacklog(armed)
      ending == Concluded(drained.s, c, p, outcome)
  IN CASE p = None -> Fault(s)
       [] p # None /\ ~p.sent -> Fault(gone)
       [] p # None /\ p.sent /\ refused /\ ~p.abandoned /\ p.retry
            /\ p.retries < MaxCallRetries -> Did(again, <<>>)
       [] p # None /\ p.sent /\ p.abandoned -> drained
       [] OTHER -> Did(ending.s, drained.acts \o ending.acts)

\* on_answer with a null id: a report, and every call in flight is failed.
OnReport(s) ==
  LET failed == FailOutstanding(s)
  IN Did(failed.s, <<Act("server_error", None)>> \o failed.acts)

\* on_message, on_notification
OnMessage(s, msg) ==
  CASE msg.kind = "answer" -> OnAnswer(s, msg.call, msg.outcome)
    [] msg.kind = "report" -> OnReport(s)
    [] msg.kind = "notice" -> Did(s, <<Act("notice", None)>>)
    [] msg.kind = "unsubscribed" ->
         Did([s EXCEPT !.subs = {}], <<Act("notice", None)>>)
    [] OTHER -> Fault(s)

\* on_close_frame: echoed once; a close of ours makes it the peer's echo.
OnCloseFrame(s) ==
  IF s.phase = "closing" THEN Did(s, <<>>)
  ELSE Did([s EXCEPT !.phase = "closing", !.frag = 0],
           <<Act("close", None), Act("peer_closing", None)>>)

StartClose(s) ==
  IF s.phase = "closing" THEN Did(s, <<>>)
  ELSE Did([s EXCEPT !.phase = "closing"], <<Act("close", None)>>)

\* on_frame: frag holds the bytes of an open fragmented message
OnFrame(s, f) ==
  CASE f.op = "ping" -> Did(s, <<Act("pong", None)>>)
    [] f.op = "pong" -> Did(s, <<>>)
    [] f.op = "close" -> OnCloseFrame(s)
    [] f.op = "binary" -> Fault(s)
    [] f.op = "text" ->
         CASE s.frag > 0 \/ f.len > MaxInbound -> Fault(s)
           [] s.frag = 0 /\ f.len <= MaxInbound /\ ~f.fin ->
                Did([s EXCEPT !.frag = f.len], <<>>)
           [] OTHER -> OnMessage(s, f.msg)
    [] f.op = "cont" ->
         CASE s.frag = 0 \/ s.frag + f.len > MaxInbound ->
                Fault([s EXCEPT !.frag = 0])
           [] s.frag > 0 /\ s.frag + f.len <= MaxInbound /\ ~f.fin ->
                Did([s EXCEPT !.frag = @ + f.len], <<>>)
           [] OTHER -> OnMessage([s EXCEPT !.frag = 0], f.msg)

\* A mutant: a call that timed out is forgotten, its slot with it.
SessionExpireForgets(s, late, passed) ==
  LET timed == [s EXCEPT !.pending = [c \in ApiCalls |-> IF c \in late THEN None
                                                          ELSE s.pending[c]]]
      clocked == CASE s.armed -> [timed EXCEPT !.armed = FALSE, !.until = TRUE]
                   [] ~s.armed /\ passed -> [timed EXCEPT !.until = FALSE]
                   [] OTHER -> timed
      drained == DrainBacklog(clocked)
  IN Did(drained.s, DoneActs(s, late) \o drained.acts)

\* expire: the calls in late time out; the backoff is given its instant, or
\* retired when that has passed.
SessionExpire(s, late, passed) ==
  LET timed == [s EXCEPT !.pending =
                  [c \in ApiCalls |-> IF c \in late
                     THEN [s.pending[c] EXCEPT !.abandoned = TRUE]
                     ELSE s.pending[c]]]
      clocked == CASE s.armed -> [timed EXCEPT !.armed = FALSE, !.until = TRUE]
                   [] ~s.armed /\ passed -> [timed EXCEPT !.until = FALSE]
                   [] OTHER -> timed
      drained == DrainBacklog(clocked)
  IN Did(drained.s, DoneActs(s, late) \o drained.acts)

-----------------------------------------------------------------------------
\* lib.rs.  Acts become sends and events; a refused send ends the session.

Ends == {"done", "subscribed", "unsubscribed"}

Emit(s, ev, c) ==
  [s EXCEPT !.out = Append(@, [ev |-> ev, of |-> c]),
            !.ended = [d \in ApiCalls |->
                         @[d] + (IF d = c /\ ev \in Ends THEN 1 ELSE 0)]]

\* fail_session, and the same lines in send_or_fault, Fault and Closed: the
\* session leaves the map and what it had accepted is failed.
Removed(s) ==
  LET f == FailAll(s)
      EmitDone(d, a) == Emit(d, a.act, a.call)
  IN IF s.phase = "gone" THEN s
     ELSE FoldLeft(EmitDone, [f.s EXCEPT !.phase = "gone"], f.acts)

\* send_or_fault, Act::Fault, Event::Closed
Closed(s) == IF s.phase = "gone" THEN s ELSE Emit(Removed(s), "closed", None)

\* The transport takes room more sends before its backlog is full.
SendOrFault(s, a) ==
  CASE s.phase = "gone" -> s
    [] s.phase # "gone" /\ s.room = 0 -> Closed(s)
    [] OTHER -> [s EXCEPT !.room = @ - 1,
                          !.owed = IF a.act = "send" THEN @ \cup {a.call} ELSE @,
                          !.closed = @ \/ a.act = "close"]

\* apply and surface
ApplyAct(s, a) ==
  CASE a.act \in {"send", "close", "pong", "upgrade"} -> SendOrFault(s, a)
    [] a.act \in {"failed", "setup_failed"} ->
         Emit(Removed(s), "session_failed", None)
    [] a.act = "fault" -> Closed(s)
    [] a.act = "peer_closing" -> s
    [] OTHER -> Emit(s, a.act, a.call)

Apply(d) == FoldLeft(ApplyAct, d.s, d.acts)

\* A handler runs with the transport's room at that moment; the pump's loop
\* starts over after it.
Rooms == 0 .. 2

Given(room) == [ap EXCEPT !.room = room]

Handled(d) == ap' = [Apply(d) EXCEPT !.room = 0, !.ran = FALSE]

-----------------------------------------------------------------------------
\* The caller: call_start, subscribe_start, unsubscribe_start, close

Minted(s) == s.next <= MaxCalls /\ s.phase = "open" /\ ~s.panicked

Started(s, kind, len, sub) ==
  Submit([s EXCEPT !.next = @ + 1, !.begun = @ \cup {s.next}], s.next, kind,
         len, sub)

CallStart ==
  \E len \in 1 .. UploadCap, upload \in BOOLEAN, room \in Rooms :
    /\ Minted(ap) /\ ~SubmitRefused(ap, len, upload)
    /\ Handled(Started(Given(room), "user", len, None))

SubscribeStart ==
  \E room \in Rooms :
    /\ Minted(ap) /\ ~SubmitRefused(ap, 1, FALSE)
    /\ Handled(Started(Given(room), "subscribe", 1, None))

UnsubscribeStart ==
  \E sub \in ap.subs, room \in Rooms :
    /\ Minted(ap) /\ ~SubmitRefused(ap, 1, FALSE)
    /\ Handled(Started(Given(room), "unsubscribe", 1, sub))

CloseSession ==
  \E room \in Rooms :
    /\ ap.phase \notin {"closing", "gone"} /\ ~ap.panicked
    /\ Handled(StartClose(Given(room)))

Enqueue(bulk, ticket, big) == Append(bulk, [ticket |-> ticket, big |-> big])

\* queue_bulk: admitted against any session the client knows.  An item longer
\* than a frame is admitted too, and fails alone at the flush.
QueueBulk ==
  \E big \in BOOLEAN :
    /\ ap.phase # "gone" /\ ap.next_ticket <= MaxTickets /\ ~ap.panicked
    /\ ap' = [ap EXCEPT !.next_ticket = @ + 1, !.ran = FALSE,
                        !.bulk = Enqueue(@, ap.next_ticket, big)]

ItemsDone(s, tickets) ==
  [s EXCEPT !.items = [t \in Tickets |->
                         @[t] + (IF Contains(tickets, t) THEN 1 ELSE 0)]]

ItemEvents(tickets) ==
  [k \in DOMAIN tickets |-> [ev |-> "item", of |-> tickets[k]]]

TicketsOf(items) == [k \in DOMAIN items |-> items[k].ticket]

Fails(s, items) ==
  [ItemsDone(s, TicketsOf(items)) EXCEPT !.out = @ \o ItemEvents(TicketsOf(items))]

\* take_chunk: leading items no frame can hold are set aside, then the run of
\* items that fit one frame is taken.
Run(items, big) ==
  LET stops == {k \in DOMAIN items : items[k].big # big}
  IN IF stops = {} THEN Len(items) ELSE Min(stops) - 1

TakeChunk(items) ==
  LET skip == Run(items, TRUE)
      rest == SubSeq(items, skip + 1, Len(items))
      n == Min({Run(rest, FALSE), ChunkItems})
  IN [oversized |-> SubSeq(items, 1, skip), chunk |-> SubSeq(rest, 1, n),
      left |-> SubSeq(rest, n + 1, Len(rest))]

\* One core.bulk call carries a chunk; refused, the chunk's items fail and the
\* rest wait for the next tick.
Carry(s, items) ==
  LET c == Carrier(items[1].ticket)
      call == Apply(Submit([s EXCEPT !.begun = @ \cup {c}], c, "user", 1, None))
  IN Emit([call EXCEPT !.carriers[c] = TicketsOf(items)], "flushed", None)

FlushOpen(s) ==
  LET f[k \in 0 .. Len(s.bulk)] ==
        IF k = 0 THEN [s |-> s, go |-> TRUE]
        ELSE LET was == f[k - 1].s
                 take == TakeChunk(was.bulk)
                 rest == Fails([was EXCEPT !.bulk = take.left], take.oversized)
                 ok == was.phase = "open" /\ ~SubmitRefused(was, 1, FALSE)
             IN CASE ~f[k - 1].go \/ was.bulk = <<>> -> f[k - 1]
                  [] f[k - 1].go /\ was.bulk # <<>> /\ take.chunk = <<>> ->
                       [s |-> rest, go |-> FALSE]
                  [] f[k - 1].go /\ take.chunk # <<>> /\ ok ->
                       [s |-> Carry(rest, take.chunk), go |-> TRUE]
                  [] OTHER -> [s |-> Fails(rest, take.chunk), go |-> FALSE]
  IN f[Len(s.bulk)].s

\* flush_bulk_now: a session not open yet keeps its queue, a gone one fails it.
FlushBulk(s) ==
  CASE s.phase = "gone" -> Fails([s EXCEPT !.bulk = <<>>], s.bulk)
    [] s.phase = "open" -> FlushOpen(s)
    [] OTHER -> s

FlushNow ==
  \E room \in Rooms :
    /\ ap.bulk # <<>> /\ ~ap.panicked
    /\ ap' = [FlushBulk([ap EXCEPT !.room = room]) EXCEPT
                !.room = 0, !.ran = FALSE]

-----------------------------------------------------------------------------
\* pump: events first; then expire and the bulk tick; then the transport.

PumpEvent ==
  /\ ap.out # <<>>
  /\ LET e == Head(ap.out)
         tickets == IF e.ev = "done" THEN ap.carriers[e.of] ELSE <<>>
         rest == [ap EXCEPT !.out = ItemEvents(tickets) \o Tail(@), !.ran = FALSE]
     IN ap' = IF tickets = <<>> THEN rest
              ELSE [ItemsDone(rest, tickets) EXCEPT !.carriers[e.of] = <<>>]

BulkTickDue(s) == s.bulk # <<>>

Timed(s) == {c \in Live(s) : s.pending[c].timed /\ ~s.pending[c].abandoned}

\* ApiClient::expire, then flush_bulk_now when the tick is due
Turned(s, late, passed, tick) ==
  LET aged == IF s.phase = "gone" THEN s ELSE Apply(SessionExpire(s, late, passed))
      flushed == IF tick THEN FlushBulk(aged) ELSE aged
  IN [flushed EXCEPT !.room = 0, !.ran = TRUE]

PumpTurn ==
  /\ ap.out = <<>> /\ ~ap.ran /\ ~ap.panicked
  /\ \E late \in SUBSET Timed(ap), passed \in BOOLEAN, tick \in BOOLEAN,
        room \in Rooms :
       /\ passed => ap.until
       /\ tick => BulkTickDue(ap)
       /\ ap' = Turned([ap EXCEPT !.room = room], late, passed, tick)

\* next_deadline and next_tick: what bounds the wait for the transport.
Waits(s) == Timed(s) # {} \/ s.until \/ s.bulk # <<>>

TimerRings ==
  /\ ap.out = <<>> /\ ap.ran /\ Waits(ap)
  /\ \E late \in SUBSET Timed(ap), room \in Rooms :
       ap' = Turned([ap EXCEPT !.room = room], late, ap.until, ap.bulk # <<>>)

\* on_transport
Waiting == ap.out = <<>> /\ ap.ran /\ ~ap.panicked

Connected ==
  \E room \in Rooms :
    /\ Waiting /\ ~ap.up /\ ap.phase # "gone"
    /\ Handled(Did([Given(room) EXCEPT !.up = TRUE], <<Act("upgrade", None)>>))

ConnectFailed ==
  /\ Waiting /\ ~ap.up /\ ap.phase # "gone"
  /\ ap' = [Emit([ap EXCEPT !.phase = "gone", !.ran = FALSE],
                 "session_failed", None) EXCEPT !.up = FALSE]

\* The response head reaches the transport's event queue, ahead of the pump.
HeadArrives ==
  /\ ap.up /\ ap.phase = "head" /\ ~ap.head
  /\ ap' = [ap EXCEPT !.head = TRUE]

\* on_transport reads the phase, not the event, to tell a head from a frame.
HeadDelivered ==
  /\ Waiting /\ ap.head
  /\ \E valid \in BOOLEAN, room \in Rooms :
       CASE ap.phase = "head" ->
              Handled(OnHead([Given(room) EXCEPT !.head = FALSE], valid))
         [] ap.phase = "gone" -> ap' = [ap EXCEPT !.head = FALSE]
         [] OTHER -> ap' = [ap EXCEPT !.head = FALSE, !.panicked = TRUE]

Speaking == Waiting /\ ap.up /\ ~ap.head /\ ap.phase \in {"setup", "open", "closing"}

Outcomes == {"ok", "odd", "error", "refused"}

Answerable(s) ==
  s.owed \cup (IF Fabricates THEN {c \in Live(s) : ~s.pending[c].sent} ELSE {})

\* A complete message, alone or as the last fragment of one
Delivers(msg, room) ==
  LET f == [op |-> IF ap.frag > 0 THEN "cont" ELSE "text", fin |-> TRUE,
            len |-> 1, msg |-> msg]
  IN Handled(OnFrame([Given(room) EXCEPT !.owed = IF msg.kind = "answer" THEN @ \ {msg.call}
                                                  ELSE @], f))

ServerAnswers ==
  \E c \in Answerable(ap), o \in Outcomes, room \in Rooms :
    /\ Speaking
    /\ Delivers([kind |-> "answer", call |-> c, outcome |-> o], room)

ServerSpeaks ==
  \E k \in {"report", "notice", "unsubscribed", "junk"} :
    /\ Speaking
    /\ Delivers([kind |-> k], 0)

ServerFrames ==
  \E f \in {[op |-> "ping"], [op |-> "pong"], [op |-> "close"], [op |-> "binary"]}
         \cup [op : {"text", "cont"}, fin : {FALSE}, len : 1 .. MaxInbound + 1],
     room \in Rooms :
    /\ Speaking
    /\ Handled(OnFrame(Given(room), f))

TransportCloses ==
  /\ Waiting /\ ap.up /\ ap.phase # "gone"
  /\ ap' = [Closed(ap) EXCEPT !.ran = FALSE, !.head = FALSE]

ApiNext ==
  \/ CallStart \/ SubscribeStart \/ UnsubscribeStart \/ CloseSession
  \/ QueueBulk \/ FlushNow
  \/ PumpEvent \/ PumpTurn \/ TimerRings
  \/ Connected \/ ConnectFailed \/ HeadArrives \/ HeadDelivered
  \/ ServerAnswers \/ ServerSpeaks \/ ServerFrames \/ TransportCloses

-----------------------------------------------------------------------------
\* Every call a caller or a flush started is either waiting in a session, or
\* has had exactly one event that ends it: no answer, late answer, timeout,
\* reissue, report or teardown ends a call twice or loses it (on_answer,
\* expire, fail_outstanding, fail_all, send_or_fault).
CallsEndOnce ==
  \A c \in ap.begun :
    ap.ended[c] = IF ap.pending[c] # None /\ ~ap.pending[c].abandoned
                  THEN 0 ELSE 1

\* A living session's budget is exactly what the server does not hold, the
\* server owes exactly the entries marked sent, and the backlog is exactly the
\* unsent entries with their bytes: no slot leaks through a timeout, a refusal
\* or a report, and no queued call is stranded (submit, on_answer,
\* drain_backlog).
SlotsExact ==
  ap.phase # "gone" =>
    LET unsent == {c \in Live(ap) : ~ap.pending[c].sent}
        queue == {ap.backlog[k].call : k \in DOMAIN ap.backlog}
    IN /\ ap.owed = Live(ap) \ unsent
       /\ ap.budget + Cardinality(ap.owed) = CallBudget
       /\ queue = unsent /\ Cardinality(queue) = Len(ap.backlog)
       /\ ap.queued = FoldLeft(LAMBDA n, b : n + b.len, 0, ap.backlog)

\* Every deferred item is in the queue, or rides one carrier, or was reported
\* once (queue_bulk, flush_bulk_now, fan_out_bulk, drain_bulk_to_closed).
ItemsEndOnce ==
  \A t \in 1 .. ap.next_ticket - 1 :
    ap.items[t]
      + Cardinality({k \in DOMAIN ap.bulk : ap.bulk[k].ticket = t})
      + Cardinality({c \in ApiCalls : Contains(ap.carriers[c], t)}) = 1

\* No request leaves a session in its closing phase, whatever answer frees a
\* slot for its backlog (drain_backlog's test of Closing, call_start's of Open).
ClosingQuiet ==
  [][ap.phase = "closing" /\ ap'.phase = "closing"
       => ap'.owed \subseteq ap.owed]_ap

\* drain_backlog: "MUST NOT send any more data frames after sending a Close
\* frame".
QuietAfterClose == [][ap.closed => ap'.owed \subseteq ap.owed]_ap

\* A pump that blocks with calls queued will be woken for them: the backoff
\* that holds them has its instant among the deadlines the wait is bounded by,
\* or the server holds every slot and owes an answer (expire, next_deadline,
\* drain_backlog, pump).
QueueWakes ==
  Waiting /\ ap.phase \in {"setup", "open"} /\ ap.backlog # <<>> =>
    IF BackingOff(ap) THEN ~ap.armed /\ Waits(ap) ELSE ap.owed # {}

\* on_transport: "The framer only completes frames whose header it validated,
\* so this parse cannot fail."
HeaderParses == ~ap.panicked

-----------------------------------------------------------------------------
(***************************************************************************)
(* The blocking helpers of the API client (truenas_api_client/src/lib.rs): *)
(* connect and call wait in wait_for for the one event they want and set   *)
(* every other aside, between the caller's own pumps.                      *)
(*                                                                         *)
(* An event is the number of its arrival; the answer of a bulk call stands *)
(* for the numbers of its items, which pump fans out when it reaches it.   *)
(***************************************************************************)

CONSTANTS
  MaxWaiting,  \* ApiConfig::max_waiting_events
  MaxEvents    \* how many events ever happen (a bound)

VARIABLE wt

\* `given` is what pump and the helpers handed out, `session` what became of
\* the session a connect opened, `base` the events there had been when a wait
\* began and `folded` the items then still folded into bulk answers.
WaitInit ==
  wt = [out |-> <<>>, skipped |-> <<>>, carried |-> 0, buffered |-> 0,
        want |-> 0, by |-> "none", deadline |-> FALSE, verdict |-> "none",
        session |-> "none", born |-> 0, given |-> <<>>, base |-> 0, folded |-> 0]

Events(ev) == [i \in 1..(ev.last - ev.first + 1) |->
                 [first |-> ev.first + i - 1, last |-> ev.first + i - 1]]
Spread(q) == FlattenSeq([i \in DOMAIN q |-> Events(q[i])])

\* What one turn of the transport, an expiry or a bulk tick queues.
Arrived(w, n) ==
  [w EXCEPT !.born = @ + n,
            !.out = Append(@, [first |-> w.born + 1, last |-> w.born + n])]

\* pump's pop_front, with the items of a bulk answer put back in its place.
FannedOut(w) == [w EXCEPT !.out = Events(Head(@)) \o Tail(@)]

\* The end of wait_for: what was set aside goes back in front.
\* Mutant: it is queued behind what arrived meanwhile.
RestoreBehind(w) == [w EXCEPT !.out = @ \o w.skipped, !.skipped = <<>>]

Restore(w) == [w EXCEPT !.out = w.skipped \o @, !.skipped = <<>>]

\* connect closes the session its wait gave up on; call has nothing to undo.
GiveUp(w, why) ==
  [Restore(w) EXCEPT !.verdict = why, !.by = "none", !.want = 0,
     !.session = IF w.by = "connect" THEN "closing" ELSE @]

Claimed(w, ev) ==
  [Restore([w EXCEPT !.out = Tail(@)]) EXCEPT
     !.verdict = "claimed", !.by = "none", !.want = 0,
     !.given = Append(@, ev.first),
     !.session = IF w.by = "connect" THEN "open" ELSE @]

SetAside(w, ev) == [w EXCEPT !.out = Tail(@), !.skipped = Append(@, ev)]

\* One event in wait_for's match.
Met(w) ==
  LET ev == Head(w.out)
      x == SetAside(w, ev)
  IN  CASE ev.first = w.want -> Claimed(w, ev)
        [] ev.first # w.want /\ w.carried > 0 -> [x EXCEPT !.carried = @ - 1]
        [] ev.first # w.want /\ w.carried = 0 /\ w.buffered >= MaxWaiting ->
             GiveUp(x, "full")
        [] OTHER -> [x EXCEPT !.buffered = @ + 1]

-----------------------------------------------------------------------------

Idle == wt.by = "none"

\* connect's wait for its session, call's for its answer.  The event wanted
\* is one to come, or one that never does.
Begin ==
  \E by \in {"connect", "call"}, want \in (wt.born + 1)..(MaxEvents + 1),
     deadline \in BOOLEAN :
    /\ Idle /\ (by = "connect" => wt.session = "none")
    /\ wt' = [wt EXCEPT !.by = by, !.want = want, !.deadline = by = "connect" /\ deadline,
                        !.carried = Len(wt.out), !.buffered = 0,
                        !.verdict = "waiting", !.base = wt.born,
                        !.folded = Len(Spread(wt.out)) - Len(wt.out),
                        !.session = IF by = "connect" THEN "connecting" ELSE @]

\* The caller's own pump.
PumpsOne ==
  /\ Idle /\ wt.out # <<>>
  /\ LET w == FannedOut(wt)
     IN  wt' = [w EXCEPT !.out = Tail(@), !.given = Append(@, Head(w.out).first)]

\* A turn of the loop: an event the queue holds,
Meets ==
  /\ ~Idle /\ wt.out # <<>>
  /\ wt' = Met(FannedOut(wt))

\* the clock at the loop's head, pump's own error, or pump with nothing left
\* to wait for.
WaitEnds ==
  \E why \in {"timeout", "io", "closed"} :
    /\ ~Idle
    /\ why = "timeout" => wt.deadline
    /\ why # "timeout" => wt.out = <<>>
    /\ wt' = GiveUp(wt, why)

\* pump reaches the transport only with an empty queue; a call and close
\* queue failures of their own whatever it holds.
Arrives ==
  \E n \in 1..2 :
    /\ wt.born + n <= MaxEvents /\ (~Idle => wt.out = <<>>)
    /\ wt' = Arrived(wt, n)

WaitNext == Begin \/ PumpsOne \/ Meets \/ WaitEnds \/ Arrives

-----------------------------------------------------------------------------

\* Nothing is lost or reordered by a wait however it ends: what was handed out
\* and what is still held are every event there has been, the held ones in the
\* order they came.  A wait is refused only over events that came or were
\* unfolded during it, so the ones a refused wait put back never refuse the
\* next; and no session is left behind by a connect that failed (ApiClient::wait_for, connect).
WaitKeeps ==
  LET held == Spread(wt.skipped \o wt.out)
  IN  /\ \A i \in 1..(Len(held) - 1) : held[i].first < held[i + 1].first
      /\ {held[i].first : i \in DOMAIN held} \cap ToSet(wt.given) = {}
      /\ {held[i].first : i \in DOMAIN held} \cup ToSet(wt.given) = 1..wt.born
      /\ wt.verdict = "full" => wt.born - wt.base + wt.folded > MaxWaiting
      /\ Idle => wt.session # "connecting"
=============================================================================
