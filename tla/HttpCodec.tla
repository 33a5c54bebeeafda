----------------------------- MODULE HttpCodec -----------------------------
(***************************************************************************)
(* One HTTP/1.1 server connection: the framer (src/http/framer.rs), the    *)
(* chunked coding (src/http/chunked.rs), what a request head decides       *)
(* (src/http/head.rs) and the protocol step that hands a request to the    *)
(* handler and its answer to the reactor (src/http/protocol.rs,            *)
(* src/http/response.rs).                                                  *)
(*                                                                         *)
(* The peer's bytes are a sequence of tokens - a head, the part of a head  *)
(* before its end, a chunk-size line, a byte of payload, a trailer line -  *)
(* that arrive one by one, so that the framer sees every prefix.  Lengths  *)
(* count tokens.                                                           *)
(***************************************************************************)
EXTENDS Integers, Sequences, SequencesExt

CONSTANTS
  Scripts,       \* what peers send: requests [head, toks, good], in order
  MaxHead, MaxBody, ChunkOverhead, TrailerMax, StreamWindow,
  StreamCap,     \* the caps of the endpoints: 0, or a streaming one's
  MaxDefers,     \* bound: deferrals of one connection
  None

VARIABLE ht

-----------------------------------------------------------------------------
(* What a head decides (head.rs).  A head is [version, method, host, te, cl,*)
(* expect, conn, extra]: te and cl are the values of its fields in order,   *)
(* a content length that does not parse is None, host the validity of each  *)
(* Host field, extra the tokens before its end.                             *)

Count(s, e) == Cardinality({i \in DOMAIN s : s[i] = e})

\* host_check, with host_is_valid
HostStatus(hd) ==
  IF Len(hd.host) > 1 \/ \E i \in DOMAIN hd.host : ~hd.host[i] THEN 400
  ELSE IF hd.host = <<>> /\ hd.version = 11 THEN 400
  ELSE 0

\* body_from: the body a head declares, or the status that refuses it.
BodyFrom(hd) ==
  LET bad(s)  == [kind |-> "bad", status |-> s]
      others  == Len(hd.te) - Count(hd.te, "chunked")
  IN  IF Len(hd.cl) > 1 THEN bad(400)
      ELSE IF hd.te # <<>>
      THEN IF \/ hd.version = 10
              \/ Count(hd.te, "chunked") # 1 \/ Last(hd.te) # "chunked"
              \/ hd.cl = <<None>>
           THEN bad(400)
           ELSE IF others > 0 THEN bad(501)
           ELSE [kind |-> "chunked"]
      ELSE IF hd.cl = <<>> THEN [kind |-> "known", len |-> 0]
      ELSE IF hd.cl = <<None>> THEN bad(400)
      ELSE [kind |-> "known", len |-> hd.cl[1]]

ExpectsContinue(hd) == hd.version = 11 /\ hd.expect

\* response_disposition: keep-alive, and not a message with both lengths.
Persists(hd) ==
  /\ "close" \notin hd.conn
  /\ hd.version = 10 => "keep-alive" \in hd.conn
  /\ ~(hd.cl # <<>> /\ hd.te # <<>>)

-----------------------------------------------------------------------------
(* The chunked coding (chunked.rs). *)

NewScan == [state |-> "Size", remaining |-> 0, consumed |-> 0, decoded |-> 0,
            trailer |-> 0, err |-> 0, entity |-> <<>>]

\* run, for one token.
RunToken(s, t) ==
  CASE s.state = "Done" \/ s.err # 0 -> s
    [] s.state = "Size" ->
         IF t.k # "size" THEN [s EXCEPT !.err = 400]
         ELSE [s EXCEPT !.consumed = @ + 1, !.remaining = t.n,
                        !.state = IF t.n = 0 THEN "Trailer" ELSE "Data"]
    [] s.state = "Data" ->
         [s EXCEPT !.consumed = @ + 1, !.decoded = @ + 1, !.remaining = @ - 1,
                   !.entity = Append(@, t),
                   !.state = IF s.remaining = 1 THEN "DataCrlf" ELSE "Data"]
    [] s.state = "DataCrlf" ->
         IF t.k # "crlf" THEN [s EXCEPT !.err = 400]
         ELSE [s EXCEPT !.consumed = @ + 1, !.state = "Size"]
    [] s.state = "Trailer" ->
         IF s.trailer + 1 > TrailerMax
         THEN [s EXCEPT !.trailer = @ + 1, !.err = 431]
         ELSE [s EXCEPT !.trailer = @ + 1, !.consumed = @ + 1,
                        !.state = IF t.k = "crlf" THEN "Done" ELSE @,
                        !.err = IF t.k \in {"crlf", "field"} THEN 0 ELSE 400]

\* A mutant: a resumed scan reads the body from its start again.
ScanAgain(body, s) == FoldLeft(RunToken, s, body)

\* scan: resumes where the scan stopped.
Scan(body, s) == FoldLeft(RunToken, s, SubSeq(body, s.consumed + 1, Len(body)))

\* step: one chunk of a streamed body; the last one with its trailers.
ChunkStep(buf, after) ==
  LET at   == IF after THEN 1 ELSE 0
      rest == SubSeq(buf, at + 1, Len(buf))
      last == Scan(rest, NewScan)
  IN  IF after /\ buf # <<>> /\ buf[1].k # "crlf"
      THEN [step |-> "Bad", status |-> 400]
      ELSE IF rest = <<>> THEN [step |-> "More"]
      ELSE IF rest[1].k # "size" THEN [step |-> "Bad", status |-> 400]
      ELSE IF rest[1].n > 0
      THEN [step |-> "Chunk", framing |-> at + 1, payload |-> rest[1].n]
      ELSE IF last.err # 0 THEN [step |-> "Bad", status |-> last.err]
      ELSE IF last.state = "Done"
      THEN [step |-> "Last", framing |-> at + last.consumed]
      ELSE [step |-> "More"]

\* decode, and compact, of a whole body: the entity, if it is one.
Decode(wire) ==
  LET s == Scan(wire, NewScan)
  IN  IF s.state = "Done" /\ s.err = 0 /\ s.consumed = Len(wire)
      THEN [ok |-> TRUE, entity |-> s.entity]
      ELSE [ok |-> FALSE, entity |-> <<>>]

-----------------------------------------------------------------------------
(* The framer (framer.rs).  A verdict is <<>> for More and MoreInMessage,   *)
(* or the header and body lengths of a Complete.                            *)

HeadPhase == [name |-> "Head"]
NoResume  == [name |-> "none"]

Framed(h, phase, frame) == [h EXCEPT !.phase = phase, !.frame = frame]

\* fail: what is buffered is the message; the method is that of the head the
\* phase keeps, or of the one the buffer starts with.
Fail(h, buf, status) ==
  Framed(h, [name |-> "Fail", status |-> status,
             head |-> IF h.phase.name = "Head" THEN buf[1].r ELSE h.phase.head],
         <<Len(buf), 0>>)

Min2(a, b) == IF a < b THEN a ELSE b

\* scan_step
ScanStep(h, buf) ==
  LET ph   == h.phase
      s    == Scan(SubSeq(buf, ph.head_len + 1, Len(buf)), ph.scan)
      over == IF s.decoded > MaxBody THEN 413
              ELSE IF s.consumed > MaxBody + ChunkOverhead THEN 400 ELSE 0
  IN  IF over # 0 THEN Fail(h, buf, over)
      ELSE IF s.err # 0 THEN Fail(h, buf, s.err)
      ELSE IF s.state # "Done" THEN Framed(h, [ph EXCEPT !.scan = s], <<>>)
      ELSE Framed(h, [name |-> "ChunkedDone", head |-> ph.head],
                  <<ph.head_len, s.consumed>>)

\* stream_step
StreamStep(h, buf) ==
  LET ph == h.phase
      st == ChunkStep(buf, ph.after)
  IN  IF ph.left > 0 THEN Framed(h, ph, <<0, Min2(ph.left, StreamWindow)>>)
      ELSE CASE st.step = "More"  -> Framed(h, ph, <<>>)
             [] st.step = "Bad"   -> Fail(h, buf, st.status)
             [] st.step = "Chunk" ->
                  IF ph.decoded + st.payload > h.cap THEN Fail(h, buf, 413)
                  ELSE Framed(h, ph, <<st.framing,
                                       Min2(st.payload, StreamWindow)>>)
             [] st.step = "Last"  ->
                  Framed(h, [name |-> "StreamDone", head |-> ph.head],
                         <<st.framing, 0>>)

\* known_step
KnownStep(h, buf) ==
  IF h.phase.remaining = 0 THEN Fail(h, buf, 500)
  ELSE IF buf = <<>> THEN Framed(h, h.phase, <<>>)
  ELSE Framed(h, h.phase, <<0, Min2(h.phase.remaining, StreamWindow)>>)

\* The head phase once the head is all there: len tokens, of request r.
FrameHead(h, buf, hd, r, len) ==
  LET body   == BodyFrom(hd)
      expect == ExpectsContinue(hd)
      open   == [name |-> "StreamOpen", head |-> r, expect |-> expect,
                 body |-> body]
      await  == [name |-> "ExpectHead", head |-> r, body |-> body]
      g      == [h EXCEPT !.index = r]
  IN  IF len > MaxHead THEN Fail(g, buf, 431)
      ELSE IF body.kind = "bad" THEN Fail(g, buf, body.status)
      ELSE IF body.kind = "known"
      THEN IF h.cap > 0 /\ body.len > h.cap THEN Fail(g, buf, 413)
           ELSE IF h.cap > 0 /\ body.len > StreamWindow
           THEN Framed(g, open, <<len, 0>>)
           ELSE IF body.len > MaxBody THEN Fail(g, buf, 413)
           ELSE IF expect /\ body.len > 0 THEN Framed(g, await, <<len, 0>>)
           ELSE Framed(g, HeadPhase, <<len, body.len>>)
      ELSE IF h.cap > 0 THEN Framed(g, open, <<len, 0>>)
      ELSE IF expect THEN Framed(g, await, <<len, 0>>)
      ELSE ScanStep([g EXCEPT !.phase =
                       [name |-> "ChunkedBody", head |-> r,
                        head_len |-> len, scan |-> NewScan]], buf)

\* frame
Frame(h, buf) ==
  LET ph    == h.phase
      ends  == {i \in DOMAIN buf : buf[i].k # "part"}
      len   == CHOOSE i \in ends : \A j \in ends : i <= j
      tok   == buf[len]
      whole == <<Len(buf), 0>>
  IN  CASE ph.name \in {"Fail", "ChunkedDone", "StreamOpen", "StreamDone"} ->
             Framed(h, ph, whole)
        [] ph.name = "Parked" -> Framed(h, ph, <<>>)
        [] ph.name \in {"ExpectHead", "ExpectBody"} ->
             IF ph.body.kind = "known" THEN Framed(h, ph, <<0, ph.body.len>>)
             ELSE ScanStep([h EXCEPT !.phase =
                              [name |-> "ChunkedBody", head |-> ph.head,
                               head_len |-> 0, scan |-> NewScan]], buf)
        [] ph.name = "ChunkedBody" -> ScanStep(h, buf)
        [] ph.name = "StreamBody"  -> StreamStep(h, buf)
        [] ph.name = "StreamKnown" -> KnownStep(h, buf)
        [] ph.name = "Head" ->
             LET g == [h EXCEPT !.index = None]
             IN  IF ends = {}
                 THEN IF Len(buf) > MaxHead THEN Fail(g, buf, 431)
                      ELSE Framed(g, ph, <<>>)
                 ELSE IF tok.k # "head" \/ HostStatus(tok.head) # 0
                 THEN Fail(g, buf, IF len > MaxHead THEN 431 ELSE 400)
                 ELSE FrameHead(g, buf, tok.head, tok.r, len)

-----------------------------------------------------------------------------
(* Answers (protocol.rs, response.rs).  An answer is [status, len]: its     *)
(* body's length; what goes on the wire is [to, status, declared, sent].    *)

Bodyless(status) == status \in 100 .. 199 \cup {204, 304}

\* serialize_reply: the body goes behind its head, or not at all.
BodySent(hd, answer) ==
  IF hd.method = "HEAD" \/ Bodyless(answer.status) THEN 0 ELSE answer.len

\* serialize: the length the head declares and the bytes sent.
OnWire(r, hd, answer) ==
  [to |-> r, status |-> answer.status, declared |-> answer.len,
   sent |-> BodySent(hd, answer)]

HeadOf(r) == Scripts[ht.peer][r].head

Say(h, line, close) ==
  [h EXCEPT !.out = Append(@, line), !.closed = @ \/ close]

\* respond: an answer that leaves body unread ends the connection.
Respond(h, r, answer, abandons) ==
  Say(h, OnWire(r, HeadOf(r), answer),
      ~(/\ Persists(HeadOf(r)) /\ ~answer.close
        /\ ~h.draining /\ ~abandons))

\* farewell: the framer's or the protocol's own error.
Farewell(h, r, status) ==
  Say(h, OnWire(r, HeadOf(r), [status |-> status, len |-> 1]), TRUE)

\* force_final
ForceFinal(h) == [h EXCEPT !.closed = TRUE]

\* interim: the 100 line, once, or an empty write.
Interim(h, r, expect) ==
  IF expect THEN Say(h, OnWire(r, HeadOf(r), [status |-> 100, len |-> 0]), FALSE)
  ELSE h

Close(h) == [h EXCEPT !.closed = TRUE]

-----------------------------------------------------------------------------
(* The protocol step.  What the handler answers is a choice; what it has    *)
(* been given of the entity is got, and its calls for the request, calls.   *)

Answers == {[status |-> 200, len |-> 1, close |-> FALSE],
            [status |-> 204, len |-> 1, close |-> FALSE],
            [status |-> 200, len |-> 0, close |-> TRUE]}

Replies(h) ==
  [v : {"respond"}, answer : Answers] \cup [v : {"continue"}]
  \cup IF h.defers < MaxDefers THEN [v : {"defer", "defer_stream"}] ELSE {}

\* The last window of a known body is followed by its End in the same step.
Second(h, v) == IF v.v = "continue" THEN Replies(h) ELSE {v}

\* head_view: the index describes a head of the same length, else a parse.
SeesHead(h, r) ==
  IF h.index # None /\ HeadOf(h.index).extra = HeadOf(r).extra
  THEN h.index ELSE r

\* The handler takes the body it is shown; a deferred one comes again.
Shown(h, r, stage, body, v) ==
  [h EXCEPT !.got = IF v.v = "defer" THEN @ ELSE @ \o body,
            !.calls = Append(@, [head |-> SeesHead(h, r), r |-> r,
                                 stage |-> stage])]

\* The answer to a whole request: the next one starts over.
Answer(h, r, answer) ==
  [Respond(h, r, answer, FALSE) EXCEPT !.done = Append(@, h.got),
                                       !.got = <<>>, !.calls = <<>>]

\* Park: the request waits for its answer; the handler keeps a stream's body.
Park(h, r, stage, body, next, expect, v) ==
  [h EXCEPT !.phase = [name |-> "Parked", head |-> r, stage |-> stage,
                       body |-> IF v.v = "defer" THEN body ELSE <<>>,
                       stream |-> v.v = "defer_stream",
                       resume |-> next, expect |-> expect],
            !.answer = "none", !.defers = @ + 1]

\* dispatch and settle, for a stage that has the whole request.
Finish(h, r, stage, body, v) ==
  LET g == Shown(h, r, stage, body, v)
  IN  CASE v.v = "respond"  -> Answer(g, r, v.answer)
        [] v.v = "continue" -> Close(g)
        [] OTHER -> Park(g, r, stage, body, NoResume, FALSE, v)

\* dispatch and settle, at an Open or a Window: the phase the stream goes on
\* in, and the interim line it owes.
Stream(h, r, stage, body, next, expect, v) ==
  LET g == Shown(h, r, stage, body, v)
  IN  CASE v.v = "respond"  -> ForceFinal(Respond(g, r, v.answer, TRUE))
        [] v.v = "continue" -> Interim([g EXCEPT !.phase = next], r, expect)
        [] OTHER -> Park(g, r, stage, body, next, expect, v)

\* respond_parked: the worker's answer; mid-body it is the last.
RespondParked(h, r, ph, answer) ==
  IF ph.resume = NoResume
  THEN Answer([h EXCEPT !.got = @ \o ph.body], r, answer)
  ELSE ForceFinal(Respond(h, r, answer, TRUE))

\* The resumption of a parked stream: on to the next phase, or to the End.
GoOn(h, r, next, expect, w) ==
  IF next.name = "StreamDone" THEN Finish(h, r, "End", <<>>, w)
  ELSE Interim([h EXCEPT !.phase = next], r, expect)

\* step, in phase Parked.
StepParked(h, v, w) ==
  LET ph == h.phase
      r  == ph.head
      g  == [h EXCEPT !.phase = HeadPhase]
      d  == Shown(g, r, ph.stage, ph.body, v)
  IN  CASE h.answer = "resume" ->
             IF ph.resume = NoResume THEN Close(g)
             ELSE GoOn(g, r, ph.resume, ph.expect, w)
        [] h.answer = "reply" /\ v.v = "respond" -> RespondParked(g, r, ph, v.answer)
        [] h.answer = "redrive" /\ ph.resume = NoResume ->
             Finish(g, r, ph.stage, ph.body, v)
        [] h.answer = "redrive" /\ ph.resume # NoResume ->
             IF v.v = "continue"
             THEN GoOn(d, r, ph.resume, ph.expect, w)
             ELSE Stream(g, r, ph.stage, ph.body, ph.resume, ph.expect, v)

\* step, by phase, with a message off the wire; g has the phase taken.
StepExpectHead(h, g, r) ==
  IF h.draining THEN Farewell(g, r, 503)
  ELSE Interim([h EXCEPT !.phase.name = "ExpectBody"], r, TRUE)

StepChunkedDone(g, r, body, v) ==
  IF Decode(body).ok THEN Finish(g, r, "Whole", Decode(body).entity, v)
  ELSE Farewell(g, r, 500)

StepStreamOpen(g, r, ph, v) ==
  IF g.draining THEN Farewell(g, r, 503)
  ELSE Stream(g, r, "Open", <<>>,
         IF ph.body.kind = "chunked"
         THEN [name |-> "StreamBody", head |-> r, left |-> 0,
               after |-> FALSE, decoded |-> 0]
         ELSE [name |-> "StreamKnown", head |-> r, remaining |-> ph.body.len],
         ph.expect, v)

\* A window of a chunk: what is owed of it, carried or read off its size line.
StepStreamBody(g, r, ph, header, body, v) ==
  LET owed == IF ph.left > 0 THEN ph.left ELSE ChunkStep(header, ph.after).payload
      left == owed - Len(body)
  IN  Stream(g, r, "Window", body,
             [ph EXCEPT !.left = left, !.after = left = 0,
                        !.decoded = @ + Len(body)], FALSE, v)

\* A window of a known length; the last one brings the End with it.
StepStreamKnown(g, r, ph, body, v, w) ==
  LET left == ph.remaining - Len(body)
      d    == Shown(g, r, "Window", body, v)
  IN  IF left = 0 /\ v.v = "continue" THEN Finish(d, r, "End", <<>>, w)
      ELSE Stream(g, r, "Window", body,
                  IF left = 0 THEN [name |-> "StreamDone", head |-> r]
                  ELSE [ph EXCEPT !.remaining = left], FALSE, v)

StepStreamDone(g, r, v) == Finish(g, r, "End", <<>>, v)

Step(h, header, body, v, w) ==
  LET ph == h.phase
      r  == IF ph.name = "Head" THEN Last(header).r ELSE ph.head
      g  == [h EXCEPT !.phase = HeadPhase]
  IN  CASE ph.name \in {"Head", "ExpectBody"} -> Finish(g, r, "Whole", body, v)
        [] ph.name = "ExpectHead"  -> StepExpectHead(h, g, r)
        [] ph.name = "ChunkedDone" -> StepChunkedDone(g, r, body, v)
        [] ph.name = "StreamOpen"  -> StepStreamOpen(g, r, ph, v)
        [] ph.name = "StreamBody"  -> StepStreamBody(g, r, ph, header, body, v)
        [] ph.name = "StreamKnown" -> StepStreamKnown(g, r, ph, body, v, w)
        [] ph.name = "StreamDone"  -> StepStreamDone(g, r, v)

-----------------------------------------------------------------------------
(* The connection, as the reactor drives it. *)

Tokens(script) == FlattenSeq([r \in DOMAIN script |-> script[r].toks])

Wires == [p \in DOMAIN Scripts |-> Tokens(Scripts[p])]

HttpInit ==
  \E peer \in DOMAIN Scripts, cap \in StreamCap :
    ht = [peer |-> peer, cap |-> cap, arrived |-> 0, pos |-> 0,
          frame |-> <<>>, phase |-> HeadPhase, index |-> None,
          answer |-> "none", defers |-> 0, draining |-> FALSE, closed |-> FALSE,
          out |-> <<>>, calls |-> <<>>, got |-> <<>>, done |-> <<>>]

Wire == Wires[ht.peer]
Buf  == SubSeq(Wire, ht.pos + 1, ht.arrived)

FrameReady == ht.frame # <<>> /\ Len(Buf) >= ht.frame[1] + ht.frame[2]

Arrives ==
  /\ ht.arrived < Len(Wire) /\ ~ht.closed
  /\ ht' = [ht EXCEPT !.arrived = @ + 1]

\* pump; again, with a frame that is still incomplete, after a retried receive.
PumpFrame ==
  /\ ~ht.closed /\ ht.arrived > ht.pos
  /\ ~FrameReady
  /\ ht' = Frame(ht, Buf)
  /\ ht' # ht

\* deliver_one
DeliverFrame ==
  /\ ~ht.closed /\ FrameReady
  /\ LET n      == ht.frame[1]
         m      == n + ht.frame[2]
         header == SubSeq(Buf, 1, n)
         body   == SubSeq(Buf, n + 1, m)
         h      == [ht EXCEPT !.pos = @ + m, !.frame = <<>>]
     IN  IF ht.phase.name = "Fail"
         THEN ht' = Farewell(h, ht.phase.head, ht.phase.status)
         ELSE \E v \in Replies(ht) : \E w \in Second(ht, v) :
                ht' = Step(h, header, body, v, w)

BeginHttpDrain ==
  /\ ~ht.draining /\ ht' = [ht EXCEPT !.draining = TRUE]

\* HttpDeferred and HttpStreamDeferred resolve, once; the reactor redelivers.
Resolve(answer) ==
  /\ ~ht.closed /\ ht.phase.name = "Parked" /\ ht.answer = "none"
  /\ answer # IF ht.phase.stream THEN "redrive" ELSE "resume"
  /\ ht' = [ht EXCEPT !.answer = answer]

ResolveClose ==
  /\ ~ht.closed /\ ht.phase.name = "Parked" /\ ht.answer = "none"
  /\ ht' = Close(ht)

Redeliver ==
  /\ ~ht.closed /\ ht.phase.name = "Parked" /\ ht.answer # "none"
  /\ \E v \in Replies(ht) : \E w \in Second(ht, v) :
       /\ ht.answer = "reply" => v.v = "respond"
       /\ ht.answer = "resume" => v.v = "continue"
       /\ ht' = StepParked(ht, v, w)

HttpNext ==
  \/ Arrives \/ PumpFrame \/ DeliverFrame \/ BeginHttpDrain
  \/ \E answer \in {"reply", "resume", "redrive"} : Resolve(answer)
  \/ ResolveClose \/ Redeliver

-----------------------------------------------------------------------------
(* Properties. *)

\* Where each request ends in the peer's bytes.
Ends == [p \in DOMAIN Scripts |->
           [r \in 0 .. Len(Scripts[p]) |-> Len(Tokens(SubSeq(Scripts[p], 1, r)))]]

EndOf(r) == Ends[ht.peer][r]

\* The framer never loses step with the peer: whatever the fragments the bytes
\* come in and whatever the handler does with a request - answer it before its
\* body, defer it, resume it - a connection that is ready for a new head is at
\* the start of a request, and no request was read past a malformed one.
InStep ==
  (~ht.closed /\ ht.phase.name = "Head") =>
    \E r \in 0 .. Len(Scripts[ht.peer]) :
      /\ ht.pos = EndOf(r) /\ \A q \in 1 .. r : Scripts[ht.peer][q].good

\* The handler is shown each request once, as it was sent: the head is its own
\* and not that of an earlier request kept in the index, the stages come in
\* order, and the entity of an answered request is all the payload the peer
\* sent, however the coding cut it.
EntityExact ==
  /\ \A r \in DOMAIN ht.done :
       ht.done[r] = SelectSeq(Scripts[ht.peer][r].toks, LAMBDA t : t.k = "data")
  /\ \A i \in DOMAIN ht.calls : ht.calls[i].head = ht.calls[i].r
  /\ \A i \in DOMAIN ht.calls \ {1} :
       <<ht.calls[i - 1].stage, ht.calls[i].stage>> \in
         {<<"Whole", "Whole">>, <<"End", "End">>}
         \cup ({"Open", "Window"} \X {"Open", "Window", "End"})

\* The peer can tell the answers apart: one final answer to a request, in the
\* order of the requests, and a 100 only where it was asked for and before the
\* final one.  The framer's own refusals go to requests that are malformed or
\* too large and to no other, in however many pieces a request arrived.
AnswersInOrder ==
  LET final(i) == ht.out[i].status # 100
  IN  /\ \A i, j \in DOMAIN ht.out :
           i < j => /\ ht.out[i].to <= ht.out[j].to
                    /\ final(i) => ht.out[i].to < ht.out[j].to
                    /\ ~final(i) /\ ~final(j) => ht.out[i].to # ht.out[j].to
      /\ \A i \in DOMAIN ht.out :
           /\ ~final(i) => ExpectsContinue(HeadOf(ht.out[i].to))
           /\ ht.out[i].status \in {400, 413, 431, 500, 501} =>
                ~Scripts[ht.peer][ht.out[i].to].good
=============================================================================
