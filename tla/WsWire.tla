------------------------------ MODULE WsWire ------------------------------
(***************************************************************************)
(* The WebSocket codec (src/ws/mod.rs) and the JSON-RPC server role built  *)
(* on it (truenas_api_client/src/server.rs).  A client's upgrade request   *)
(* and its masked frames reach the server's framer in pieces of any size;  *)
(* the framer is called on what has arrived and asks for more.             *)
(*                                                                         *)
(* Bytes are symbols.  The three forms of a length keep their boundaries   *)
(* at a smaller scale: below Small in the second byte, two digits of base  *)
(* 2, four digits of base 2 whose first is the sign bit.                   *)
(***************************************************************************)
EXTENDS Integers, Sequences, SequencesExt

CONSTANTS
  Sent,        \* what the client sends: a set of sequences of frames
  Heads,       \* the upgrade requests: sets of header fields, with repeats
  MaxHeadLen,  \* MAX_HEAD
  WsInbound    \* max_message_bytes

VARIABLE ws

Small == 2     \* 126, and the code of the 16-bit form
Form16 == 2
Form64 == 3    \* 127
Short == 3     \* 0xFFFF
KeyLen == 2    \* 4 bytes of masking key

Bytes(bits) == [k \in DOMAIN bits |-> [bit |-> bits[k]]]
Bits(bytes) == [k \in DOMAIN bytes |-> bytes[k].bit]

Digits(n, w) == [k \in 1 .. w |-> (n \div 2 ^ (w - k)) % 2]
Value(d) == FoldLeft(LAMBDA n, b : 2 * n + b, 0, d)

Masked(payload, key) ==
  [k \in DOMAIN payload |-> (payload[k] + key[((k - 1) % KeyLen) + 1]) % 2]

\* encode, and FIN clear for the pieces of a fragmented message
Encode(f, key) ==
  LET n == Len(f.payload)
      size == CASE n < Small -> <<[mask |-> TRUE, len7 |-> n]>>
                [] n >= Small /\ n <= Short ->
                     <<[mask |-> TRUE, len7 |-> Form16]>> \o Bytes(Digits(n, 2))
                [] OTHER -> <<[mask |-> TRUE, len7 |-> Form64]>> \o Bytes(Digits(n, 4))
  IN <<[fin |-> f.fin, rsv |-> FALSE, op |-> f.op]>> \o size
       \o Bytes(key) \o Bytes(Masked(f.payload, key))

Opcodes == {"cont", "text", "binary", "close", "ping", "pong"}
Control == {"close", "ping", "pong"}

Incomplete(need) == [verdict |-> "incomplete", need |-> need]
Invalid == [verdict |-> "invalid"]

\* A mutant: the shortest length of the 16-bit form is refused.
ParseLenStrict(buf) ==
  CASE buf[2].len7 = Form16 ->
         IF Len(buf) < 4 THEN Incomplete(4 - Len(buf))
         ELSE LET n == Value(Bits(SubSeq(buf, 3, 4)))
              IN IF n <= Small THEN Invalid
                 ELSE [verdict |-> "len", base |-> 4, len |-> n]
    [] buf[2].len7 = Form64 ->
         IF Len(buf) < 6 THEN Incomplete(6 - Len(buf))
         ELSE LET n == Value(Bits(SubSeq(buf, 3, 6)))
              IN IF n >= 8 \/ n <= Short THEN Invalid
                 ELSE [verdict |-> "len", base |-> 6, len |-> n]
    [] OTHER -> [verdict |-> "len", base |-> 2, len |-> buf[2].len7]

\* parse_head's length: how many bytes the form takes, and what they say.
ParseLen(buf) ==
  CASE buf[2].len7 = Form16 ->
         IF Len(buf) < 4 THEN Incomplete(4 - Len(buf))
         ELSE LET n == Value(Bits(SubSeq(buf, 3, 4)))
              IN IF n < Small THEN Invalid
                 ELSE [verdict |-> "len", base |-> 4, len |-> n]
    [] buf[2].len7 = Form64 ->
         IF Len(buf) < 6 THEN Incomplete(6 - Len(buf))
         ELSE LET n == Value(Bits(SubSeq(buf, 3, 6)))
              IN IF n >= 8 \/ n <= Short THEN Invalid
                 ELSE [verdict |-> "len", base |-> 6, len |-> n]
    [] OTHER -> [verdict |-> "len", base |-> 2, len |-> buf[2].len7]

ParseHead(buf, require_mask) ==
  IF Len(buf) < 2 THEN Incomplete(2 - Len(buf))
  ELSE LET b0 == buf[1]
           b1 == buf[2]
           size == ParseLen(buf)
           head == size.base + (IF b1.mask THEN KeyLen ELSE 0)
       IN CASE b0.rsv \/ b0.op \notin Opcodes \/ b1.mask # require_mask -> Invalid
            [] /\ ~b0.rsv /\ b0.op \in Control /\ b1.mask = require_mask
               /\ ~b0.fin \/ b1.len7 >= Small -> Invalid
            [] OTHER ->
                 CASE size.verdict # "len" -> size
                   [] size.verdict = "len" /\ Len(buf) < head ->
                        Incomplete(head - Len(buf))
                   [] OTHER -> [verdict |-> "done", fin |-> b0.fin, op |-> b0.op,
                                head |-> head, len |-> size.len]

\* unmask: the key is the end of the header.
Unmask(header, payload) ==
  Masked(Bits(payload), Bits(SubSeq(header, Len(header) - KeyLen + 1, Len(header))))

Times(name, head) == Cardinality({k \in DOMAIN head : head[k].name = name})
Says(name, value, head) == \E k \in DOMAIN head : head[k] = [name |-> name,
                                                            value |-> value]

\* validate_upgrade_request: GET, and each field that decides at most once
ValidateUpgradeRequest(head) ==
  /\ Says("method", "GET", head)
  /\ \A name \in {"upgrade", "version", "key"} : Times(name, head) <= 1
  /\ Says("upgrade", "websocket", head) /\ Says("connection", "upgrade", head)
  /\ Says("version", "13", head) /\ Says("key", "k", head)

\* upgrade_response and what validate_101 makes of an answer to key k
UpgradeResponse(key) ==
  <<[name |-> "status", value |-> "101"], [name |-> "upgrade", value |-> "websocket"],
    [name |-> "connection", value |-> "upgrade"], [name |-> "accept", value |-> key]>>

Validate101(head, key) ==
  /\ Says("status", "101", head)
  /\ \A name \in {"upgrade", "accept", "extensions", "protocol"} :
       Times(name, head) <= 1
  /\ \A k \in DOMAIN head :
       head[k].name \in {"extensions", "protocol"} => head[k].value = ""
  /\ Says("upgrade", "websocket", head) /\ Says("connection", "upgrade", head)
  /\ Says("accept", key, head)

-----------------------------------------------------------------------------
\* The stream: a head ending in a blank line, then frames, in pieces.

Keys == [1 .. KeyLen -> {0, 1}]
EndOfHead == [name |-> "blank", value |-> ""]

WireOf(head, frames, keys) ==
  head \o <<EndOfHead>>
    \o FlattenSeq([k \in DOMAIN frames |-> Encode(frames[k], keys)])

WsInit ==
  \E head \in Heads, frames \in Sent, key \in Keys :
    ws = [head |-> head, frames |-> frames, wire |-> WireOf(head, frames, key),
          at |-> 0, buf |-> <<>>, asks |-> 0, framing |-> "handshake",
          server |-> "awaiting", frag |-> <<>>, open |-> FALSE,
          got |-> <<>>, acts |-> <<>>, over |-> FALSE, answer |-> <<>>]

Cut(s) == [s EXCEPT !.over = TRUE, !.buf = <<>>]
Say1(s, a) == [s EXCEPT !.acts = Append(@, a)]
ServerFault(s) == Cut(Say1(s, "fault"))

\* JsonRpcServer::on_head
ServerHead(s, head) ==
  IF s.server = "awaiting" /\ ValidateUpgradeRequest(head)
  THEN [s EXCEPT !.server = "open", !.answer = UpgradeResponse("k")]
  ELSE Cut(s)

\* JsonRpcServer::on_message, of the whole text: what is not UTF-8 closes with
\* 1007; a request or a notification is handed on, anything else is answered.
ServerMessage(s, text) ==
  IF \E k \in DOMAIN text : text[k] = 1 THEN ServerFault(Say1([s EXCEPT !.server = "closing", !.frag = <<>>,
                                         !.open = FALSE], "close"))
  ELSE Say1([s EXCEPT !.frag = <<>>, !.open = FALSE], "message")

\* A mutant: the length is looked at before the phase.
ServerCloseFrameLength(s, payload) ==
  LET closing == [s EXCEPT !.server = "closing"]
  IN CASE Len(payload) = 1 -> ServerFault(Say1(closing, "close"))
       [] s.server = "closing" /\ Len(payload) # 1 -> s
       [] OTHER -> Say1([closing EXCEPT !.frag = <<>>, !.open = FALSE], "close")

\* JsonRpcServer::on_close_frame
ServerCloseFrame(s, payload) ==
  LET closing == [s EXCEPT !.server = "closing"]
  IN CASE s.server = "closing" -> s
       [] s.server # "closing" /\ Len(payload) = 1 ->
            ServerFault(Say1(closing, "close"))
       [] OTHER -> Say1([closing EXCEPT !.frag = <<>>, !.open = FALSE], "close")

\* JsonRpcServer::on_frame
ServerFrame(s, f) ==
  LET n == Len(f.payload)
  IN CASE s.server = "closing" /\ f.op # "close" /\ f.op # "binary" -> s
       [] s.server = "open" /\ f.op = "ping" -> Say1(s, "pong")
       [] s.server = "open" /\ f.op = "pong" -> s
       [] f.op = "close" -> ServerCloseFrame(s, f.payload)
       [] f.op = "binary" -> ServerFault(s)
       [] s.server = "open" /\ f.op = "text" ->
            CASE s.open \/ n > WsInbound -> ServerFault(s)
              [] ~s.open /\ n <= WsInbound /\ ~f.fin ->
                   [s EXCEPT !.open = TRUE, !.frag = f.payload]
              [] OTHER -> ServerMessage(s, f.payload)
       [] OTHER ->
            CASE ~s.open \/ Len(s.frag) + n > WsInbound ->
                   ServerFault([s EXCEPT !.open = FALSE, !.frag = <<>>])
              [] s.open /\ Len(s.frag) + n <= WsInbound /\ ~f.fin ->
                   [s EXCEPT !.frag = @ \o f.payload]
              [] OTHER -> ServerMessage(s, s.frag \o f.payload)

\* One more piece of the stream arrives: at least what the framer asked for
\* is waited for.
WsArrives ==
  \E n \in 1 .. 3 :
    /\ ~ws.over /\ ws.at < Len(ws.wire)
    /\ ws' = [ws EXCEPT !.at = Min({@ + n, Len(ws.wire)}),
                        !.buf = @ \o SubSeq(ws.wire, ws.at + 1,
                                            Min({ws.at + n, Len(ws.wire)})),
                        !.asks = Max({0, @ - n})]

\* head_step
HeadStep ==
  LET ends == {k \in DOMAIN ws.buf : ws.buf[k] = EndOfHead}
      at == Min(ends)
  IN /\ ~ws.over /\ ws.framing = "handshake" /\ ws.buf # <<>> /\ ws.asks = 0
     /\ CASE ends # {} ->
               ws' = ServerHead([ws EXCEPT !.framing = "frames",
                                   !.buf = SubSeq(@, at + 1, Len(@))],
                                SubSeq(ws.buf, 1, at - 1))
          [] ends = {} /\ Len(ws.buf) > MaxHeadLen -> ws' = Cut(ws)
          [] OTHER -> ws' = [ws EXCEPT !.asks = 1]

\* frame_step, and the delivery once the body is in the buffer
FrameStep ==
  /\ ~ws.over /\ ws.framing = "frames" /\ ws.buf # <<>> /\ ws.asks = 0
  /\ \E p \in {ParseHead(ws.buf, TRUE)} :
       LET whole == p.head + p.len
           payload == Unmask(SubSeq(ws.buf, 1, p.head), SubSeq(ws.buf, p.head + 1, whole))
       IN \/ p.verdict = "incomplete" /\ ws' = [ws EXCEPT !.asks = p.need]
          \/ p.verdict = "invalid" /\ ws' = Cut(ws)
          \/ /\ p.verdict = "done" /\ Len(ws.buf) < whole
             /\ ws' = [ws EXCEPT !.asks = whole - Len(ws.buf)]
          \/ /\ p.verdict = "done" /\ Len(ws.buf) >= whole
             /\ \E f \in {[op |-> p.op, fin |-> p.fin, payload |-> payload]} :
                  ws' = ServerFrame([ws EXCEPT !.buf = SubSeq(@, whole + 1, Len(@)), !.got = Append(@, f)], f)

\* JsonRpcServer::close, by the program that drives it
ServerClose ==
  /\ ~ws.over /\ ws.server = "open"
  /\ ws' = Say1([ws EXCEPT !.server = "closing", !.frag = <<>>, !.open = FALSE],
                "close")

WsNext == WsArrives \/ HeadStep \/ FrameStep \/ ServerClose

-----------------------------------------------------------------------------
Malformed(f) ==
  f.op \notin Opcodes \/ (f.op \in Control /\ (~f.fin \/ Len(f.payload) >= Small))

\* However the stream is cut, the server takes the frames the client sent, in
\* order, with their payload, and none else; the framer gives up at a malformed
\* frame and at no other, whichever form its length takes; and it never asks for
\* bytes beyond the frame it is reading, so it is never left waiting for bytes
\* the client does not owe it (parse_head, encode, unmask, frame_step).
FramesExact ==
  /\ ws.over /\ ws.server # "awaiting" /\ "fault" \notin Range(ws.acts) =>
       Malformed(ws.frames[Len(ws.got) + 1])
  /\ ws.got = SubSeq(ws.frames, 1, Len(ws.got))
  /\ ws.at = Len(ws.wire) /\ ~ws.over => ws.asks = 0 \/ ws.framing = "handshake"

\* The server role sends one Close at most and hands on no message after it;
\* an upgrade it accepts is one the client's own validation accepts
\* (on_close_frame, on_message, close; validate_upgrade_request, validate_101).
ClosesOnce ==
  /\ \A i, j \in DOMAIN ws.acts :
       i < j /\ ws.acts[i] = "close" => ws.acts[j] \notin {"close", "message", "pong"}
  /\ ws.answer # <<>> => Validate101(ws.answer, "k") /\ ws.server # "awaiting"
=============================================================================
