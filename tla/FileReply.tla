----------------------------- MODULE FileReply -----------------------------
(***************************************************************************)
(* Replies whose body is a file (net/server/io.rs, net/core/conn.rs): the  *)
(* head is queued, then the body follows as chunks, each the product of    *)
(* one pump read staged in the server's file operation table and queued    *)
(* as a send segment that borrows a buffer of the body ring.               *)
(*                                                                         *)
(* Several connections stream at once and share three scarce things: the   *)
(* operation slots (a body that finds none is parked in a list the next    *)
(* file completion pops), the ring's buffers, and their own share of two   *)
(* chunks.  A second file answer, and every other PDU, that arrives while  *)
(* a body streams is held behind it.  One byte of body is one chunk here.  *)
(***************************************************************************)
EXTENDS Integers, FiniteSets, Sequences, SequencesExt, FiniteSetsExt

CONSTANTS Peers,        \* connection slots
          MaxReuse,     \* how often a slot is reused
          OpSlots,      \* slots of the file operation table
          Posted0,      \* body buffers posted at start, of BodyBids
          BodyBids,     \* ids the body ring may ever post, from 1
          TailBufs,     \* FILE_TAIL_BUFS
          Lens,         \* lengths of the bodies asked for
          Refusals,     \* what the ring may say to a staged read (BOOLEAN)
          AnswerBounds  \* set of [Peers -> Nat]: answers a connection is given

VARIABLE fr

NoBid == 0

NoTail == [on |-> FALSE, body |-> 0, at |-> 0, unread |-> 0,
           reading |-> FALSE, parked |-> FALSE, pending |-> <<>>]

\* A connection as accepted: nothing queued, nothing counted.  `sent` is the
\* last item on the wire, `told` the answers of which something went out,
\* `cut` the file answer a flush-close dropped with all behind it (0: none).
Accepted(g) ==
    [up |-> TRUE, gen |-> g, tail |-> NoTail, queue |-> <<>>,
     next |-> <<>>, held |-> <<>>, laterClose |-> FALSE,
     closeOnFlush |-> FALSE, outstanding |-> 0, out |-> 0,
     armed |-> 0, sent |-> <<>>, told |-> {}, answers |-> 0,
     flushed |-> FALSE, cut |-> 0]

ReplyInit ==
    \E most \in AnswerBounds :
    fr = [most |-> most, conn |-> [s \in Peers |-> Accepted(0)],
          list |-> <<>>, reads |-> {}, other |-> 0,
          posted |-> Posted0, known |-> Posted0, refuses |-> FALSE]

----------------------------------------------------------------------------
(* The send queue.  An item is a PDU or a segment of a body: `body` names  *)
(* the answer it belongs to, `at` its place in it (0 the head), `last` the *)
(* SendKind::ReplyLast that retires the answer, `bid` the ring buffer the  *)
(* segment borrows, `reclaim` a chunk counted in the body's share.         *)

Item(body, at, last) ==
    [file |-> FALSE, body |-> body, at |-> at, last |-> last, bid |-> NoBid,
     reclaim |-> FALSE, len |-> 0, close |-> FALSE]

Chunk(body, at, last, bid) ==
    [Item(body, at, last) EXCEPT !.bid = bid, !.reclaim = TRUE]

FileOf(body, len, close) ==
    [Item(body, 0, FALSE) EXCEPT !.file = TRUE, !.len = len, !.close = close]

\* kick_send: arm everything queued unless a send is in flight.
KickSend(F, s) ==
    [F EXCEPT !.conn[s].armed = IF @ = 0 THEN Len(F.conn[s].queue) ELSE @]

EnqueueNoDivert(c, item) == [c EXCEPT !.queue = Append(@, item)]

\* While a body streams, any other PDU waits behind it.
Enqueue(c, item) ==
    IF c.tail.on THEN [c EXCEPT !.tail.pending = Append(@, item)]
    ELSE [c EXCEPT !.queue = Append(@, item)]

BidsOf(q) == {q[i].bid : i \in DOMAIN q} \ {NoBid}

FreeConnLeaks(F, s) ==
    [F EXCEPT !.conn[s] = [Accepted(@.gen + 1) EXCEPT
                              !.up = F.conn[s].gen < MaxReuse]]

\* free_slot: the buffers still queued go back, tokens go stale.  The slot is
\* accepted again at once; the last generation stays closed.
FreeConn(F, s) ==
    [F EXCEPT !.posted = @ \cup BidsOf(F.conn[s].queue),
              !.conn[s] = [Accepted(@.gen + 1) EXCEPT
                              !.up = F.conn[s].gen < MaxReuse]]

\* close_conn: from here teardown owns the slot.
CloseConn(F, s) == [F EXCEPT !.conn[s].up = FALSE]

\* drive_flush_close: close when nothing is owed, an active body included.
DriveFlushClose(F, s) ==
    LET c == F.conn[s] IN
    IF c.armed = 0 /\ c.queue = <<>> /\ ~c.tail.on
    THEN CloseConn(F, s) ELSE KickSend(F, s)

----------------------------------------------------------------------------
(* Driving a body.                                                         *)

HasFreeOp(F) == Cardinality(F.reads) + F.other < OpSlots

ParkTail(F, s) ==
    IF F.conn[s].tail.parked THEN F
    ELSE [F EXCEPT !.conn[s].tail.parked = TRUE,
                   !.list = Append(@, <<s, F.conn[s].gen>>)]

\* The next read: one at a time, a slot before a share, a share before a read.
DriveFileTail(F, s, owned) ==
    LET c == F.conn[s] IN
    IF ~c.up \/ ~c.tail.on \/ c.tail.reading \/ c.tail.unread = 0 THEN F
    ELSE IF ~HasFreeOp(F) THEN ParkTail(F, s)
    ELSE IF c.out >= TailBufs THEN F
    ELSE IF F.refuses THEN CloseConn(F, s)
    ELSE [F EXCEPT !.conn[s].out = @ + 1,
                   !.conn[s].tail.reading = TRUE,
                   !.reads = @ \cup {[peer |-> s, gen |-> c.gen, owned |-> owned]}]

RedriveNoClear(F) ==
    IF ~HasFreeOp(F) THEN F
    ELSE LET good(e) == /\ F.conn[e[1]].gen = e[2]
                        /\ F.conn[e[1]].tail.on
             i == SelectInSeq(F.list, good)
         IN IF i = 0 THEN [F EXCEPT !.list = <<>>]
            ELSE DriveFileTail([F EXCEPT !.list = SubSeq(@, i + 1, Len(@))],
                               F.list[i][1], FALSE)

\* redrive_parked_tail: only with a slot to give; stale entries are dropped on
\* the way to the first connection that still streams, which is driven once.
RedriveParkedTail(F) ==
    IF ~HasFreeOp(F) THEN F
    ELSE LET good(e) == /\ F.conn[e[1]].gen = e[2]
                        /\ F.conn[e[1]].tail.on
             i == SelectInSeq(F.list, good)
         IN IF i = 0 THEN [F EXCEPT !.list = <<>>]
            ELSE DriveFileTail(
                    [F EXCEPT !.list = SubSeq(@, i + 1, Len(@)),
                              !.conn[F.list[i][1]].tail.parked = FALSE],
                    F.list[i][1], FALSE)

----------------------------------------------------------------------------
(* Starting, finishing and queueing bodies.                                *)

\* A body's tail starts with what was held for its turn pending behind it.
InstallFileTail(file, held) ==
    [NoTail EXCEPT !.on = TRUE, !.body = file.body,
                   !.unread = file.len, !.pending = held]

\* install_file_reply: the head, then the tail, with whatever was held behind.
InstallFileReply(F, s, file) ==
    LET G == [F EXCEPT !.conn[s] =
                [@ EXCEPT !.queue = Append(@, Item(file.body, 0, FALSE)),
                          !.tail = InstallFileTail(file, F.conn[s].held),
                          !.held = <<>>,
                          !.closeOnFlush = @ \/ file.close]]
    IN DriveFileTail(IF file.close THEN DriveFlushClose(G, s) ELSE KickSend(G, s),
                     s, FALSE)

\* begin_file_reply: an empty body is a plain answer; a body behind another
\* waits its turn; either way the answer counts from here.
BeginFileReply(F, s, file) ==
    LET c == F.conn[s]
        plain == [Enqueue([c EXCEPT !.outstanding = @ + 1], Item(file.body, 0, TRUE))
                    EXCEPT !.closeOnFlush = @ \/ file.close]
        counted == [F EXCEPT !.conn[s].outstanding = @ + 1]
    IN IF file.len = 0
       THEN LET G == [F EXCEPT !.conn[s] = plain]
            IN IF file.close THEN DriveFlushClose(G, s) ELSE KickSend(G, s)
       ELSE IF c.tail.on
       THEN [counted EXCEPT !.conn[s].tail.pending = Append(@, file),
                            !.conn[s].laterClose = @ \/ file.close]
       ELSE InstallFileReply(counted, s, file)

\* finish_file_tail: release what was held, up to the next file body.
FinishFileTail(c) ==
    LET isFile(x) == x.file
        p == c.tail.pending
        i == SelectInSeq(p, isFile)
    IN IF i = 0 THEN [c EXCEPT !.tail = NoTail, !.queue = @ \o p]
       ELSE [c EXCEPT !.tail = NoTail, !.queue = @ \o SubSeq(p, 1, i - 1),
                      !.next = <<p[i]>>, !.held = SubSeq(p, i + 1, Len(p))]

\* advance_file_tail: the chunk enters the queue; the last retires the tail.
AdvanceFileTail(c, bid) ==
    LET last == c.tail.unread = 1
        d == [c EXCEPT !.tail.at = @ + 1, !.tail.unread = @ - 1,
                       !.queue = Append(@, Chunk(c.tail.body, c.tail.at + 1, last, bid))]
    IN IF last THEN FinishFileTail(d) ELSE d

TakeQueuedFileReply(c) ==
    [c EXCEPT !.next = <<>>,
              !.laterClose = \E i \in DOMAIN c.held : c.held[i].file /\ c.held[i].close]

\* drop_queued_file_reply: every dropped answer leaves the count.
DropQueuedFileReply(c) ==
    [c EXCEPT !.next = <<>>, !.held = <<>>, !.laterClose = FALSE,
              !.cut = IF c.next = <<>> THEN @ ELSE c.next[1].body,
              !.outstanding = @ - Len(c.next)
                 - Cardinality({i \in DOMAIN c.held : c.held[i].file \/ c.held[i].last})]

\* requeue_body_bid: the kernel consumed the descriptor whatever the outcome.
RequeueBodyBid(F, bid) ==
    IF bid = NoBid THEN F ELSE [F EXCEPT !.posted = @ \cup {bid}]

\* BufPool::grow, as far as the reads can tell: one more id is posted.
GrowBody(F) ==
    IF F.known = BodyBids THEN F
    ELSE LET b == CHOOSE b \in BodyBids \ F.known : TRUE
         IN [F EXCEPT !.posted = @ \cup {b}, !.known = @ \cup {b}]

OnLastChunk(F, s) ==
    LET c == F.conn[s] IN
    IF c.closeOnFlush THEN [F EXCEPT !.conn[s] = DropQueuedFileReply(c)]
    ELSE IF c.next = <<>> THEN [F EXCEPT !.conn[s] = TakeQueuedFileReply(c)]
    ELSE InstallFileReply([F EXCEPT !.conn[s] = TakeQueuedFileReply(c)], s, c.next[1])

\* on_pump_read: every exit that does not queue the buffer owes it back.
OnPumpRead(F, r, outcome, bid) ==
    LET s == r.peer
        c == F.conn[s]
        G == [F EXCEPT !.conn[s].tail.reading = FALSE]
    IN
    IF c.gen # r.gen \/ ~c.up \/ ~c.tail.on THEN RequeueBodyBid(F, bid)
    ELSE IF outcome = "nobufs"
    THEN DriveFileTail([GrowBody(G) EXCEPT !.conn[s].out = @ - 1], s, GrowBody(G) = G)
    ELSE IF outcome # "data" THEN CloseConn(RequeueBodyBid(G, bid), s)
    ELSE LET d == AdvanceFileTail(G.conn[s], bid)
             H == KickSend([G EXCEPT !.conn[s] = d], s)
         IN IF d.tail.on THEN DriveFileTail(H, s, FALSE) ELSE OnLastChunk(H, s)

----------------------------------------------------------------------------
(* Steps.                                                                  *)

Step(F) == fr' = [F EXCEPT !.refuses = FALSE]

\* What the ring will say to a read staged during this step.
Ring(refuses) == [fr EXCEPT !.refuses = refuses]

\* The pump gate lets no request past a close that is armed or deferred.
Answering(s) ==
    /\ fr.conn[s].up /\ fr.conn[s].answers < fr.most[s]
    /\ ~fr.conn[s].closeOnFlush /\ ~fr.conn[s].laterClose

AnswerFile(s) ==
    /\ Answering(s)
    /\ \E len \in Lens, close \in BOOLEAN, refuses \in Refusals :
          LET F == [Ring(refuses) EXCEPT !.conn[s].answers = @ + 1]
          IN Step(BeginFileReply(F, s, FileOf(F.conn[s].answers, len, close)))

\* A plain answer to a pipelined request (Reply, or ReplyClose when `close`),
\* or a push.
AnswerPlain(s) ==
    /\ Answering(s)
    /\ \E reply, close \in BOOLEAN :
          LET c == [fr.conn[s] EXCEPT !.answers = @ + 1,
                                      !.outstanding = @ + (IF reply THEN 1 ELSE 0),
                                      !.closeOnFlush = close]
              F == [fr EXCEPT !.conn[s] = Enqueue(c, Item(c.answers, 0, reply))]
          IN /\ close => reply
             /\ Step(IF close THEN DriveFlushClose(F, s) ELSE KickSend(F, s))

\* on_send_complete: n whole items went out; a rest of the armed batch is sent
\* again, else the next batch; then the body is driven (on_send).
SendDone(s, n) ==
    /\ fr.conn[s].up /\ fr.conn[s].armed > 0 /\ n \in 0..fr.conn[s].armed
    /\ LET c == fr.conn[s]
           gone == SubSeq(c.queue, 1, n)
           d == [c EXCEPT !.queue = SubSeq(@, n + 1, Len(@)), !.armed = @ - n,
                          !.sent = IF n = 0 THEN @ ELSE <<gone[n]>>,
                          !.told = @ \cup {gone[i].body : i \in 1..n},
                          !.out = @ - Cardinality({i \in 1..n : gone[i].reclaim}),
                          !.outstanding = @ - Cardinality({i \in 1..n : gone[i].last})]
           F == [fr EXCEPT !.conn[s] = d, !.posted = @ \cup BidsOf(gone)]
           G == IF d.armed > 0 THEN F ELSE KickSend(F, s)
           dry == G.conn[s].armed = 0 /\ G.conn[s].queue = <<>> /\ ~d.tail.on
           H == IF d.closeOnFlush /\ dry
                THEN CloseConn([G EXCEPT !.conn[s].flushed = TRUE], s) ELSE G
       IN \E refuses \in Refusals :
             Step(DriveFileTail([H EXCEPT !.refuses = refuses], s, FALSE))

\* The peer resets, a timeout fires, the handler closes.
ConnCloses(s) == fr.conn[s].up /\ Step(CloseConn(fr, s))

\* Its last operation reaped, the closing slot is freed and reused.
SlotFreed(s) ==
    /\ ~fr.conn[s].up /\ fr.conn[s].gen <= MaxReuse
    /\ Step(FreeConn(fr, s))

\* The server's handlers use the same operation table.
HandlerStarts == HasFreeOp(fr) /\ Step([fr EXCEPT !.other = @ + 1])

HandlerCompletes ==
    /\ fr.other > 0
    /\ \E refuses \in Refusals :
          Step(RedriveParkedTail([Ring(refuses) EXCEPT !.other = @ - 1]))

\* A pump read completes: its slot is free, the longest-parked body is driven,
\* then the chunk is taken (dispatch).  The kernel picks a posted buffer for a
\* read that selects one, or finds none.
ReadCompletes(r) ==
    \E outcome \in {"data", "eof", "error", "nobufs"}, refuses \in Refusals :
    \E bid \in (IF r.owned THEN {NoBid}
                ELSE CASE outcome = "nobufs" -> IF fr.posted = {} THEN {NoBid} ELSE {}
                       [] outcome = "data" -> fr.posted
                       [] OTHER -> fr.posted \cup {NoBid}) :
       /\ r.owned => outcome # "nobufs"
       /\ LET F == RedriveParkedTail(
                     [Ring(refuses) EXCEPT !.reads = @ \ {r}, !.posted = @ \ {bid}])
          IN Step(OnPumpRead(F, r, outcome, bid))

ReplyNext ==
    \/ \E s \in Peers : AnswerFile(s)
    \/ \E s \in Peers : AnswerPlain(s)
    \/ \E s \in Peers : \E n \in 0..fr.conn[s].armed : SendDone(s, n)
    \/ \E s \in Peers : ConnCloses(s)
    \/ \E s \in Peers : SlotFreed(s)
    \/ HandlerStarts
    \/ HandlerCompletes
    \/ \E r \in fr.reads : ReadCompletes(r)

----------------------------------------------------------------------------
(* Properties.                                                             *)

\* Every body is on the wire whole: after its head come its chunks in file
\* order with no other PDU between them, whatever arrived while it streamed
\* (the diversion of enqueue, finish_file_tail).
BodiesWhole ==
    \A s \in Peers :
        LET c == fr.conn[s]
            w == c.sent \o c.queue
        IN \A i \in DOMAIN w :
              /\ w[i].reclaim /\ i > 1 =>
                    /\ w[i - 1].body = w[i].body
                    /\ w[i - 1].at = w[i].at - 1
              /\ w[i].reclaim /\ i = 1 => c.sent # <<>>
              /\ ~w[i].reclaim /\ i > 1 /\ w[i - 1].reclaim => w[i - 1].last

\* The books of the body path balance: a buffer of the ring is posted or
\* borrowed by exactly one queued segment, a connection's share counts the
\* chunks it has out and the one being read, and `outstanding` counts the
\* answers not yet flushed, streamed, or held behind a body - whichever of
\* flush, close, slot reuse and a late read comes first.
BodyBooks ==
    LET queued == UNION {{<<s, i>> : i \in {j \in DOMAIN fr.conn[s].queue :
                                               fr.conn[s].queue[j].bid # NoBid}} : s \in Peers}
        bid(x) == fr.conn[x[1]].queue[x[2]].bid
    IN /\ {bid(x) : x \in queued} \cup fr.posted = fr.known
       /\ Cardinality(queued) + Cardinality(fr.posted) = Cardinality(fr.known)
       /\ \A s \in {t \in Peers : fr.conn[t].up} :
             LET c == fr.conn[s]
                 owed(q) == Cardinality({i \in DOMAIN q : q[i].file \/ q[i].last})
             IN /\ c.out = Cardinality({i \in DOMAIN c.queue : c.queue[i].reclaim})
                            + (IF c.tail.reading THEN 1 ELSE 0)
                /\ c.out <= TailBufs
                /\ c.outstanding = owed(c.queue) + owed(c.tail.pending) + owed(c.held)
                            + (IF c.tail.on THEN 1 ELSE 0)
                /\ c.next = <<>> /\ (~c.tail.on => c.held = <<>>)
                /\ c.tail.reading = (\E r \in fr.reads : r.peer = s /\ r.gen = c.gen)

\* A body that is not being read waits for something the code will act on: its
\* share is out and a send of it is in flight, or its connection is in the
\* parked list (the flag is the list's dedup key: set without an entry, the
\* body would never be parked again).
TailDriven ==
    \A s \in Peers :
        LET c == fr.conn[s] IN
        c.up /\ c.tail.on =>
           /\ c.tail.parked => \E i \in DOMAIN fr.list : fr.list[i] = <<s, c.gen>>
           /\ ~c.tail.reading =>
                 c.tail.parked \/ (c.out = TailBufs /\ c.armed > 0)

\* "a completing fs op frees a slot and re-drives us": a parked body is not
\* left behind with a slot free and no file operation, send or teardown in
\* flight whose completion could drive it.
ParkedServed ==
    \A s \in Peers :
        fr.conn[s].up /\ fr.conn[s].tail.on /\ fr.conn[s].tail.parked
           /\ ~fr.conn[s].tail.reading
        => \/ fr.reads # {} \/ fr.other > 0
           \/ \E t \in Peers : fr.conn[t].armed > 0

\* Answers go out in the order they were given ("a response's association with
\* its request is its position"), and a connection that closes because its
\* farewell flushed has sent them all, except from a file body on that waited
\* behind another one when the close was asked for: drop_queued_file_reply drops
\* it and everything behind it, a ReplyClose too.
FarewellKept ==
    \A s \in Peers :
        LET c == fr.conn[s] IN
        /\ \A a \in c.told : 1..a \subseteq c.told
        /\ c.flushed =>
             \A a \in 1..c.answers : a \in c.told \/ (c.cut # 0 /\ a >= c.cut)
=============================================================================
