------------------------------ MODULE RecvPool ------------------------------
(***************************************************************************)
(* The receive buffer pool (src/uring/bufring.rs): BufRing, the ring of    *)
(* descriptors the kernel picks receive buffers from, and BufPool, which   *)
(* sizes it: it grows under pressure up to a limit and shrinks when idle.  *)
(*                                                                         *)
(* A buffer id is absent, posted or lent.  The ring itself is modelled:    *)
(* an array of Entries descriptors, a 16-bit tail (here modulo TailMod)    *)
(* that is published by commit, and the kernel's head.                     *)
(***************************************************************************)
EXTENDS Integers, Sequences, FiniteSets, SequencesExt, FiniteSetsExt

CONSTANTS
  Entries,      \* ring entries, a power of two
  Limit,        \* BufPool::limit, at most Entries
  Initial,      \* buffers posted by BufPool::new, at most Limit
  MaxStep,      \* BufPool::max_step, at least 1
  TailMod,      \* 2^16 in the code: the ring's tail wraps, at a multiple of Entries
  ShrinkAfter   \* SHRINK_AFTER: idle rounds before a shrink

VARIABLE bp

Bids == 0 .. Entries - 1

Count(p, st) == Cardinality({b \in Bids : p.slot[b] = st})

\* allocated(): buffers posted or lent.
Allocated(p) == Count(p, "Posted") + Count(p, "Lent")

Least(a, b) == IF a < b THEN a ELSE b
Greatest(a, b) == IF a > b THEN a ELSE b

\* post: the storage if the id has none, the descriptor at the tail, the tail.
Post(p, b) ==
  [p EXCEPT !.slot[b] = "Posted", !.stored = @ \cup {b},
            !.desc[p.tail % Entries] = b, !.tail = (@ + 1) % TailMod]

\* commit: the kernel sees the descriptors up to the tail.
Commit(p) == [p EXCEPT !.seen = p.tail]

\* The ids the loop of set_target posts, in order: the last of `absent` first.
\* An id without storage needs an allocation, which fails when mem is FALSE.
ToPost(p, mem) ==
  LET k == Greatest(p.target - Allocated(p), 0)
      cand == SubSeq(Reverse(p.absent), 1, Least(k, Len(p.absent)))
      bad == {i \in DOMAIN cand : ~mem /\ cand[i] \notin p.stored}
  IN  IF bad = {} THEN cand
      ELSE SubSeq(cand, 1, (CHOOSE i \in bad : \A j \in bad : i <= j) - 1)

\* set_target
SetTarget(p, want, mem) ==
  LET q    == [p EXCEPT !.target = Greatest(1, Least(want, Entries))]
      ids  == ToPost(q, mem)
      left == SubSeq(q.absent, 1, Len(q.absent) - Len(ids))
  IN  IF ids = <<>> THEN q
      ELSE Commit(FoldLeft(Post, [q EXCEPT !.absent = left], ids))

\* BufRing::new and BufPool::new
NewPool ==
  SetTarget([slot |-> [b \in Bids |-> "Absent"], stored |-> {},
             absent |-> Reverse([i \in 1 .. Entries |-> i - 1]),
             target |-> 1, peak |-> 0, idle |-> 0,
             desc |-> [i \in Bids |-> 0], tail |-> 0, seen |-> 0, head |-> 0,
             picked |-> {}],
            Initial, TRUE)

PoolInit == bp = NewPool

\* stepped: the next size up.
Stepped(base) == Least(base + Least(Greatest(base, 1), MaxStep), Limit)

Base(p) == Greatest(p.target, Allocated(p))

\* grow_ahead: with a quarter or less of the buffers free, one step more.
GrowAhead(p, mem) ==
  IF Count(p, "Posted") * 4 > Allocated(p) \/ Base(p) >= Limit THEN p
  ELSE SetTarget([p EXCEPT !.idle = 0], Stepped(Base(p)), mem)

\* take_lent: the id of a completion becomes lent, if it really was posted.
TakeLent(p, b, mem) ==
  IF p.slot[b] # "Posted" THEN p
  ELSE LET q == [p EXCEPT !.slot[b] = "Lent", !.picked = @ \ {b}]
       IN  GrowAhead([q EXCEPT !.peak = Greatest(@, Count(q, "Lent"))], mem)

\* A mutant: the kernel is not shown the descriptor.
ReleaseUncommitted(p, b) ==
  LET q == [p EXCEPT !.slot[b] = "Absent"]
  IN  IF p.slot[b] # "Lent" THEN p
      ELSE IF Allocated(q) >= q.target THEN [q EXCEPT !.absent = Append(@, b)]
      ELSE Post(q, b)

\* release: posted again, or absent when the target is met.  Its storage is
\* still there, so the post cannot fail.
Release(p, b) ==
  LET q == [p EXCEPT !.slot[b] = "Absent"]
  IN  IF p.slot[b] # "Lent" THEN p
      ELSE IF Allocated(q) >= q.target THEN [q EXCEPT !.absent = Append(@, b)]
      ELSE Commit(Post(q, b))

\* grow, from a shortage with `armed` receives already waiting; the pool says
\* whether the shortage is over.
Grow(p, armed, mem) ==
  LET q == [p EXCEPT !.idle = 0]
  IN  IF Count(q, "Posted") > armed \/ Base(q) >= Limit THEN q
      ELSE SetTarget(q, Stepped(Base(q)), mem)

\* rebalance_at: a round with nothing lent counts as idle once IDLE_ROUND has
\* passed; after ShrinkAfter of them storage of absent ids is freed (trim) and
\* the target halves.
Rebalance(p, elapsed) ==
  LET q    == [p EXCEPT !.peak = Count(p, "Lent")]
      idle == q.idle + 1
      trim == [q EXCEPT !.idle = 0,
                        !.stored = {b \in @ : q.slot[b] # "Absent"}]
      want == Greatest(q.target \div 2, 1)
  IN  IF p.peak > 0 THEN [q EXCEPT !.idle = 0]
      ELSE IF ~elapsed THEN q
      ELSE IF idle < ShrinkAfter THEN [q EXCEPT !.idle = idle]
      ELSE IF want < q.target THEN SetTarget(trim, want, TRUE) ELSE trim

\* The kernel consumes the descriptor at its head for a completion.
KernelPick(p) ==
  [p EXCEPT !.picked = @ \cup {p.desc[p.head % Entries]},
            !.head = (@ + 1) % TailMod]

CanPick(p) == p.head # p.seen

-----------------------------------------------------------------------------
(* Properties. *)

\* The descriptors the kernel may still consume.
Offered(p) ==
  {p.desc[(p.head + i) % Entries] : i \in 0 .. ((p.seen - p.head) % TailMod) - 1}

\* What the kernel can write into is what is posted: the descriptors published
\* and not yet consumed name distinct posted ids, the ones consumed wait to be
\* taken, and no descriptor was overwritten while the kernel could still read
\* it.  The free ids are exactly the absent ones, each once.
RingIntact ==
  /\ bp.seen = bp.tail
  /\ Cardinality(Offered(bp)) = (bp.seen - bp.head) % TailMod
  /\ Offered(bp) \cap bp.picked = {}
  /\ Offered(bp) \cup bp.picked = {b \in Bids : bp.slot[b] = "Posted"}
  /\ Range(bp.absent) = {b \in Bids : bp.slot[b] = "Absent"}
  /\ IsInjective(bp.absent)

\* The pool keeps to its budget in memory, not only in buffers handed out:
\* storage that absent ids still hold counts, and the last one released is the
\* first one used again.
WithinBudget ==
  /\ Allocated(bp) <= Limit
  /\ Cardinality(bp.stored) <= Limit
  /\ \A b \in Bids : bp.slot[b] # "Absent" => b \in bp.stored

-----------------------------------------------------------------------------
(***************************************************************************)
(* Who owns a receive buffer: the pool above composed with the             *)
(* RecvBuf of a connection (src/net/core/conn.rs), the reactor's use of    *)
(* both, and the leases by which a handler passes bytes it received to a   *)
(* file write or an offload without a copy (LeaseHold and LeasedWindow of  *)
(* src/uring_fs/core.rs).                                                  *)
(*                                                                         *)
(* Bytes are counted in frames: a buffer holds Cap of them and a handler   *)
(* consumes one.  The loop runs one thing at a time, so a handler, with    *)
(* all it submits, is not interrupted by completions.                      *)
(***************************************************************************)

CONSTANTS
  Cap,      \* frames in a receive buffer
  Writes,   \* leased writes and offloads that can be outstanding
  MaxLoose, \* bound: windows of one buffer a handler keeps
  None

VARIABLE rl

\* RecvBuf::default, with set_recv_pooled; no lease outstanding.
NewConn == [claim |-> None, leased |-> FALSE, filled |-> 0, owned |-> FALSE,
            pooled |-> TRUE, recving |-> "no"]

LeaseInit ==
  /\ PoolInit
  /\ rl = [conn    |-> NewConn,
           handler |-> FALSE,
           hold    |-> FALSE,
           loose   |-> [b \in Bids |-> 0],
           op      |-> [c \in Writes |-> <<>>],
           job     |-> [c \in Writes |-> None],
           returns |-> <<>>]

-----------------------------------------------------------------------------
(* LeaseHold: shares of a buffer. *)

Occurs(b, s) == Cardinality({i \in DOMAIN s : s[i] = b})

\* The strong count of the hold on buffer b.
Shares(r, b) ==
  r.loose[b] + Cardinality({c \in Writes : r.job[c] = b})
  + FoldLeft(LAMBDA n, c : n + Occurs(b, r.op[c]), 0, SetToSeq(Writes))

\* A share was dropped, or surfaced as the last one: with no share left the
\* buffer goes on the queue of returns.
Returned(r, bs) ==
  [r EXCEPT !.returns = @ \o SetToSeq({b \in bs : Shares(r, b) = 0})]

\* lease_of: a handler has a lease when its bytes lie in a claimed buffer.
Leasable(r) == r.handler /\ r.conn.claim # None

\* claim_share: the first one mints the hold; a later one needs it alive.
CanClaim(r) == Leasable(r) /\ (r.hold => Shares(r, r.conn.claim) > 0)

\* The mark a taken share leaves: the RecvBuf is leased, the hold is known.
Taken(r) == [r EXCEPT !.conn.leased = TRUE, !.hold = TRUE]

-----------------------------------------------------------------------------
(* The handler. *)

\* deliver_body_frame: the handler is given a frame.
HandlerBegin ==
  /\ ~rl.handler /\ rl.conn.filled > 0 /\ rl.conn.recving = "no"
  /\ rl' = [rl EXCEPT !.handler = TRUE, !.hold = FALSE]
  /\ UNCHANGED bp

\* lease_window
LeaseWindow ==
  /\ CanClaim(rl) /\ rl.loose[rl.conn.claim] < MaxLoose
  /\ rl' = [Taken(rl) EXCEPT !.loose[rl.conn.claim] = @ + 1]
  /\ UNCHANGED bp

\* submit_pwritev2_gathered: in flight, the operation holds a share of each
\* window's buffer.
SubmitGathered(r, c, bs) == [r EXCEPT !.op[c] = bs]

\* pwritev2_from: staged, the write holds a share; refused, a hold minted for
\* it is disarmed and the buffer stays with the connection.
WriteFrom(c) ==
  /\ CanClaim(rl) /\ rl.op[c] = <<>>
  /\ rl' = SubmitGathered(Taken(rl), c, <<rl.conn.claim>>)
  /\ UNCHANGED bp

WriteFromRefused ==
  /\ CanClaim(rl)
  /\ UNCHANGED <<bp, rl>>

\* LeasedWindow::split_at
SplitWindow(b) ==
  /\ rl.loose[b] \in 1 .. MaxLoose - 1
  /\ rl' = [rl EXCEPT !.loose[b] = @ + 1]
  /\ UNCHANGED bp

\* A window dropped by the handler or a callback; also what a write that had to
\* copy does with its windows.
DropWindow(b) ==
  /\ rl.loose[b] > 0
  /\ rl' = Returned([rl EXCEPT !.loose[b] = @ - 1], {b})
  /\ UNCHANGED bp

Consumed(r, bs) == [r EXCEPT !.loose = [b \in Bids |-> @[b] - Occurs(b, bs)]]

\* pwritev2_leased of one window, or of two gathered ones.
WriteLeased(c, bs) ==
  /\ rl.op[c] = <<>>
  /\ \A b \in Range(bs) : Occurs(b, bs) <= rl.loose[b]
  /\ rl' = SubmitGathered(Consumed(rl, bs), c, bs)
  /\ UNCHANGED bp

\* submit_leased_or_refuse with the table or the queue full: the windows go
\* with the refusal.
WriteLeasedRefused(bs) ==
  /\ \A b \in Range(bs) : Occurs(b, bs) <= rl.loose[b]
  /\ rl' = Returned(Consumed(rl, bs), Range(bs))
  /\ UNCHANGED bp

\* offload_leased: the registry keeps the share while a worker reads.
OffloadLeased(c, b) ==
  /\ rl.job[c] = None /\ rl.loose[b] > 0
  /\ rl' = [rl EXCEPT !.job[c] = b, !.loose[b] = @ - 1]
  /\ UNCHANGED bp

\* A mutant: a leased claim is kept for the frames that follow.
DrainFrontKeeps(k) == [k EXCEPT !.filled = @ - 1, !.leased = @ /\ k.filled > 1]

\* RecvBuf::drain_front of one frame: a leased claim is given up and the rest
\* of the bytes is copied; an unleased one keeps them.
DrainFront(k) ==
  IF k.leased
  THEN [k EXCEPT !.claim = None, !.leased = FALSE, !.filled = @ - 1,
                 !.owned = k.filled > 1]
  ELSE [k EXCEPT !.filled = @ - 1]

\* RecvBuf::release: an empty, unleased buffer goes back to the pool, and the
\* storage of a pooled connection with it.
Idle(k) == k.filled = 0 /\ ~k.leased

Give(p, k) == IF Idle(k) /\ k.claim # None THEN Release(p, k.claim) ELSE p

\* consume and release_recv_buffer, when the handler returns.
HandlerEnd ==
  /\ rl.handler
  /\ LET k == DrainFront(rl.conn)
     IN  /\ bp' = Give(bp, k)
         /\ rl' = [rl EXCEPT !.handler = FALSE,
                     !.conn = IF Idle(k)
                              THEN [k EXCEPT !.claim = None,
                                             !.owned = @ /\ ~k.pooled]
                              ELSE k]

-----------------------------------------------------------------------------
(* The reactor. *)

Quiet == ~rl.handler

\* A receive is armed: into the claim, into owned storage, or - with neither -
\* into a buffer the kernel will pick (needs_buffer).
ArmRecv ==
  /\ Quiet /\ rl.conn.recving = "no" /\ rl.conn.filled < Cap
  /\ LET k == rl.conn
     IN  rl' = [rl EXCEPT !.conn.recving =
                  IF k.claim # None THEN "claim"
                  ELSE IF k.pooled /\ k.filled = 0 /\ ~k.owned THEN "select"
                  ELSE "owned"]
  /\ UNCHANGED bp

\* Data for a receive that has its storage.
RecvData ==
  /\ Quiet /\ rl.conn.recving \in {"claim", "owned"}
  /\ rl' = [rl EXCEPT !.conn.recving = "no", !.conn.filled = @ + 1,
                      !.conn.owned = @ \/ rl.conn.recving = "owned"]
  /\ UNCHANGED bp

\* The kernel picks a buffer; the completion names it; adopt_recv_buffer.
RecvPicks ==
  /\ rl.conn.recving = "select" /\ CanPick(bp)
  /\ bp' = KernelPick(bp)
  /\ rl' = [rl EXCEPT !.conn.recving = "picked"]

RecvAdopt ==
  /\ Quiet /\ rl.conn.recving = "picked"
  /\ \E b \in bp.picked, mem \in BOOLEAN :
       /\ bp' = TakeLent(bp, b, mem)
       /\ rl' = [rl EXCEPT !.conn.recving = "no", !.conn.claim = b,
                           !.conn.filled = 1]

\* recv_buffer_shortage: grow; or else wait for a retry; or, without one, fall
\* back to owned storage.
RecvShortage ==
  /\ Quiet /\ rl.conn.recving = "select" /\ ~CanPick(bp)
  /\ \E mem, retry \in BOOLEAN :
       LET q == Grow(bp, 0, mem)
       IN  /\ bp' = q
           /\ rl' = [rl EXCEPT !.conn.recving = "no",
                       !.conn.pooled = @ /\ (retry \/ Count(q, "Posted") > 0)]

\* promote_recv_buffer: a frame larger than the buffer moves to owned storage.
Promote ==
  /\ Quiet /\ rl.conn.recving = "no" /\ rl.conn.claim # None /\ ~rl.conn.leased
  /\ rl.conn.filled > 0
  /\ bp' = Release(bp, rl.conn.claim)
  /\ rl' = [rl EXCEPT !.conn.claim = None, !.conn.owned = TRUE]

\* The completion of a leased write: the last share surfaces with the result
\* and the reactor releases it before the callback runs.
WriteDone(c) ==
  /\ Quiet /\ rl.op[c] # <<>>
  /\ LET r    == [rl EXCEPT !.op[c] = <<>>]
         last == {b \in Range(rl.op[c]) : Shares(r, b) = 0}
     IN  /\ rl' = r
         /\ bp' = FoldLeft(Release, bp, SetToSeq(last))

\* take_pool_completions: a finished offload gives its share back.
JobDone(c) ==
  /\ Quiet /\ rl.job[c] # None
  /\ rl' = Returned([rl EXCEPT !.job[c] = None], {rl.job[c]})
  /\ UNCHANGED bp

\* drain_fs_offloads: take_pool_releases, each released to the pool.
DrainReturns ==
  /\ Quiet /\ rl.returns # <<>>
  /\ bp' = FoldLeft(Release, bp, rl.returns)
  /\ rl' = [rl EXCEPT !.returns = <<>>]

\* Teardown gives back the connection's buffer, whatever is in it.
ForfeitRecvClaim(p) ==
  IF rl.conn.claim = None THEN p ELSE Release(p, rl.conn.claim)

\* free_slot, after the cancel of a receive that took no buffer: the claim is
\* forfeited; the slot starts over.
FreeSlot ==
  /\ Quiet /\ rl.conn.recving # "picked"
  /\ bp' = ForfeitRecvClaim(bp)
  /\ rl' = [rl EXCEPT !.conn = NewConn]

\* The maintenance tick.
Maintain ==
  /\ Quiet
  /\ \E elapsed \in BOOLEAN : bp' = Rebalance(bp, elapsed)
  /\ UNCHANGED rl

LeaseNext ==
  \/ HandlerBegin \/ LeaseWindow \/ WriteFromRefused \/ HandlerEnd
  \/ \E b \in Bids : SplitWindow(b) \/ DropWindow(b)
  \/ \E c \in Writes :
       \/ WriteFrom(c) \/ WriteDone(c) \/ JobDone(c)
       \/ \E b \in Bids : OffloadLeased(c, b) \/ WriteLeased(c, <<b>>)
       \/ \E b, d \in Bids : WriteLeased(c, <<b, d>>)
  \/ \E b \in Bids : WriteLeasedRefused(<<b>>)
  \/ \E b, d \in Bids : WriteLeasedRefused(<<b, d>>)
  \/ ArmRecv \/ RecvData \/ RecvPicks \/ RecvAdopt \/ RecvShortage \/ Promote
  \/ DrainReturns \/ FreeSlot \/ Maintain

-----------------------------------------------------------------------------
(* Properties. *)

\* A lent buffer has exactly one owner - the connection that claimed it, the
\* shares of its lease, or the queue of returns, once - and a buffer that is
\* not lent has none: it is never returned twice, never kept for ever, and
\* never posted to the kernel while a write or a worker reads it.
OneOwner ==
  \A b \in Bids :
    (IF rl.conn.claim = b /\ ~rl.conn.leased THEN 1 ELSE 0)
    + (IF Shares(rl, b) > 0 THEN 1 ELSE 0)
    + Occurs(b, rl.returns)
    = IF bp.slot[b] = "Lent" THEN 1 ELSE 0

\* The kernel never receives into a buffer whose bytes are leased.
NoRecvUnderLease ==
  rl.conn.recving = "claim" =>
    /\ ~rl.conn.leased /\ Shares(rl, rl.conn.claim) = 0
    /\ bp.slot[rl.conn.claim] = "Lent"

-----------------------------------------------------------------------------
(***************************************************************************)
(* BodyPool (src/net/core/bodypool.rs): the storage one ring keeps for     *)
(* message bodies.  Retention is licensed by demand: a claim nothing fits  *)
(* leaves a licence of its size, which the storage may spend when it comes *)
(* home.  The reactor carries the licence of its own claims beside the     *)
(* storage; a consumer's go into a pot that lasts one observation window.  *)
(* A buffer is its capacity.                                               *)
(***************************************************************************)

CONSTANTS
  Sizes,        \* the sizes bodies are claimed in
  BodyBudget,   \* the ceiling on retained bytes
  OversizeServe, OversizeFloor,
  BodyShrink,   \* SHRINK_AFTER
  MaxOut        \* bound: buffers out of the pool

VARIABLE bo

\* BodyPool::new, and the storage that is out: placed by the reactor with the
\* licence its claim recorded, or in the hands of a consumer.
BodyInit ==
  bo = [free |-> <<>>, retained |-> 0, target |-> 0, missed |-> 0,
        served |-> 0, idle |-> 0, placed |-> <<>>, lent |-> <<>>]

Capped(n) == IF n > BodyBudget THEN BodyBudget ELSE n

Sat(a, b) == IF a > b THEN a - b ELSE 0

MaxOf(a, b) == IF a > b THEN a ELSE b

Potted(p, licence) == [p EXCEPT !.missed = Capped(@ + licence)]

\* The entry take_fit serves: the first, hence smallest, that covers the ask,
\* unless it over-provides.
Fits(p, ask) ==
  LET cover == {i \in DOMAIN p.free : p.free[i].cap >= ask}
  IN  {i \in cover : /\ \A j \in cover : i <= j
                     /\ p.free[i].cap <= MaxOf(ask * OversizeServe,
                                               OversizeFloor)}

Serve(p, i) ==
  [p EXCEPT !.retained = Sat(@, p.free[i].cap), !.served = 1,
            !.free = RemoveAt(@, i)]

\* claim_held: the pool after the claim, the storage and its licence.
ClaimHeld(p, ask) ==
  IF Fits(p, ask) = {} THEN [pool |-> p, cap |-> ask, licence |-> ask]
  ELSE LET i == CHOOSE i \in Fits(p, ask) : TRUE
       IN  [pool |-> Serve(p, i), cap |-> p.free[i].cap, licence |-> 0]

\* A mutant: the list is not kept in order.
ShelveLast(free, cap) == Append(free, [cap |-> cap, age |-> 0])

\* Sorted insert behind the entries of the same capacity, at age zero.
Shelve(free, cap) ==
  InsertAt(free, Cardinality({i \in DOMAIN free : free[i].cap <= cap}) + 1,
           [cap |-> cap, age |-> 0])

\* give_held: kept within the target, which the pot may raise to cover it;
\* freed, with nothing spent, where it may not.
GiveHeld(p, cap, licence) ==
  LET q     == Potted(p, licence)
      held  == q.retained + cap
      short == Sat(held, q.target)
      grant == IF short > q.missed THEN q.missed ELSE short
  IN  IF held > q.target /\ (held > BodyBudget \/ q.target + grant < held)
      THEN q
      ELSE [q EXCEPT !.target = @ + grant, !.missed = @ - grant,
                     !.retained = held, !.free = Shelve(@, cap)]

Capacity(free) == FoldLeft(LAMBDA n, e : n + e.cap, 0, free)

\* The entries a hot observation leaves: each one older, the oldest evicted.
Aged(free) ==
  SelectSeq([i \in DOMAIN free |-> [free[i] EXCEPT !.age = @ + 1]],
            LAMBDA e : e.age < BodyShrink)

\* What is left of a sorted list once its largest entries are popped until it
\* is within the target.
Trimmed(free, target) ==
  SubSeq(free, 1, Max({k \in 0 .. Len(free) :
                         Capacity(SubSeq(free, 1, k)) <= target}))

\* rebalance
Observe(p) ==
  LET evicted == Capacity(p.free) - Capacity(Aged(p.free))
      q       == [p EXCEPT !.missed = 0]
      half    == q.target \div 2
      left    == Trimmed(q.free, half)
  IN  IF q.served > 0
      THEN [q EXCEPT !.served = 0, !.idle = 0, !.free = Aged(@),
                     !.retained = Sat(@, evicted), !.target = Sat(@, evicted)]
      ELSE IF q.idle + 1 < BodyShrink THEN [q EXCEPT !.idle = @ + 1]
      ELSE [q EXCEPT !.idle = 0, !.target = half, !.free = left,
                     !.retained = Sat(@, Capacity(q.free) - Capacity(left))]

-----------------------------------------------------------------------------
OutOfPool == Len(bo.placed) + Len(bo.lent)

\* The reactor places a body (claim_held).
PlaceBody ==
  /\ OutOfPool < MaxOut
  /\ \E ask \in Sizes :
       LET got == ClaimHeld(bo, ask)
       IN  bo' = [got.pool EXCEPT
                    !.placed = Append(@, [cap |-> got.cap,
                                          licence |-> got.licence])]

\* The connection fails or the body is copied out: the reactor gives it home.
ReturnBody ==
  \E i \in DOMAIN bo.placed :
    bo' = [GiveHeld(bo, bo.placed[i].cap, bo.placed[i].licence) EXCEPT
             !.placed = RemoveAt(@, i)]

\* The body is delivered: receipt_done pots the licence before the handler.
DeliverBody ==
  \E i \in DOMAIN bo.placed :
    bo' = [Potted(bo, bo.placed[i].licence) EXCEPT
             !.placed = RemoveAt(@, i),
             !.lent = Append(@, bo.placed[i].cap)]

\* BodyRecycler: a consumer claims, recycles, or lets storage go.
ConsumerClaim ==
  /\ OutOfPool < MaxOut
  /\ \E ask \in Sizes :
       LET got == ClaimHeld(bo, ask)
       IN  bo' = [Potted(got.pool, got.licence) EXCEPT
                    !.lent = Append(@, got.cap)]

Recycle ==
  \E i \in DOMAIN bo.lent :
    bo' = [GiveHeld(bo, bo.lent[i], 0) EXCEPT !.lent = RemoveAt(@, i)]

LetGo ==
  \E i \in DOMAIN bo.lent : bo' = [bo EXCEPT !.lent = RemoveAt(@, i)]

ObserveBodies == bo' = Observe(bo)

BodyNext == \/ PlaceBody \/ ReturnBody \/ DeliverBody \/ ConsumerClaim
            \/ Recycle \/ LetGo \/ ObserveBodies

-----------------------------------------------------------------------------
\* Whatever the order of claims, gives and observations, the pool's figures
\* are true and its ceiling holds: the retained figure is the capacity on the
\* list, it never passes the target nor the target the budget, no pot licenses
\* more than the budget, and the list stays sorted, on which both the best fit
\* and the shrink of the largest entry rest.
BodiesBounded ==
  /\ bo.retained = Capacity(bo.free)
  /\ bo.retained <= bo.target /\ bo.target <= BodyBudget
  /\ bo.missed <= BodyBudget
  /\ \A i \in DOMAIN bo.free \ {1} : bo.free[i - 1].cap <= bo.free[i].cap
=============================================================================
