------------------------------ MODULE SqCqRing ------------------------------
(***************************************************************************)
(* The submission and completion rings (src/uring/ring.rs) and the engine  *)
(* that counts what is in flight over them (src/uring/engine.rs): staging  *)
(* one entry, a linked pair or a chain; submitting and waiting; reaping;   *)
(* the kernel's list of completions that did not fit; and the drain that   *)
(* cancels and reaps everything.  The kernel side is external.             *)
(*                                                                         *)
(* Ring indices are free-running and wrap at Wrap, 2^32 in the code.       *)
(***************************************************************************)
EXTENDS Integers, Sequences, SequencesExt

CONSTANTS
  SqEntries, CqEntries,   \* the rings' sizes, powers of two
  Wrap,                   \* 2^32, a larger multiple of both
  Shots,                  \* operations that complete more than once
  MaxOps                  \* entries staged in a run (a bound)

VARIABLE rg

Ops == 1 .. MaxOps
NoOp == [op |-> 0, link |-> FALSE]

\* Ring::from_setup; Engine::assemble.  The indices start near the wrap.
RingInit ==
  rg = [sq_tail |-> Wrap - 1, khead |-> Wrap - 1, to_submit |-> 0,
        sqes |-> [i \in 0 .. SqEntries - 1 |-> NoOp],
        cq_head |-> Wrap - 1, cq_tail |-> Wrap - 1,
        cqes |-> [i \in 0 .. CqEntries - 1 |-> [op |-> 0, more |-> FALSE]],
        backlog |-> <<>>, pending |-> {}, shot |-> {},
        inflight |-> 0, next |-> 1, taken |-> <<>>,
        reaped |-> {}, phase |-> "work", drain |-> "no"]

Sub(a, b) == (a - b + Wrap) % Wrap
Inc(a) == (a + 1) % Wrap

Staged(r) == Sub(r.sq_tail, r.khead)

\* try_reserve and free_sqes
TryReserve(r) == Staged(r) < SqEntries
FreeSqes(r) == SqEntries - Staged(r)

\* fill_sqe, advance and to_submit += 1
Push(r, op, link) ==
  [r EXCEPT !.sqes[r.sq_tail % SqEntries] = [op |-> op, link |-> link],
            !.sq_tail = Inc(@), !.to_submit = @ + 1]

\* External: io_uring_enter takes n entries, reading the slots from its head.
KernelTakes(r, n) ==
  LET taken == [k \in 1 .. n |-> r.sqes[((r.khead + k - 1) % Wrap) % SqEntries]]
      ops == {taken[k].op : k \in 1 .. n}
  IN [r EXCEPT !.khead = (@ + n) % Wrap, !.to_submit = @ - n,
               !.pending = @ \cup ops,
               !.taken = @ \o [k \in 1 .. n |-> taken[k].op]]

\* How many entries a call to enter may take: the kernel stops short only
\* between chains.
Takes(r) ==
  {n \in 0 .. r.to_submit :
     n = 0 \/ ~r.sqes[((r.khead + n - 1) % Wrap) % SqEntries].link}

\* submit: repeated until everything is taken or nothing more is.
Submits(r) == {KernelTakes(r, n) : n \in Takes(r)}

\* stage / push_sqe, stage_linked / push_sqe_linked, stage_chain /
\* push_sqe_chain: n entries or none.  A full ring is submitted first, and the
\* entry is refused with EBUSY when that did not make room.
Filled(r, n) ==
  LET f[k \in 0 .. n] ==
        IF k = 0 THEN r ELSE Push(f[k - 1], r.next + k - 1, k < n)
  IN [f[n] EXCEPT !.inflight = @ + n, !.next = @ + n]

Room(r, n) == IF n = 1 THEN TryReserve(r) ELSE FreeSqes(r) >= n

StageN(r, n) ==
  IF Room(r, n) THEN {Filled(r, n)}
  ELSE {IF Room(s, n) THEN Filled(s, n) ELSE s : s \in Submits(r)}

RingStage ==
  \E n \in 1 .. SqEntries :
    /\ rg.phase = "work" /\ rg.drain = "no" /\ rg.next + n - 1 < MaxOps
    /\ \E r \in StageN(rg, n) : rg' = r

\* External: a completion is posted, to the ring while it has room and no
\* backlog, to the overflow list otherwise.
CqRoom(r) == Sub(r.cq_tail, r.cq_head) < CqEntries

PostRing(r, c) ==
  [r EXCEPT !.cqes[r.cq_tail % CqEntries] = c, !.cq_tail = Inc(@)]

Posted(r, c) ==
  IF CqRoom(r) /\ r.backlog = <<>> THEN PostRing(r, c)
  ELSE [r EXCEPT !.backlog = Append(@, c)]

KernelCompletes ==
  \E op \in rg.pending :
    rg' = [Posted(rg, [op |-> op, more |-> FALSE]) EXCEPT
             !.pending = @ \ {op}]

\* A multishot completion: its operation stays pending (CQE_F_MORE).
KernelShoots ==
  \E op \in (rg.pending \cap Shots) \ rg.shot :
    rg' = [Posted(rg, [op |-> op, more |-> TRUE]) EXCEPT !.shot = @ \cup {op}]

\* External: an enter with GETEVENTS moves what fits out of the backlog.
Flushed(r) ==
  LET n == Min({CqEntries - Sub(r.cq_tail, r.cq_head), Len(r.backlog)})
      f[k \in 0 .. n] == IF k = 0 THEN r ELSE PostRing(f[k - 1], r.backlog[k])
  IN [f[n] EXCEPT !.backlog = SubSeq(@, n + 1, Len(@))]

\* submit_and_wait_for: a short or refused submit returns without waiting;
\* one that took everything goes on to wait.
SubmitAndWait ==
  /\ rg.phase = "work" /\ rg.drain # "done"
  /\ \E n \in Takes(rg) :
       rg' = [KernelTakes(rg, n) EXCEPT
                !.phase = IF n = rg.to_submit THEN "waiting" ELSE "reap"]

CanReturn(r) == Flushed(r).cq_tail # r.cq_head

WaitReturns ==
  /\ rg.phase = "waiting" /\ CanReturn(rg)
  /\ rg' = [Flushed(rg) EXCEPT !.phase = "reap"]

\* A mutant: every completion is taken for its operation's last.
CountedAll(c) == TRUE

\* The completion that ends its operation.
Counted(c) == ~c.more

\* reap and retire
Reap ==
  /\ rg.phase = "reap" /\ rg.cq_head # rg.cq_tail
  /\ LET c == rg.cqes[rg.cq_head % CqEntries]
     IN rg' = [rg EXCEPT !.cq_head = Inc(@),
                         !.reaped = IF Counted(c) THEN @ \cup {c.op} ELSE @,
                         !.inflight = IF Counted(c) THEN @ - 1 ELSE @]

\* submit_and_flush_overflow ends a pass of the loop; the drain submits what
\* is left and ends when nothing is in flight.
ReapEnds ==
  /\ rg.phase = "reap" /\ rg.cq_head = rg.cq_tail
  /\ CASE rg.drain = "no" ->
            \E r \in Submits(rg) :
              rg' = [(IF r.backlog # <<>> THEN Flushed(r) ELSE r) EXCEPT
                       !.phase = "work"]
       [] rg.drain # "no" /\ rg.inflight > 0 -> rg' = [rg EXCEPT !.phase = "work"]
       [] OTHER -> rg' = [rg EXCEPT !.phase = "work", !.drain = "done"]

\* cancel_and_reap_all
BeginDrain ==
  /\ rg.phase = "work" /\ rg.drain = "no" /\ rg.next <= MaxOps
  /\ \E r \in (IF rg.inflight > 0 THEN StageN(rg, 1) ELSE {rg}) :
       rg' = [r EXCEPT !.drain = CASE rg.inflight = 0 -> "done"
                                   [] r.next = rg.next /\ rg.inflight > 0 -> "done"
                                   [] OTHER -> "draining"]

RingNext ==
  \/ RingStage \/ KernelCompletes \/ KernelShoots \/ SubmitAndWait \/ WaitReturns
  \/ Reap \/ ReapEnds \/ BeginDrain

-----------------------------------------------------------------------------
SqOps(r) ==
  [k \in 1 .. Staged(r) |-> r.sqes[((r.khead + k - 1) % Wrap) % SqEntries].op]

CqSeq(r) ==
  [k \in 1 .. Sub(r.cq_tail, r.cq_head) |->
     r.cqes[((r.cq_head + k - 1) % Wrap) % CqEntries]]

\* The last completion of each operation not reaped yet, wherever it waits
Finals(r) == SelectSeq(CqSeq(r) \o r.backlog, LAMBDA c : ~c.more)

\* Every entry staged reaches the kernel once and in order, and a linked entry
\* is never left staged without the one it links to; every completion is reaped
\* once, none is overwritten in the ring or lost in the overflow list, across the
\* wrap of the indices; and inflight is exactly the operations not reaped
\* (try_reserve, push_sqe_linked, push_sqe_chain, reap, retire).
RingExact ==
  LET order == rg.taken \o SqOps(rg)
  IN /\ order = [k \in 1 .. rg.next - 1 |-> k]
     /\ Staged(rg) > 0 => ~rg.sqes[Sub(rg.sq_tail, 1) % SqEntries].link
     /\ rg.to_submit = Staged(rg)
     /\ {Finals(rg)[k].op : k \in DOMAIN Finals(rg)} \cup rg.pending \cup rg.reaped
          = 1 .. Len(rg.taken)
     /\ Len(Finals(rg)) + Cardinality(rg.pending) + Cardinality(rg.reaped)
          = Len(rg.taken)
     /\ rg.inflight = rg.next - 1 - Cardinality(rg.reaped)

\* The loop never blocks on a completion the kernel already has: whenever it
\* waits with a backlog, or with a completion in the ring, the wait can return
\* (submit_and_wait_for, flush_overflow); and with operations in flight the
\* kernel holds one that will end the wait.
WaitReturnsOwed ==
  /\ rg.phase = "waiting" /\ CqSeq(rg) \o rg.backlog # <<>>
       => CanReturn(rg)
  /\ rg.phase = "waiting" /\ rg.inflight > 0
       => rg.pending # {} \/ CanReturn(rg)
=============================================================================
