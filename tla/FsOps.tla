------------------------------- MODULE FsOps -------------------------------
(***************************************************************************)
(* The operation table of the file service (src/uring_fs/core.rs): slots   *)
(* with generations, the refusal queue, the wall-clock allowance of an     *)
(* owner, deadline guards on opens, retraction, the sweep of a closed      *)
(* owner, and the delivery pass.                                           *)
(*                                                                         *)
(* The whole of FsCore is one record, fs, and every function of FsCore is  *)
(* an operator from a record to a record, so that a handler which calls    *)
(* several of them is the composition of their operators.  fs.room is the  *)
(* number of submission entries the ring still accepts during the current  *)
(* handler: a stage that finds none fails, as Engine::stage does when the  *)
(* queue stays full.  The kernel's side is fs.kernel (staged entries not   *)
(* yet completed), fs.asked (those a cancel was staged for) and fs.lost    *)
(* (those whose best-effort cancel found no room).                         *)
(***************************************************************************)
EXTENDS Integers, Sequences, FiniteSets, SequencesExt

CONSTANTS
  Slots,       \* the slots of the operation table, numbers
  Calls,       \* submissions of the run, numbered in the order they are made
  Conns,       \* connection slots that own embedded operations
  MaxGen,      \* bound: generations of a connection slot
  Cap,         \* timer_cap, at least 1: wall-clock holds an owner may have armed
  Rooms,       \* how many entries the ring may accept in one handler
  None         \* absence of an owner, a guard, a call

VARIABLE fs

Owners == Conns \X (0 .. MaxGen)

\* FsOpEntry::clear: what a slot holds when it is free.
Blank == [tag |-> "idle", call |-> None, retracted |-> FALSE, guard |-> None,
          cancels |-> None, wall |-> None, grouped |-> FALSE]

\* What is known of a call: its waiter, owner and Timer, the steps to come.
Uncalled == [st |-> "free", w |-> "none", owner |-> None, rest |-> <<>>,
             timer |-> None]

\* FsCore::new
OpsInit ==
  fs = [ops       |-> [s \in Slots |-> Blank],
        gen       |-> [s \in Slots |-> 0],
        op_free   |-> SetToSeq(Slots),
        refusals  |-> <<>>,
        armed     |-> [o \in Owners |-> 0],
        retiring  |-> [o \in Owners |-> 0],
        closed    |-> [k \in Conns |-> -1],
        selecting |-> 0,
        poked     |-> FALSE,
        budget    |-> -1,
        stopping  |-> FALSE,
        kernel    |-> {}, asked |-> {}, lost |-> {},
        room      |-> 0,
        live      |-> [k \in Conns |-> 0],
        call      |-> [c \in Calls |-> Uncalled],
        told      |-> [c \in Calls |-> 0],
        wound     |-> {}]

-----------------------------------------------------------------------------
(* Small operations on the table. *)

Sqe(f, s) == [tag |-> f.ops[s].tag, slot |-> s, gen |-> f.gen[s]]

\* entry.state.clear(), the next generation, and the push on the free list.
Release(f, s) ==
  [f EXCEPT !.ops[s] = Blank, !.gen[s] = @ + 1, !.op_free = Append(@, s)]

\* pop_op, and the fields every submit_* fills before it stages.
Occupy(f, e) ==
  LET s == Last(f.op_free)
  IN  [f EXCEPT !.ops[s] = e, !.op_free = Front(@)]

\* Engine::stage of the entry just filled in slot s.
Stage(f, s) == [f EXCEPT !.kernel = @ \cup {Sqe(f, s)}, !.room = @ - 1]

\* submit_cancel: best effort, the failure is ignored.
SubmitCancel(f, q) ==
  IF f.room = 0 THEN [f EXCEPT !.lost = @ \cup {q}]
  ELSE [f EXCEPT !.asked = @ \cup ({q} \cap f.kernel), !.room = @ - 1]

\* A continuation runs, a channel is answered, or a caller gets its Err; an
\* owner that hears the unmarked ECANCELED winds down.
Tell(f, c, v) ==
  [f EXCEPT !.told[c] = @ + 1,
            !.call[c] = [Uncalled EXCEPT !.st = "done", !.timer = f.call[c].timer],
            !.wound = IF v = "cancelled" THEN @ \cup {f.call[c].owner} ELSE @]

\* deliver: a channel is answered; a continuation or a pump is dropped.
Drop(f, c) ==
  IF f.call[c].w = "channel" THEN Tell(f, c, "failed")
  ELSE [f EXCEPT !.call[c] = [Uncalled EXCEPT !.st = "dropped"]]

\* refuse: an embedded refusal waits for the next pass, the loop is poked if
\* it is the first one waiting; any other waiter is served at once.
Refuse(f, c, marked) ==
  IF f.call[c].w = "embedded"
  THEN [f EXCEPT !.refusals = Append(@, [call |-> c, marked |-> marked]),
                 !.poked = @ \/ f.refusals = <<>>]
  ELSE Tell(f, c, "refused")

\* A mutant: the waiter of an entry that could not be staged is forgotten.
FailOpSilent(f, s) == Release(f, s)

\* fail_op: the slot is freed first, then its waiter, if any, is refused.
FailOp(f, s) ==
  LET c == f.ops[s].call
  IN  IF c = None THEN Release(f, s) ELSE Refuse(Release(f, s), c, TRUE)

\* retract_op
RetractOp(f, tag, g) ==
  IF \/ g = None
     \/ f.gen[g[1]] # g[2] \/ f.ops[g[1]].tag # tag
     \/ f.ops[g[1]].retracted
  THEN f
  ELSE SubmitCancel([f EXCEPT !.ops[g[1]].retracted = TRUE], Sqe(f, g[1]))

\* owner_is_gone
OwnerIsGone(f, o) == o # None /\ f.closed[o[1]] >= o[2]

-----------------------------------------------------------------------------
(* WallClock: arm, ended, retract, park, release_park. *)

\* saturating_sub(1)
Less(n) == IF n = 0 THEN 0 ELSE n - 1

Arm(f, o) == IF o = None THEN f ELSE [f EXCEPT !.armed[o] = @ + 1]

Ended(f, o, retired) ==
  IF retired THEN [f EXCEPT !.retiring[o] = Less(@)]
  ELSE [f EXCEPT !.armed[o] = Less(@)]

Park(f, o, g) == [f EXCEPT !.retiring[o] = @ + 1, !.ops[g].wall = o]

ReleaseRetiring(f, o) ==
  IF o = None THEN f ELSE [f EXCEPT !.retiring[o] = Less(@)]

\* The owner a wall-clock hold of call c is charged to.
Payer(f, c) == IF f.call[c].w = "embedded" THEN f.call[c].owner ELSE None

\* refuse_wall_clock_hold: "go", or the verdict of the refusal.
Screen(f, c) ==
  LET o == Payer(f, c)
  IN  IF o = None THEN "go"
      ELSE IF OwnerIsGone(f, o) THEN "gone"
      ELSE IF f.armed[o] >= Cap \/ f.armed[o] + f.retiring[o] >= 2 * Cap
           THEN "busy" ELSE "go"

-----------------------------------------------------------------------------
(* The submissions.  Each is given the record with call c already "live".  *)

Filled(c, tag) == [Blank EXCEPT !.tag = tag, !.call = c]

\* submit_rw, submit_fsync, submit_fd_meta, submit_path_op, submit_linkat_file
\* and an open that needs no deadline: one slot, one entry.
SubmitOne(f, c, tag) ==
  IF f.op_free = <<>> THEN Refuse(f, c, TRUE)
  ELSE LET s == Last(f.op_free)
           g == Occupy(f, Filled(c, tag))
       IN  IF f.room = 0 THEN FailOp(g, s) ELSE Stage(g, s)

\* submit_open with a deadline: the open and the timeout that guards it.
SubmitGuardedOpen(f, c) ==
  IF Screen(f, c) # "go" THEN Refuse(f, c, Screen(f, c) = "busy")
  ELSE IF Len(f.op_free) < 2 THEN Refuse(f, c, TRUE)
  ELSE
    LET s  == Last(f.op_free)
        f1 == Occupy(f, Filled(c, "open"))
        f2 == Stage(f1, s)
        g  == Last(f2.op_free)
        f3 == Occupy(f2, [Blank EXCEPT !.tag = "deadline",
                                       !.cancels = <<s, f2.gen[s]>>])
    IN  IF f.room = 0 THEN FailOp(f1, s)
        ELSE IF f2.room = 0
             THEN RetractOp(FailOp(f3, g), "open", <<s, f2.gen[s]>>)
             ELSE Arm([Stage(f3, g) EXCEPT !.ops[s].guard = <<g, f3.gen[g]>>],
                      Payer(f, c))

\* submit_timeout; the Timer handed out is <<slot, generation>>.
SubmitTimeout(f, c) ==
  IF Screen(f, c) # "go" THEN Refuse(f, c, Screen(f, c) = "busy")
  ELSE IF f.op_free = <<>> THEN Refuse(f, c, TRUE)
  ELSE LET s == Last(f.op_free)
           g == Occupy(f, Filled(c, "timeout"))
       IN  IF f.room = 0 THEN FailOp(g, s)
           ELSE Arm([Stage(g, s) EXCEPT !.call[c].timer = <<s, f.gen[s]>>],
                    Payer(f, c))

\* submit_pump_read, into the server's buffer group or a buffer of its own.
SubmitPumpRead(f, c, grouped) ==
  IF f.op_free = <<>> THEN Tell(f, c, "refused")
  ELSE LET s == Last(f.op_free)
           g == Occupy(f, [Filled(c, "read") EXCEPT !.grouped = grouped])
       IN  IF f.room = 0 THEN FailOp(g, s)
           ELSE [Stage(g, s) EXCEPT !.selecting = @ + (IF grouped THEN 1 ELSE 0)]

\* retract_timeout: the count moves from armed to retiring with the cancel.
RetractTimeout(f, c) ==
  LET t == f.call[c].timer
      r == RetractOp(f, "timeout", t)
      o == Payer(f, c)
  IN  IF r = f \/ o = None THEN r
      ELSE [r EXCEPT !.armed[o] = Less(@), !.retiring[o] = @ + 1]

\* A mutant: the sweep does not record that the owner is closed.
CancelOwnedByUnnoted(f, o) ==
  LET owned == {s \in Slots : /\ f.ops[s].tag # "idle" /\ f.ops[s].call # None
                              /\ f.call[f.ops[s].call].w # "channel"
                              /\ f.call[f.ops[s].call].owner = o}
  IN  FoldLeft(LAMBDA g, s : SubmitCancel(g, Sqe(g, s)), f,
               SetToSortSeq(owned, LAMBDA a, b : a < b))

\* cancel_owned_by: the owner is recorded as closed, then every operation it
\* has in flight is cancelled.  A guard has no waiter and is passed over.
CancelOwnedBy(f, o) ==
  LET owned == {s \in Slots : /\ f.ops[s].tag # "idle" /\ f.ops[s].call # None
                              /\ f.call[f.ops[s].call].w # "channel"
                              /\ f.call[f.ops[s].call].owner = o}
      noted == [f EXCEPT !.closed[o[1]] = IF @ < o[2] THEN o[2] ELSE @]
  IN  FoldLeft(LAMBDA g, s : SubmitCancel(g, Sqe(g, s)), noted,
               SetToSortSeq(owned, LAMBDA a, b : a < b))

-----------------------------------------------------------------------------
(* Completions. *)

\* The guard of the open in slot s is still armed.
LiveGuard(f, s) ==
  LET g == f.ops[s].guard
  IN  /\ f.ops[s].tag = "open" /\ g # None
      /\ f.gen[g[1]] = g[2] /\ f.ops[g[1]].tag = "deadline"

\* The owner whose wall-clock allowance the entry in slot s is charged to.
Charged(f, s) ==
  LET e == f.ops[s]
  IN  IF e.call # None /\ (e.tag = "timeout" \/ (e.tag = "open" /\ e.guard # None))
      THEN Payer(f, e.call) ELSE None

\* take_op: settle the wall-clock charge, parking it on a guard that is still
\* armed, and free the slot.
TakeOp(f, s) ==
  LET e  == f.ops[s]
      o  == Charged(f, s)
      f1 == IF o = None THEN f
            ELSE Ended(f, o, e.tag = "timeout" /\ e.retracted)
      f2 == IF o # None /\ LiveGuard(f, s) THEN Park(f1, o, e.guard[1]) ELSE f1
  IN  ReleaseRetiring(Release(f2, s), IF e.tag = "deadline" THEN e.wall ELSE None)

\* A mutant: a retraction's ECANCELED is not marked.
VerdictUnmarked(e, res) ==
  IF e.tag = "timeout" /\ res = "etime" THEN IF e.retracted THEN "cancelled" ELSE "ok"
  ELSE res

\* map_res, the ETIME of a timer, and the `refused` flag of a retraction.
Verdict(e, res) ==
  LET r == IF e.tag = "timeout" /\ res = "etime"
           THEN IF e.retracted THEN "cancelled" ELSE "ok"
           ELSE res
  IN  IF e.retracted /\ r = "cancelled" THEN "refused" ELSE r

\* The next step of open_chain or of mkdir_path's walk: an open goes on only
\* from a file, a mkdir also from EEXIST.
GoesOn(f, e, v) ==
  /\ f.call[e.call].rest # <<>>
  /\ v = "ok" \/ (e.tag = "mkdir" /\ v = "exist")

\* chain and walk submit the next step from the callback of the last one.
NextStep(f, c) ==
  SubmitOne([f EXCEPT !.call[c].rest = Tail(@)], c, Head(f.call[c].rest))

\* on_cqe of an operation, and the callback it delivers.  `more` is FALSE
\* when the next step cannot be anchored or named.
OnCqe(f, s, res, more) ==
  LET e  == f.ops[s]
      v  == Verdict(e, res)
      f1 == RetractOp(TakeOp(f, s), "deadline", e.guard)
      f2 == IF f1.call[e.call].w = "pump" /\ e.grouped
            THEN [f1 EXCEPT !.selecting = Less(@)] ELSE f1
  IN  IF GoesOn(f, e, v) /\ more THEN NextStep(f2, e.call)
      ELSE Tell(f2, e.call, v)

\* A mutant: the charge parked on a guard is kept when the guard ends.
OnDeadlineKeeps(f, s, res) ==
  LET e  == f.ops[s]
      f1 == Release(f, s)
  IN  IF e.retracted \/ res = "cancelled" THEN f1
      ELSE RetractOp(f1, "open", e.cancels)

\* on_cqe of a deadline guard: an expiry retracts the open it guards.
OnDeadline(f, s, res) ==
  LET e  == f.ops[s]
      f1 == ReleaseRetiring(Release(f, s), e.wall)
  IN  IF e.retracted \/ res = "cancelled" THEN f1
      ELSE RetractOp(f1, "open", e.cancels)

\* on_drain_cqe: what the stopping loop does with each completion.
OnDrainCqe(f, s) ==
  IF f.ops[s].call = None THEN TakeOp(f, s)
  ELSE Drop(TakeOp(f, s), f.ops[s].call)

-----------------------------------------------------------------------------
(* Actions.  Everything runs on the loop's thread; a handler, a task or a   *)
(* callback may submit at any time, also inside a delivery pass.            *)

\* What a handler leaves behind: the room it saw is not state.
Settle(f) == [f EXCEPT !.room = 0]

\* The record as a handler finds it: the ring takes r entries, and call c is
\* made with waiter w for owner o, its further steps being rest.
Called(c, w, o, rest, r) ==
  [fs EXCEPT !.room = r,
             !.call[c] = [@ EXCEPT !.st = "live", !.w = w, !.owner = o,
                                   !.rest = rest]]

\* A call may be made for any connection that exists or has existed: a task
\* outlives the connection that started it.
KnownOwners == {o \in Owners : o[2] <= fs.live[o[1]]}

Waiters == ({"embedded"} \X (KnownOwners \cup {None})) \cup {<<"channel", None>>}

Fresh(c) ==
  /\ ~fs.stopping /\ fs.call[c].st = "free"
  /\ \A b \in Calls : b < c => fs.call[b].st # "free"

\* preadv2, pwritev2, fsync, the metadata calls and the path operations.
CallIo(c) ==
  /\ Fresh(c)
  /\ \E w \in Waiters, r \in Rooms :
       fs' = Settle(SubmitOne(Called(c, w[1], w[2], <<>>, r), c, "io"))

\* open with the special-file guard, and open with personality 0.
CallOpen(c) ==
  /\ Fresh(c)
  /\ \E o \in KnownOwners, r \in Rooms, pers \in {0, 1} :
       LET f == Called(c, "embedded", o, <<>>, r)
       IN  fs' = Settle(IF pers = 0 THEN Refuse(f, c, TRUE)
                        ELSE SubmitOne(f, c, "open"))

\* open_chain, one open per step, and mkdir_path, which creates and opens
\* every part.
CallSteps(c) ==
  /\ Fresh(c)
  /\ \E o \in KnownOwners, r \in Rooms, first \in {"open", "mkdir"} :
       fs' = Settle(SubmitOne(Called(c, "embedded", o, <<"open">>, r), c, first))

\* open with SpecialFiles::Allow { deadline }.
CallAllowOpen(c) ==
  /\ Fresh(c)
  /\ \E w \in Waiters, r \in Rooms :
       fs' = Settle(SubmitGuardedOpen(Called(c, w[1], w[2], <<>>, r), c))

CallTimeout(c) ==
  /\ Fresh(c)
  /\ \E o \in KnownOwners \cup {None}, r \in Rooms :
       fs' = Settle(SubmitTimeout(Called(c, "embedded", o, <<>>, r), c))

CallPumpRead(c) ==
  /\ Fresh(c)
  /\ \E o \in KnownOwners, r \in Rooms, grouped \in BOOLEAN :
       fs' = Settle(SubmitPumpRead(Called(c, "pump", o, <<>>, r), c, grouped))

\* cancel_timeout; the Timer may outlive the timer.
CancelTimeout(c) ==
  /\ ~fs.stopping /\ fs.call[c].timer # None
  /\ \E r \in Rooms :
       fs' = Settle([RetractTimeout([fs EXCEPT !.room = r], c) EXCEPT
                       !.call[c].timer = None])

\* The server closes connection k and sweeps it; the slot is reused under the
\* next generation.
CloseOwner(k) ==
  /\ ~fs.stopping /\ fs.live[k] < MaxGen
  /\ \E r \in Rooms :
       fs' = Settle([CancelOwnedBy([fs EXCEPT !.room = r], <<k, fs.live[k]>>)
                       EXCEPT !.live[k] = @ + 1])

\* What the kernel may answer to an entry.  A cancelled answer needs a cancel.
Answers(q) ==
  (IF q.tag \in {"timeout", "deadline"} THEN {"etime"}
   ELSE IF q.tag = "mkdir" THEN {"ok", "exist", "err"} ELSE {"ok", "err"})
  \cup (IF q \in fs.asked \/ fs.stopping THEN {"cancelled"} ELSE {})

\* The record once the kernel has completed q: the slot is named by the
\* generation in its user data, so a stale completion finds nothing.
Reaped(q) == [fs EXCEPT !.kernel = @ \ {q}, !.asked = @ \ {q}, !.lost = @ \ {q}]

Current(q) == fs.gen[q.slot] = q.gen /\ fs.ops[q.slot].tag = q.tag

\* A completion handled by the running loop, with the callback it runs.
Cqe(q) ==
  /\ q \in fs.kernel /\ ~fs.stopping /\ fs.budget = -1
  /\ \E res \in Answers(q), r \in Rooms, more \in BOOLEAN :
       LET f == [Reaped(q) EXCEPT !.room = r]
       IN  fs' = Settle(IF ~Current(q) THEN f
                        ELSE IF q.tag = "deadline"
                        THEN OnDeadline(f, q.slot, res)
                        ELSE OnCqe(f, q.slot, res, more))

\* deliver_pool_completions: the pass delivers the refusals that were queued
\* when it began, and pokes the loop again if callbacks queued more.
PassBegin ==
  /\ ~fs.stopping /\ fs.poked /\ fs.budget = -1
  /\ fs' = [fs EXCEPT !.poked = FALSE, !.budget = Len(fs.refusals)]

PassDeliver ==
  /\ fs.budget > 0 /\ fs.refusals # <<>>
  /\ LET d == Head(fs.refusals)
     IN  fs' = [Tell(fs, d.call, IF d.marked THEN "refused" ELSE "cancelled")
                  EXCEPT !.refusals = Tail(@), !.budget = @ - 1]

PassEnd ==
  /\ fs.budget = 0 \/ (fs.budget > 0 /\ fs.refusals = <<>>)
  /\ fs' = [fs EXCEPT !.budget = -1, !.poked = @ \/ fs.refusals # <<>>]

\* The loop stops: one last pass has run, and everything is cancelled.
Stop ==
  /\ ~fs.stopping /\ fs.budget = -1 /\ fs.refusals = <<>>
  /\ fs' = [fs EXCEPT !.stopping = TRUE]

DrainCqe(q) ==
  /\ q \in fs.kernel /\ fs.stopping
  /\ fs' = IF Current(q) THEN OnDrainCqe(Reaped(q), q.slot) ELSE Reaped(q)

OpsNext ==
  \/ \E c \in Calls : \/ CallIo(c) \/ CallOpen(c) \/ CallSteps(c)
                      \/ CallAllowOpen(c)
                      \/ CallTimeout(c) \/ CallPumpRead(c) \/ CancelTimeout(c)
  \/ \E k \in Conns : CloseOwner(k)
  \/ \E q \in fs.kernel : Cqe(q) \/ DrainCqe(q)
  \/ PassBegin \/ PassDeliver \/ PassEnd \/ Stop

-----------------------------------------------------------------------------
(* Properties. *)

InFlight == {s \in Slots : fs.ops[s].tag # "idle"}

\* Every call made is in exactly one place - a slot of the table, the queue of
\* refusals, or answered - whatever mix of refusal, failed staging, retraction,
\* sweep and drain it met: no continuation is lost and none runs twice.
AnsweredOnce ==
  \A c \in Calls :
    LET flying  == {s \in Slots : fs.ops[s].call = c}
        refused == {i \in DOMAIN fs.refusals : fs.refusals[i].call = c}
    IN  Cardinality(flying) + Cardinality(refused) + fs.told[c]
        + (IF fs.call[c].st = "dropped" THEN 1 ELSE 0)
        = IF fs.call[c].st = "free" THEN 0 ELSE 1

\* The allowance of an owner is charged for exactly what it holds: armed counts
\* its timers that were not retracted and its opens whose guard was armed;
\* retiring counts retracted timers and guards that outlived their open.
WallClockExact ==
  \A o \in Owners :
    LET timers(b) == {s \in InFlight : /\ fs.ops[s].tag = "timeout"
                                       /\ fs.ops[s].retracted = b
                                       /\ Payer(fs, fs.ops[s].call) = o}
        opens  == {s \in InFlight : /\ fs.ops[s].tag = "open"
                                    /\ fs.ops[s].guard # None
                                    /\ Payer(fs, fs.ops[s].call) = o}
        parked == {s \in InFlight : /\ fs.ops[s].tag = "deadline"
                                    /\ fs.ops[s].wall = o}
    IN  /\ fs.armed[o] = Cardinality(timers(FALSE)) + Cardinality(opens)
        /\ fs.retiring[o] = Cardinality(timers(TRUE)) + Cardinality(parked)
        /\ fs.armed[o] <= Cap
        /\ fs.armed[o] + fs.retiring[o] <= 2 * Cap

\* A slot is free or in flight, never both and never free twice; every entry
\* in flight is known to the kernel; and pump_selecting counts the pump reads
\* that hold a place in the server's buffer group.
TableExact ==
  /\ Range(fs.op_free) = Slots \ InFlight
  /\ IsInjective(fs.op_free)
  /\ \A s \in InFlight : Sqe(fs, s) \in fs.kernel
  /\ ~fs.stopping => fs.selecting = Cardinality({s \in InFlight : fs.ops[s].grouped})

\* The unmarked ECANCELED is the word for "your connection is gone", on which
\* a task winds down: an operation of a live owner never hears it, not from a
\* deadline, a retraction or a failed staging.
UnmarkedMeansGone ==
  \A o \in fs.wound : OwnerIsGone(fs, o)

\* Refusals that wait are never forgotten: a poke is pending or a pass runs.
RefusalsNoticed ==
  fs.refusals # <<>> => fs.poked \/ fs.budget # -1

\* Once its owner is closed, whatever of it may last - a timer, an open that a
\* deadline bounds - has been asked to end, unless the ring had no room for
\* the cancel: nothing armed after the sweep waits out its wall clock.
GoneCancelled ==
  \A s \in InFlight :
    LET c == fs.ops[s].call
    IN  (/\ c # None /\ fs.call[c].w # "channel"
         /\ fs.ops[s].tag = "timeout" \/ fs.ops[s].guard # None
         /\ OwnerIsGone(fs, fs.call[c].owner))
        => Sqe(fs, s) \in fs.asked \cup fs.lost
=============================================================================
