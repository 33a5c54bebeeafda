------------------------------ MODULE TaskExec ------------------------------
(***************************************************************************)
(* The task executor of the file service (src/uring_fs/task.rs): futures   *)
(* and join handles over result slots, the run queue, wakes from the loop  *)
(* and from other threads, passes with a budget, nested polls, panics and  *)
(* the teardown of the tasks still alive.                                  *)
(*                                                                         *)
(* The loop is a call stack, ex.stack, of frames: a pass (in_pass), a      *)
(* drain, and the poll of a task.  Other threads hold clones of wakers and *)
(* run wake_task one access at a time.  A task's body is any sequence of   *)
(* at most Fuel awaits, spawns and nested drains, ended by a return or a   *)
(* panic.  The loop's wake-up (ex.poked) is the handle of WakeHandle.      *)
(***************************************************************************)
EXTENDS Integers, Sequences, FiniteSets, SequencesExt

CONSTANTS
  Idx,        \* task slots
  MaxSpawn,   \* bound: tasks spawned
  Fuel,       \* [Idx -> Nat], bound: awaits, spawns and nested drains of a
              \* task in that slot
  Threads,    \* threads that hold wakers
  None

VARIABLE ex

\* TaskId: a slot index and the generation it was given out under.
Ids == Idx \X (0 .. MaxSpawn)

\* Slot: a result on its way to a future; w is the task whose waker it holds.
Pending == [st |-> "Pending", w |-> None]
Spent   == [st |-> "Spent", w |-> None]

\* Slot::fill(Some(v)) and, for a dropped Fire, Slot::fill(None).
Filled(s, landed) ==
  CASE s.st \in {"Ready", "Spent"}            -> s
    [] s.st = "Gone" /\ landed                -> [st |-> "Ready", w |-> None]
    [] s.st = "Gone"                          -> s
    [] s.st = "Refused"                       -> [st |-> "Ready", w |-> None]
    [] s.st = "Pending" /\ landed             -> [st |-> "Ready", w |-> None]
    [] OTHER                                  -> [st |-> "Gone", w |-> None]

\* Slot::fill_refused: the reason is kept, the waker is not woken yet.
FilledRefused(s) ==
  CASE s.st = "Pending" -> [s EXCEPT !.st = "Refused"]
    [] s.st = "Gone"    -> [s EXCEPT !.st = "Ready"]
    [] OTHER            -> s

\* Slot::poll_take: what the poll by task t leaves in the slot.
Polled(s, t) ==
  IF s.st \in {"Pending", "Refused"} THEN [s EXCEPT !.w = t] ELSE Spent

Landed(s) == s.st \notin {"Pending", "Refused"}

\* A task as spawned: op is its pending file operation, ev its event, join
\* its handle's slot, await what it awaits now.
Unborn(i) ==
  [fuel |-> Fuel[i], await |-> "none", child |-> None, op |-> "none", slot |-> Pending,
   ev |-> FALSE, evw |-> FALSE, join |-> Pending, over |-> FALSE]

\* Tasks::new, and the loop before its first task.
ExecInit ==
  ex = [gen   |-> [i \in Idx |-> 0],
        entry |-> [i \in Idx |-> "none"],
        free  |-> SetToSeq(Idx),
        task  |-> [t \in Ids |-> Unborn(t[1])],
        born  |-> {},
        queue |-> <<>>,
        flag  |-> [t \in Ids |-> FALSE],
        draining |-> FALSE,
        poked |-> FALSE,
        down  |-> FALSE,
        stack |-> <<>>,
        thr   |-> [h \in Threads |-> [pc |-> "idle", id |-> None]]]

-----------------------------------------------------------------------------
Top == Last(ex.stack)
Running == ex.stack # <<>>
Pop(e) == [e EXCEPT !.stack = Front(@)]
Push(e, f) == [e EXCEPT !.stack = Append(@, f)]

\* wake_task on the loop's own thread: no poke while a pass is running.
WakeTask(e, t) ==
  IF e.flag[t] THEN e
  ELSE [e EXCEPT !.flag[t] = TRUE, !.queue = Append(@, t),
                 !.poked = @ \/ ~e.draining]

\* w.wake(), of the waker that was in a slot when it was filled.
WakeStored(e, was, is) == IF was.w # None /\ is # was THEN WakeTask(e, was.w) ELSE e

\* Fill the join slot of t; the joiner is woken.
FillJoin(e, t, landed) ==
  LET was == e.task[t].join  is == Filled(was, landed)
  IN  WakeStored([e EXCEPT !.task[t].join = is], was, is)

\* Fill the slot of t's file operation; its waker may be that of a task that
\* is long gone.
FillOp(e, t, landed) ==
  LET was == e.task[t].slot  is == Filled(was, landed)
  IN  WakeStored([e EXCEPT !.task[t].slot = is, !.task[t].op = "none"], was, is)

\* Tasks::insert: the next free slot, its current generation.
Insert(e) ==
  LET i == Last(e.free)  t == <<i, e.gen[i]>>
  IN  [e EXCEPT !.free = Front(@), !.entry[i] = "in", !.born = @ \cup {t}]

\* take_if and poll_window: the entry leaves its slot, then `queued` is reset.
\* A task that is not there is queued again if it is being polled further up.
PollOne(e, t) ==
  LET here == e.gen[t[1]] = t[2]
  IN  IF here /\ e.entry[t[1]] = "in"
      THEN Push([e EXCEPT !.entry[t[1]] = "out", !.flag[t] = FALSE],
                [k |-> "poll", id |-> t, budget |-> 0, prev |-> FALSE])
      ELSE IF here /\ e.entry[t[1]] = "out"
           THEN [e EXCEPT !.queue = Append(@, t)] ELSE e

\* Tasks::retire, after the poll of t returned Ready or panicked.
Retire(e, t) ==
  [e EXCEPT !.entry[t[1]] = "none", !.gen[t[1]] = @ + 1,
            !.free = Append(@, t[1]), !.task[t].over = TRUE,
            !.task[t].await = "none"]

\* drain: nothing to do, or a frame with the budget read before it began.
Drain(e) ==
  IF e.queue = <<>> THEN e
  ELSE Push([e EXCEPT !.draining = TRUE],
            [k |-> "drain", id |-> None, budget |-> Len(e.queue),
             prev |-> e.draining])

CanSpawn == Cardinality(ex.born) < MaxSpawn /\ ex.free # <<>>

\* spawn: insert, and the first poll at once.
Spawn(e) ==
  LET i == Last(e.free) IN PollOne(Insert(e), <<i, e.gen[i]>>)

-----------------------------------------------------------------------------
(* The loop. *)

\* A handler that is not inside a pass spawns a task.
HandlerSpawn ==
  /\ ~Running /\ ~ex.down /\ CanSpawn
  /\ ex' = Spawn(ex)

\* in_pass: on a wake-up, or with the result of one file operation to deliver.
\* Before the first spawn there is no run queue and nothing to mark.
PassBegin(e) ==
  Push([e EXCEPT !.draining = e.born # {}],
       [k |-> "pass", id |-> None, budget |-> 1, prev |-> e.draining])

LoopWakes ==
  /\ ~Running /\ ~ex.down /\ ex.poked
  /\ ex' = PassBegin([ex EXCEPT !.poked = FALSE])

\* A completed operation is delivered: its callback fills the future's slot.
Completes(t) ==
  /\ ~Running /\ ~ex.down /\ ex.task[t].op = "flying"
  /\ ex' = FillOp(PassBegin(ex), t, TRUE)

\* A queued refusal is delivered by a pass.
RefusalDelivered(t) ==
  /\ Running /\ Top.k = "pass" /\ Top.budget = 1 /\ ex.task[t].op = "refused"
  /\ ex' = FillOp(ex, t, TRUE)

\* The pass's own drain, once the deliveries are done; then the guard is
\* dropped and the flag restored.
PassDrains ==
  /\ Running /\ Top.k = "pass" /\ Top.budget = 1
  /\ \A t \in ex.born : ex.task[t].op # "refused"
  /\ ex' = Drain([ex EXCEPT !.stack[Len(ex.stack)].budget = 0])

PassEnds ==
  /\ Running /\ Top.k = "pass" /\ Top.budget = 0
  /\ ex' = Pop([ex EXCEPT !.draining = IF ex.born # {} THEN Top.prev ELSE @])

\* One turn of drain's loop.
DrainTurn ==
  /\ Running /\ Top.k = "drain" /\ Top.budget > 0 /\ ex.queue # <<>>
  /\ ex' = PollOne([ex EXCEPT !.queue = Tail(@),
                              !.stack[Len(ex.stack)].budget = @ - 1],
                   Head(ex.queue))

\* A mutant: what a drain leaves in the queue has nobody's attention.
DrainEndsQuiet ==
  /\ Running /\ Top.k = "drain" /\ (Top.budget = 0 \/ ex.queue = <<>>)
  /\ ex' = Pop([ex EXCEPT !.draining = Top.prev])

\* The budget is spent: what was queued meanwhile is left to the next wake-up.
\* Or the queue is empty: return at once.
DrainEnds ==
  /\ Running /\ Top.k = "drain" /\ (Top.budget = 0 \/ ex.queue = <<>>)
  /\ ex' = Pop([ex EXCEPT !.draining = Top.prev,
                          !.poked = @ \/ ex.queue # <<>>])

-----------------------------------------------------------------------------
(* The poll of the task on top of the stack. *)

Me == Top.id
Mine == ex.task[Me]
InPoll == Running /\ Top.k = "poll"
Free == InPoll /\ Mine.await = "none"
Spend(e) == [e EXCEPT !.task[Me].fuel = @ - 1]

\* fut: the operation is submitted, or refused - the sink keeps the reason in
\* the slot and the callback is queued, which pokes the loop.
AwaitOp(refused) ==
  /\ Free /\ Mine.fuel > 0 /\ Mine.op = "none"
  /\ ex' = Spend([ex EXCEPT
       !.task[Me].await = "op",
       !.task[Me].op = IF refused THEN "refused" ELSE "flying",
       !.task[Me].slot = IF refused THEN FilledRefused(Pending) ELSE Pending,
       !.poked = @ \/ refused])

\* An event another thread will set, with a waker of its own.
AwaitEvent ==
  /\ Free /\ Mine.fuel > 0
  /\ ex' = Spend([ex EXCEPT !.task[Me].await = "ev", !.task[Me].ev = FALSE])

\* The join handle of a task nobody awaits yet.
AwaitJoin(t) ==
  /\ Free /\ Mine.fuel > 0 /\ t \in ex.born /\ t # Me
  /\ \A p \in ex.born : ex.task[p].child # t
  /\ ex' = Spend([ex EXCEPT !.task[Me].await = "join", !.task[Me].child = t])

\* TaskFs::spawn: the child is polled inside the poll of its parent.
SpawnChild ==
  /\ Free /\ Mine.fuel > 0 /\ CanSpawn
  /\ ex' = Spawn(Spend(ex))

\* run_woken: a drain inside a poll.
RunWoken ==
  /\ Free /\ Mine.fuel > 0 /\ ex.queue # <<>>
  /\ ex' = Drain(Spend(ex))

\* Poll::Pending: the waker is in the slot, the entry goes back.
PollPending ==
  /\ InPoll
  /\ \/ Mine.await = "op" /\ ~Landed(Mine.slot)
     \/ Mine.await = "ev" /\ ~Mine.ev
     \/ Mine.await = "join" /\ ~Landed(ex.task[Mine.child].join)
  /\ LET e == CASE Mine.await = "op" -> [ex EXCEPT !.task[Me].slot = Polled(@, Me)]
                [] Mine.await = "ev" -> [ex EXCEPT !.task[Me].evw = TRUE]
                [] OTHER -> [ex EXCEPT !.task[Mine.child].join = Polled(@, Me)]
     IN  ex' = Pop([e EXCEPT !.entry[Me[1]] = "in"])

\* The awaited value is taken and the body goes on.
PollReady ==
  /\ InPoll
  /\ \/ /\ Mine.await = "op" /\ Landed(Mine.slot)
        /\ ex' = [ex EXCEPT !.task[Me].await = "none",
                            !.task[Me].slot = Polled(@, Me)]
     \/ /\ Mine.await = "ev" /\ Mine.ev
        /\ ex' = [ex EXCEPT !.task[Me].await = "none"]
     \/ /\ Mine.await = "join" /\ Landed(ex.task[Mine.child].join)
        /\ ex' = [ex EXCEPT !.task[Me].await = "none", !.task[Me].child = None,
                            !.task[Mine.child].join = Polled(@, Me)]

\* The body returns, or panics and its sink keeps the payload: the handle's
\* slot is filled in both cases, and the task is retired.
PollEnds ==
  /\ Free
  /\ ex' = Pop(Retire(FillJoin(ex, Me, TRUE), Me))

\* A panic, also from inside an await whose future is dropped unfinished.
PollPanics ==
  /\ InPoll /\ Mine.await # "none"
  /\ ex' = Pop(Retire(FillJoin(ex, Me, TRUE), Me))

-----------------------------------------------------------------------------
(* Other threads. *)

\* The event of task t is set, and its waker, if one is stored, is taken.
SetEvent(h, t) ==
  /\ ex.thr[h].pc = "idle" /\ ex.task[t].await = "ev" /\ ~ex.task[t].ev
  /\ ex' = [ex EXCEPT !.task[t].ev = TRUE, !.task[t].evw = FALSE,
              !.thr[h] = IF ex.task[t].evw THEN [pc |-> "swap", id |-> t] ELSE @]

\* A clone of a waker is woken for no reason, maybe after the task is gone.
Spurious(h, t) ==
  /\ ex.thr[h].pc = "idle" /\ ~ex.down /\ ex.task[t].evw
  /\ ex' = [ex EXCEPT !.thr[h] = [pc |-> "swap", id |-> t],
                      !.task[t].evw = ex.task[t].await = "ev"]

\* wake_task: the swap of `queued`, the push under the lock, the poke.
WakeSwap(h) ==
  /\ ex.thr[h].pc = "swap"
  /\ LET t == ex.thr[h].id
     IN  ex' = [ex EXCEPT !.flag[t] = TRUE,
                  !.thr[h].pc = IF ex.flag[t] THEN "idle" ELSE "push"]

WakePush(h) ==
  /\ ex.thr[h].pc = "push"
  /\ ex' = [ex EXCEPT !.queue = Append(@, ex.thr[h].id), !.thr[h].pc = "poke"]

WakePoke(h) ==
  /\ ex.thr[h].pc = "poke"
  /\ ex' = [ex EXCEPT !.poked = TRUE, !.thr[h].pc = "idle"]

-----------------------------------------------------------------------------
\* The loop ends: the callbacks still queued or in flight are dropped, and the
\* tasks with them; every Fire that is dropped fills its slot with None.
Teardown ==
  /\ ~Running /\ ~ex.down /\ ex.born # {}
  /\ LET alive == {t \in ex.born : ~ex.task[t].over}
         e1 == FoldLeft(LAMBDA e, t : IF e.task[t].op = "none" THEN e
                                      ELSE FillOp(e, t, FALSE), ex, SetToSeq(ex.born))
     IN  ex' = FoldLeft(LAMBDA e, t : FillJoin(e, t, FALSE),
                        [e1 EXCEPT !.down = TRUE,
                           !.entry = [i \in Idx |-> "none"]],
                        SetToSeq(alive))

ExecNext ==
  \/ HandlerSpawn \/ LoopWakes \/ PassDrains \/ PassEnds
  \/ DrainTurn \/ DrainEnds
  \/ \E t \in ex.born : Completes(t) \/ RefusalDelivered(t) \/ AwaitJoin(t)
  \/ AwaitOp(FALSE) \/ AwaitOp(TRUE) \/ AwaitEvent \/ SpawnChild \/ RunWoken
  \/ PollPending \/ PollReady \/ PollEnds \/ PollPanics
  \/ \E h \in Threads : \/ \E t \in ex.born : SetEvent(h, t) \/ Spurious(h, t)
                        \/ WakeSwap(h) \/ WakePush(h) \/ WakePoke(h)
  \/ Teardown

-----------------------------------------------------------------------------
(* Properties. *)

\* What task t awaits has happened.
Due(t) ==
  LET k == ex.task[t]
  IN  \/ k.await = "op" /\ Landed(k.slot)
      \/ k.await = "ev" /\ k.ev
      \/ k.await = "join" /\ Landed(ex.task[k.child].join)

Woken(t) ==
  \/ t \in Range(ex.queue)
  \/ \E h \in Threads : ex.thr[h].id = t /\ ex.thr[h].pc \in {"swap", "push"}

\* No wake is lost: a task whose await has happened is being polled, or is in
\* the run queue, or a thread is about to put it there; and a run queue that is
\* not empty has the loop's attention - a pass or drain that will still look
\* at it, a poke, or a thread about to poke.
WakeKept ==
  ~ex.down =>
    /\ \A t \in ex.born :
         Due(t) => Woken(t) \/ \E i \in DOMAIN ex.stack : ex.stack[i].id = t
    /\ ex.queue # <<>> =>
         \/ ex.poked \/ \E h \in Threads : ex.thr[h].pc = "poke"
         \/ \E i \in DOMAIN ex.stack :
              ex.stack[i].k = "drain" \/ (ex.stack[i].k = "pass" /\ ex.stack[i].budget = 1)

\* A handle is never left waiting on a task that is over, and a task that is
\* over is out of its slot.
HandleResolves ==
  \A t \in ex.born :
    /\ ex.task[t].over => Landed(ex.task[t].join) /\ ex.gen[t[1]] > t[2]
    /\ ex.down => Landed(ex.task[t].join)
    /\ ~ex.down /\ ~ex.task[t].over => ex.task[t].join.st = "Pending"
=============================================================================
