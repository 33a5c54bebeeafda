----------------------------- MODULE OffloadPool -----------------------------
(***************************************************************************)
(* The elastic worker pool behind FsConn::offload (uring_fs/offload_pool), *)
(* the loop that flushes it (FsCore::flush_offloads) and the threads that  *)
(* submit to it off the loop (SharedPool::submit).                         *)
(*                                                                         *)
(* Every step between two releases of the pool's mutex is one action; the  *)
(* condition variable is the set of workers in "wait" or "timed", and a    *)
(* worker that left it is "woken" or "expired" until it has the mutex      *)
(* again.  A job is a unit of work that may never return.  Time is         *)
(* abstracted to the comparisons the code makes: a job is "fresh" until it *)
(* has run for OFFLOAD_BLOCKED_AFTER, a spawn starts a cool-down, and the  *)
(* published deadline is set and later due.                                *)
(***************************************************************************)
EXTENDS Integers, FiniteSets

CONSTANTS Workers,      \* thread slots; at most Ceiling are alive at once
          Submitters,   \* threads that call SharedPool::submit
          Loop,         \* the reactor's loop
          Floor, Ceiling, JobsPerWake,
          MaxJobs       \* bound: jobs submitted in all

ASSUME PoolAssumption ==
  /\ IsFiniteSet(Workers) /\ Cardinality(Workers) = Ceiling /\ IsFiniteSet(Submitters)
  /\ Loop \notin Submitters
  /\ Floor \in Nat \ {0} /\ Ceiling \in Nat /\ Floor <= Ceiling
  /\ JobsPerWake \in Nat \ {0} /\ MaxJobs \in Nat

VARIABLES
  built,                \* SharedPool::pool is set
  queue, total, idle, notify, closed,   \* PoolInner; queue is its length
  cool,                 \* a spawn slot was claimed within the cool-down
  recheck,              \* recheck_at_us: "none", "set" or "due"
  wst,                  \* where each worker stands
  made,                 \* jobs submitted so far
  sub, todo, next,      \* each submitter's place; notify_one calls a flusher
                        \* still owes; whether its flush answered a deadline
  loop, pending, poked, \* the loop's place; pending_offloads; a poke to it
  dropper               \* WorkerPool::drop

inner     == <<queue, total, idle, notify, closed>>
flushVars == <<todo, next>>
loopVars  == <<loop, pending, poked>>
vars == <<built, inner, cool, recheck, wst, made, sub, flushVars, loopVars, dropper>>

Flushers == Submitters \cup {Loop}
In(states) == {w \in Workers : wst[w] \in states}
Running == In({"fresh", "stale"})
Parked  == In({"wait", "timed"})
Waiting == In({"wait", "timed", "woken", "expired"})
Alive   == Workers \ In({"none"})

Init ==
  /\ built = FALSE
  /\ queue = 0 /\ total = 0 /\ idle = 0 /\ notify = 0 /\ closed = FALSE
  /\ cool = FALSE /\ recheck = "none"
  /\ wst = [w \in Workers |-> "none"]
  /\ made = 0
  /\ sub = [s \in Submitters |-> "idle"]
  /\ todo = [t \in Flushers |-> 0] /\ next = [t \in Flushers |-> FALSE]
  /\ loop = "run" /\ pending = 0 /\ poked = FALSE
  /\ dropper = "none"

(***************************************************************************)
(* worker_loop.                                                            *)
(***************************************************************************)
\* cv.notify_all: every parked worker, and a drop that waits.
NotifyAll(ws) == [w \in Workers |-> IF ws[w] \in {"wait", "timed"} THEN "woken" ELSE ws[w]]
DropperHears  == IF dropper = "wait" THEN "woken" ELSE dropper

\* Mutant: no wait is ever given a timeout.
ParkAsForGood == "wait"
\* A wait has a timeout above the floor.
ParkAs == IF total > Floor THEN "timed" ELSE "wait"

TurnRun(w, i) ==
  /\ queue > 0
  /\ queue' = queue - 1 /\ wst' = [wst EXCEPT ![w] = "fresh"]
  /\ idle' = i /\ UNCHANGED <<total, dropper>>

\* Mutant: a worker that exits tells nobody.
TurnExitSilent(w, i) ==
  /\ queue = 0 /\ closed
  /\ total' = total - 1 /\ wst' = [wst EXCEPT ![w] = "none"]
  /\ idle' = i /\ UNCHANGED <<queue, dropper>>

\* Mutant: a worker of a closed pool leaves whatever is queued.
TurnExitEager(w, i) ==
  /\ closed
  /\ total' = total - 1
  /\ wst' = NotifyAll([wst EXCEPT ![w] = "none"]) /\ dropper' = DropperHears
  /\ idle' = i /\ UNCHANGED queue

TurnExit(w, i) ==
  /\ queue = 0 /\ closed
  /\ total' = total - 1
  /\ wst' = NotifyAll([wst EXCEPT ![w] = "none"]) /\ dropper' = DropperHears
  /\ idle' = i /\ UNCHANGED queue

TurnPark(w, i) ==
  /\ queue = 0 /\ ~closed
  /\ idle' = i + 1 /\ wst' = [wst EXCEPT ![w] = ParkAs]
  /\ UNCHANGED <<queue, total, dropper>>

\* The outer loop of worker_loop, entered with i workers idle: pop and run a
\* job, leave a closed pool, or park.
Turn(w, i) == TurnRun(w, i) \/ TurnExit(w, i) \/ TurnPark(w, i)

outside == <<built, closed, cool, recheck, made, sub, flushVars, loopVars>>

WorkerStart(w) ==
  /\ wst[w] = "start"
  /\ Turn(w, idle)
  /\ UNCHANGED <<outside, notify>>

\* A job returned, or its panic was caught.
Finish(w) ==
  /\ w \in Running
  /\ Turn(w, idle)
  /\ UNCHANGED <<outside, notify>>

\* The job has run for OFFLOAD_BLOCKED_AFTER.
Age(w) ==
  /\ wst[w] = "fresh"
  /\ wst' = [wst EXCEPT ![w] = "stale"]
  /\ UNCHANGED <<outside, inner, dropper>>

\* A condition variable may wake spuriously.
Spurious(w) ==
  /\ w \in Parked
  /\ wst' = [wst EXCEPT ![w] = "woken"]
  /\ UNCHANGED <<outside, inner, dropper>>

Timeout(w) ==
  /\ wst[w] = "timed"
  /\ wst' = [wst EXCEPT ![w] = "expired"]
  /\ UNCHANGED <<outside, inner, dropper>>

\* Mutant: a worker that was claimed gives up its place among the idle again.
ClaimedLeavesIdle(w) ==
  /\ wst[w] \in {"woken", "expired"}
  /\ notify > 0
  /\ notify' = notify - 1
  /\ Turn(w, idle - 1)
  /\ UNCHANGED outside

\* The inner loop, back from the wait: claimed by a flush (the claim already
\* took it off the idle) ...
Claimed(w) ==
  /\ wst[w] \in {"woken", "expired"}
  /\ notify > 0
  /\ notify' = notify - 1
  /\ Turn(w, idle)
  /\ UNCHANGED outside

\* ... or not claimed, with a job queued or the pool closed ...
Unclaimed(w) ==
  /\ wst[w] \in {"woken", "expired"}
  /\ notify = 0 /\ (queue > 0 \/ closed)
  /\ Turn(w, idle - 1)
  /\ UNCHANGED <<outside, notify>>

\* Mutant: the retire looks at the timeout only.
RetireBelowFloor(w) ==
  /\ wst[w] = "expired"
  /\ notify = 0 /\ queue = 0 /\ ~closed
  /\ idle' = idle - 1 /\ total' = total - 1
  /\ wst' = NotifyAll([wst EXCEPT ![w] = "none"]) /\ dropper' = DropperHears
  /\ UNCHANGED <<outside, queue, notify>>

\* ... or timed out above the floor, and it retires ...
Retire(w) ==
  /\ wst[w] = "expired"
  /\ notify = 0 /\ queue = 0 /\ ~closed /\ total > Floor
  /\ idle' = idle - 1 /\ total' = total - 1
  /\ wst' = NotifyAll([wst EXCEPT ![w] = "none"]) /\ dropper' = DropperHears
  /\ UNCHANGED <<outside, queue, notify>>

\* ... or nothing of these, and it waits again.
WaitAgain(w) ==
  /\ wst[w] \in {"woken", "expired"}
  /\ notify = 0 /\ queue = 0 /\ ~closed
  /\ ~(wst[w] = "expired" /\ total > Floor)
  /\ wst' = [wst EXCEPT ![w] = ParkAs]
  /\ UNCHANGED <<outside, inner, dropper>>

Worker(w) == WorkerStart(w) \/ Claimed(w) \/ Unclaimed(w) \/ Retire(w) \/ WaitAgain(w)

(***************************************************************************)
(* enqueue and flush.                                                      *)
(***************************************************************************)
\* SharedPool::enqueue.  The first job builds the pool; when the threads do
\* not start, or did not within the back-off, the job runs on the caller.
Enqueue ==
  /\ made < MaxJobs /\ made' = made + 1
  /\ \/ /\ built
        /\ queue' = IF closed THEN queue ELSE queue + 1
        /\ UNCHANGED <<built, total, wst>>
     \/ /\ ~built
        /\ built' = TRUE /\ queue' = 1 /\ total' = Floor
        /\ \E S \in SUBSET Workers :
             /\ Cardinality(S) = Floor
             /\ wst' = [w \in Workers |-> IF w \in S THEN "start" ELSE wst[w]]
     \/ ~built /\ UNCHANGED <<built, queue, total, wst>>

CeilDiv(a, b) == (a + b - 1) \div b
Lesser(a, b)  == IF a < b THEN a ELSE b

\* The batch rule: a parked worker per JOBS_PER_WAKE of n jobs.
Batch(n) == CeilDiv(n, JobsPerWake)

\* The stall rule: how many workers it wants when nobody is coming and nobody
\* progresses, with nt workers claimed.
Want(nt) ==
  IF nt = 0 /\ In({"fresh"}) = {} /\ queue > 0
  THEN IF Running = {} THEN Batch(queue) ELSE queue
  ELSE 0

\* Mutant: a worker on its way is taken for a reason not to look again.
NextCheckTrustsClaimed(nt, tot) ==
  queue > nt /\ nt = 0 /\ (In({"fresh"}) # {} \/ tot < Ceiling)

\* next_check, under nt claimed workers of tot: is there a deadline?
NextCheck(nt, tot) ==
  queue > nt /\ (nt > 0 \/ In({"fresh"}) # {} \/ tot < Ceiling)

\* A flush grows the pool by at most one worker, within ceiling and cool-down.
MaySpawn(saturated) == saturated /\ total < Ceiling /\ ~cool

\* Mutant: only the batch rule's workers are notified.
WakesForgetsRecruits(batch, recruited) == batch
\* The notify_one calls a flush owes for the workers it claimed.
Wakes(batch, recruited) == batch + recruited

\* WorkerPool::flush(n), the part under the mutex; its notify_one calls follow.
\* Spawning a thread may fail: the slot stays claimed for the cool-down.
Flush(t, n) ==
  LET batch     == Lesser(Batch(n), idle)
      recruited == Lesser(Want(notify + batch), idle - batch)
      saturated == Batch(n) > idle \/ Want(notify + batch) > recruited
      wakes     == batch + recruited
  IN /\ idle' = idle - wakes /\ notify' = notify + wakes
     /\ \/ /\ MaySpawn(saturated) /\ cool' = TRUE
           /\ \/ \E w \in In({"none"}) : wst' = [wst EXCEPT ![w] = "start"] /\ total' = total + 1
              \/ UNCHANGED <<wst, total>>
        \/ ~MaySpawn(saturated) /\ UNCHANGED <<cool, wst, total>>
     /\ recheck' = IF NextCheck(notify + wakes, total') THEN "set" ELSE "none"
     /\ next' = [next EXCEPT ![t] = NextCheck(notify + wakes, total')]
     /\ todo' = [todo EXCEPT ![t] = Wakes(batch, recruited)]

\* The notify_one calls, after the mutex is released.
NotifyOne(t) ==
  /\ todo[t] > 0
  /\ todo' = [todo EXCEPT ![t] = @ - 1]
  /\ \/ \E w \in Parked : wst' = [wst EXCEPT ![w] = "woken"]
     \/ Parked = {} /\ UNCHANGED wst
  /\ UNCHANGED <<built, inner, cool, recheck, made, sub, next, loopVars, dropper>>

\* SharedPool::submit off the loop: enqueue, flush(1), poke for a deadline.
Submit(s) ==
  /\ sub[s] = "idle" /\ dropper = "none"
  /\ Enqueue
  /\ sub' = [sub EXCEPT ![s] = "queued"]
  /\ UNCHANGED <<idle, notify, closed, cool, recheck, flushVars, loopVars, dropper>>

SubmitFlush(s) ==
  /\ sub[s] = "queued"
  /\ sub' = [sub EXCEPT ![s] = "notify"]
  /\ \/ built /\ Flush(s, 1)
     \/ ~built /\ UNCHANGED <<idle, notify, total, cool, recheck, wst, flushVars>>
  /\ UNCHANGED <<built, queue, closed, made, loopVars, dropper>>

SubmitPoke(s) ==
  /\ sub[s] = "notify" /\ todo[s] = 0
  /\ sub' = [sub EXCEPT ![s] = "idle"]
  /\ poked' = (poked \/ next[s])
  /\ next' = [next EXCEPT ![s] = FALSE]
  /\ UNCHANGED <<built, inner, cool, recheck, wst, made, todo, loop, pending, dropper>>

(***************************************************************************)
(* The reactor's loop, as far as it drives the pool.                       *)
(***************************************************************************)
LoopEnqueue ==
  /\ loop = "run"
  /\ Enqueue
  /\ pending' = pending + 1
  /\ UNCHANGED <<idle, notify, closed, cool, recheck, sub, flushVars, loop, poked, dropper>>

\* flush_offloads at the loop's head: flush for the jobs queued this turn, or
\* because the published deadline is due ...
LoopFlush ==
  /\ loop = "run" /\ built /\ (pending > 0 \/ recheck = "due")
  /\ Flush(Loop, pending)
  /\ pending' = 0 /\ loop' = "notify"
  /\ UNCHANGED <<built, queue, closed, made, sub, poked, dropper>>

\* Mutant: a deadline another thread published does not bound the sleep.
LoopNoFlushUnbounded ==
  /\ loop = "run" /\ (built => pending = 0 /\ recheck # "due")
  /\ pending' = 0 /\ loop' = "notify"
  /\ UNCHANGED <<built, inner, cool, recheck, wst, made, sub, flushVars, poked, dropper>>

\* ... or not, with the deadline, if one is set, bounding the sleep.
LoopNoFlush ==
  /\ loop = "run" /\ (built => pending = 0 /\ recheck # "due")
  /\ next' = [next EXCEPT ![Loop] = recheck = "set"]
  /\ pending' = 0 /\ loop' = "notify"
  /\ UNCHANGED <<built, inner, cool, recheck, wst, made, sub, todo, poked, dropper>>

\* The loop sleeps in io_uring_enter, or this was the stop's last flush.
LoopSleep ==
  /\ loop = "notify" /\ todo[Loop] = 0
  /\ loop' \in {"sleep", "done"}
  /\ UNCHANGED <<built, inner, cool, recheck, wst, made, sub, flushVars, pending, poked, dropper>>

LoopWake ==
  /\ loop = "sleep"
  /\ loop' = "run" /\ poked' = FALSE /\ next' = [next EXCEPT ![Loop] = FALSE]
  /\ UNCHANGED <<built, inner, cool, recheck, wst, made, sub, todo, pending, dropper>>

\* The clock: the published deadline passes, the cool-down ends.
Due ==
  /\ recheck = "set" /\ recheck' = "due"
  /\ UNCHANGED <<built, inner, cool, wst, made, sub, flushVars, loopVars, dropper>>

CooledDown ==
  /\ cool /\ cool' = FALSE
  /\ UNCHANGED <<built, inner, recheck, wst, made, sub, flushVars, loopVars, dropper>>

(***************************************************************************)
(* WorkerPool::drop, when the last handle goes: on the owner's thread, or  *)
(* on a worker whose job held it.                                          *)
(***************************************************************************)
LastHandle == built /\ dropper = "none" /\ loop = "done" /\ \A s \in Submitters : sub[s] = "idle"

Drop ==
  /\ LastHandle
  /\ closed' = TRUE /\ wst' = NotifyAll(wst)
  /\ dropper' = IF total > 0 THEN "wait" ELSE "returned"
  /\ UNCHANGED <<built, queue, total, idle, notify, cool, recheck, made, sub, flushVars, loopVars>>

DropOnWorker(w) ==
  /\ LastHandle /\ w \in Running
  /\ closed' = TRUE /\ wst' = NotifyAll(wst)
  /\ dropper' = "returned"
  /\ UNCHANGED <<built, queue, total, idle, notify, cool, recheck, made, sub, flushVars, loopVars>>

\* Woken: the wait goes on while a worker lives.
DropWoken ==
  /\ dropper = "woken"
  /\ dropper' = IF total > 0 THEN "wait" ELSE "returned"
  /\ UNCHANGED <<outside, inner, wst>>

\* SHUTDOWN_DETACH_AFTER: the workers are left to exit on their own.
DropDetach ==
  /\ dropper = "wait"
  /\ dropper' = "returned"
  /\ UNCHANGED <<outside, inner, wst>>

Next ==
  \/ \E w \in Workers : \/ Worker(w) \/ Finish(w) \/ Age(w) \/ Spurious(w) \/ Timeout(w)
                        \/ DropOnWorker(w)
  \/ \E s \in Submitters : Submit(s) \/ SubmitFlush(s) \/ SubmitPoke(s)
  \/ \E t \in Flushers : NotifyOne(t)
  \/ LoopEnqueue \/ LoopFlush \/ LoopNoFlush \/ LoopSleep \/ LoopWake
  \/ Due \/ CooledDown
  \/ Drop \/ DropWoken \/ DropDetach

Spec == Init /\ [][Next]_vars

\* A thread inside a call finishes it, the clock runs, a poked loop or one
\* whose deadline passed comes back, a thread that is tried again and again
\* does start, and a timeout is not for ever pre-empted by spurious wake-ups.
LoopGrows == LoopFlush /\ total' > total
Fairness ==
  /\ \A w \in Workers : WF_vars(Worker(w)) /\ WF_vars(Age(w)) /\ SF_vars(Timeout(w))
  /\ \A s \in Submitters : WF_vars(SubmitFlush(s) \/ SubmitPoke(s))
  /\ \A t \in Flushers : WF_vars(NotifyOne(t))
  /\ WF_vars(LoopFlush \/ LoopNoFlush) /\ WF_vars(LoopSleep)
  /\ SF_vars(LoopGrows)
  /\ WF_vars((poked \/ next[Loop]) /\ LoopWake)
  /\ WF_vars(Due) /\ WF_vars(CooledDown) /\ WF_vars(DropWoken)

\* Jobs may block for ever.
FairSpec == Spec /\ Fairness

(***************************************************************************)
(* Properties.                                                             *)
(***************************************************************************)
\* The type of every variable of the pool and of the threads around it.
TypeOK ==
  /\ built \in BOOLEAN /\ closed \in BOOLEAN /\ cool \in BOOLEAN
  /\ queue \in Nat /\ total \in Nat /\ idle \in Nat /\ notify \in Nat
  /\ recheck \in {"none", "set", "due"}
  /\ wst \in [Workers -> {"none", "start", "fresh", "stale", "wait", "timed", "woken", "expired"}]
  /\ made \in Nat
  /\ sub \in [Submitters -> {"idle", "queued", "notify"}]
  /\ todo \in [Flushers -> Nat] /\ next \in [Flushers -> BOOLEAN]
  /\ loop \in {"run", "notify", "sleep", "done"} /\ pending \in Nat /\ poked \in BOOLEAN
  /\ dropper \in {"none", "wait", "woken", "returned"}

\* PoolInner's counters are what the threads are: idle and notify share out the
\* workers in the wait, so claim and the retire never take one below zero, and
\* total is the workers alive, which WorkerPool::drop waits on.
Accounting ==
  /\ idle + notify = Cardinality(Waiting)
  /\ total = Cardinality(Alive)

\* Retiring burst workers never takes the pool below its floor, however many
\* time out together, and growth never takes it past its ceiling.
WithinBounds == built /\ ~closed => Floor <= total /\ total <= Ceiling

\* The pool's bookkeeping (PoolInner): every variable keeps its type, the
\* counters are what the threads are, and the pool stays between its floor and
\* its ceiling.
PoolExact == TypeOK /\ Accounting /\ WithinBounds

\* Every enqueue has been followed by its flush.
Flushed == pending = 0 /\ \A s \in Submitters : sub[s] # "queued"

\* A job nobody was claimed for has a deadline published to look again, unless
\* the pool is at its ceiling with nobody parked (flush's stall rule against
\* workers blocked in their jobs).
NotStranded ==
  Flushed /\ ~closed => \/ queue <= notify
                        \/ recheck # "none"
                        \/ total = Ceiling /\ idle = 0

\* Jobs queued when the pool is dropped are run before its last worker leaves.
DrainedOnDrop == closed /\ total = 0 => queue = 0

\* The notify_one calls still to come.
Coming == UNION {{t} \X (1 .. todo[t]) : t \in Flushers}

\* A claimed worker is never left asleep (flush: claim under the mutex,
\* notify_one after it): each claim has a worker already woken, or a
\* notify_one still to come.
ClaimsReach == notify <= Cardinality(In({"woken", "expired"})) + Cardinality(Coming)

\* No job is left behind (flush, worker_loop, WorkerPool::drop): one that has no
\* worker has a time to look again, a claim reaches its worker, and a dropped
\* pool runs what was queued.
JobsReached == NotStranded /\ ClaimsReach /\ DrainedOnDrop

(***************************************************************************)
(* The inductive strengthening of PoolExact and JobsReached.               *)
(***************************************************************************)
\* A pool that is not built has no threads, and no jobs.
Unbuilt ==
  ~built => /\ queue = 0 /\ total = 0 /\ idle = 0 /\ notify = 0 /\ ~closed
            /\ \A w \in Workers : wst[w] = "none"

\* Only a flusher past its flush has calls to make.
TodoOwned ==
  /\ \A s \in Submitters : sub[s] # "notify" => todo[s] = 0
  /\ loop # "notify" => todo[Loop] = 0

PoolInv == PoolExact /\ JobsReached /\ Unbuilt /\ TodoOwned

\* With jobs that may block for ever: a queued job is taken, or ends up behind
\* a pool at its ceiling with every worker in a job, while the loop runs.
Saturated == total = Ceiling /\ Running = Alive
JobTaken == queue > 0 ~> (queue = 0 \/ Saturated \/ loop = "done")

JobsReturn == \A w \in Workers : WF_vars(Finish(w))

\* With jobs that return, a drop on the owner's thread does: the last exit of a
\* worker reaches it, without the detach timeout.
DropReturns == JobsReturn => (dropper \in {"wait", "woken"} ~> dropper = "returned")

\* With jobs that return, a pool nobody submits to shrinks back to its floor.
ShrinksBack == JobsReturn => <>[](total <= Floor)

\* What a pool with jobs that return comes to: its drop does, and it shrinks.
PoolReturns == DropReturns /\ ShrinksBack
==============================================================================
