------------------------- MODULE OffloadPoolProofs --------------------------
(***************************************************************************)
(* Proofs about OffloadPool: its counters, its bounds and the reach of its *)
(* claims, for any number of workers, submitters and jobs.                 *)
(***************************************************************************)
EXTENDS OffloadPoolWorkers

(***************************************************************************)
(* The loop, the clock and the submitters between their calls.             *)
(***************************************************************************)
\* What is left for a step that changes neither workers nor jobs.
LEMMA ControlKeeps ==
  ASSUME PoolInv, UNCHANGED <<built, inner, wst, todo>>, TypeOK', TodoOwned', NotStranded'
  PROVE  PoolInv'
<1>1. TypeOK /\ Accounting /\ ClaimsReach BY DEF PoolInv, PoolExact, JobsReached
<1>2. UNCHANGED <<built, queue, total, idle, notify, closed, wst, todo>> BY DEF inner
<1>3. Count(wst', InWait) = Num(InWait) /\ Count(wst', Living) = Num(Living) BY <1>2 DEF Num
<1>4. Accounting' BY <1>1, <1>2, <1>3, AccountIs, AccountNext
<1>5. ClaimsReach' BY <1>1, <1>2, ClaimsIs, ClaimsNext DEF Num
<1>6. WithinBounds' /\ DrainedOnDrop' /\ Unbuilt'
  BY <1>2 DEF PoolInv, PoolExact, JobsReached, WithinBounds, DrainedOnDrop, Unbuilt
<1> QED BY <1>4, <1>5, <1>6 DEF PoolInv, PoolExact, JobsReached

\* The loop's places, its pokes and the clock.
LEMMA LoopStep ==
  ASSUME PoolInv, LoopNoFlush \/ LoopSleep \/ LoopWake \/ Due \/ CooledDown
  PROVE  PoolInv'
<1>1. TypeOK /\ TodoOwned /\ NotStranded /\ Unbuilt BY DEF PoolInv, PoolExact, JobsReached
<1>2. Loop \in Flushers BY DEF Flushers
<1>3. CASE LoopNoFlush
  <2>1. /\ UNCHANGED <<built, inner, wst, todo, closed, queue, notify, recheck, total, idle, sub>>
        /\ loop = "run" /\ loop' = "notify" /\ pending' = 0
        /\ built => pending = 0
    BY <1>3 DEF LoopNoFlush, inner
  <2>2. TypeOK' BY <1>1, <1>2, <1>3 DEF TypeOK, LoopNoFlush, inner
  <2>3. TodoOwned' BY <1>1, <2>1 DEF TodoOwned
  <2>4. NotStranded'
    <3>1. CASE built
      <4>1. Flushed' => Flushed BY <2>1, <3>1 DEF Flushed
      <4> QED BY <1>1, <2>1, <4>1 DEF NotStranded
    <3>2. CASE ~built
      <4>1. queue' = 0 /\ notify' = 0 BY <1>1, <2>1, <3>2 DEF Unbuilt
      <4> QED BY <4>1 DEF NotStranded
    <3> QED BY <3>1, <3>2
  <2> QED BY <2>1, <2>2, <2>3, <2>4, ControlKeeps
<1>4. CASE LoopSleep
  <2>1. TypeOK' BY <1>1, <1>4 DEF TypeOK, LoopSleep, inner, flushVars
  <2>2. TodoOwned' BY <1>1, <1>4 DEF TodoOwned, LoopSleep, flushVars
  <2>3. NotStranded' BY <1>1, <1>4 DEF NotStranded, Flushed, LoopSleep, inner
  <2>4. UNCHANGED <<built, inner, wst, todo>> BY <1>4 DEF LoopSleep, flushVars
  <2> QED BY <2>1, <2>2, <2>3, <2>4, ControlKeeps
<1>5. CASE LoopWake
  <2>1. TypeOK' BY <1>1, <1>2, <1>5 DEF TypeOK, LoopWake, inner
  <2>2. TodoOwned' BY <1>1, <1>5 DEF TodoOwned, LoopWake
  <2>3. NotStranded' BY <1>1, <1>5 DEF NotStranded, Flushed, LoopWake, inner
  <2>4. UNCHANGED <<built, inner, wst, todo>> BY <1>5 DEF LoopWake
  <2> QED BY <2>1, <2>2, <2>3, <2>4, ControlKeeps
<1>6. CASE Due
  <2>1. TypeOK' BY <1>1, <1>6 DEF TypeOK, Due, inner, flushVars, loopVars
  <2>2. TodoOwned' BY <1>1, <1>6 DEF TodoOwned, Due, flushVars, loopVars
  <2>3. NotStranded' BY <1>6 DEF NotStranded, Due
  <2>4. UNCHANGED <<built, inner, wst, todo>> BY <1>6 DEF Due, flushVars
  <2> QED BY <2>1, <2>2, <2>3, <2>4, ControlKeeps
<1>7. CASE CooledDown
  <2>1. TypeOK' BY <1>1, <1>7 DEF TypeOK, CooledDown, inner, flushVars, loopVars
  <2>2. TodoOwned' BY <1>1, <1>7 DEF TodoOwned, CooledDown, flushVars, loopVars
  <2>3. NotStranded' BY <1>1, <1>7 DEF NotStranded, Flushed, CooledDown, inner, loopVars
  <2>4. UNCHANGED <<built, inner, wst, todo>> BY <1>7 DEF CooledDown, flushVars
  <2> QED BY <2>1, <2>2, <2>3, <2>4, ControlKeeps
<1> QED BY <1>3, <1>4, <1>5, <1>6, <1>7

\* A submitter that leaves its call has made its notify_one calls.
LEMMA PokeStep == ASSUME PoolInv, NEW s \in Submitters, SubmitPoke(s) PROVE PoolInv'
<1>1. TypeOK /\ TodoOwned /\ NotStranded BY DEF PoolInv, PoolExact, JobsReached
<1>2. /\ sub[s] = "notify" /\ todo[s] = 0 /\ sub' = [sub EXCEPT ![s] = "idle"]
      /\ poked' = (poked \/ next[s]) /\ next' = [next EXCEPT ![s] = FALSE]
      /\ UNCHANGED <<built, inner, cool, recheck, wst, made, todo, loop, pending, dropper>>
  BY DEF SubmitPoke
<1>3. s \in Flushers BY DEF Flushers
<1>4. sub \in [Submitters -> {"idle", "queued", "notify"}] /\ next \in [Flushers -> BOOLEAN]
  BY <1>1 DEF TypeOK
<1>5. /\ sub' \in [Submitters -> {"idle", "queued", "notify"}] /\ sub'[s] = "idle"
      /\ \A r \in Submitters : r # s => sub'[r] = sub[r]
  BY <1>2, <1>4
<1>6. poked' \in BOOLEAN /\ next' \in [Flushers -> BOOLEAN] BY <1>1, <1>2, <1>3, <1>4 DEF TypeOK
<1>7. TypeOK' BY <1>1, <1>2, <1>5, <1>6 DEF TypeOK, inner
<1>8. TodoOwned' BY <1>1, <1>2, <1>5 DEF TodoOwned
<1>9. NotStranded'
  <2>1. Flushed' => Flushed BY <1>2, <1>5 DEF Flushed
  <2> QED BY <1>1, <1>2, <2>1 DEF NotStranded, inner
<1> QED BY <1>2, <1>7, <1>8, <1>9, ControlKeeps

\* A notify_one wakes a parked worker, or finds that every one in the wait is
\* back from it.
LEMMA NotifyStep == ASSUME PoolInv, NEW t \in Flushers, NotifyOne(t) PROVE PoolInv'
<1>1. TypeOK /\ Accounting /\ TodoOwned /\ NotStranded /\ ClaimsReach BY DEF PoolInv, PoolExact, JobsReached
<1>2. /\ todo[t] > 0 /\ todo' = [todo EXCEPT ![t] = @ - 1]
      /\ UNCHANGED <<built, inner, cool, recheck, made, sub, next, loop, pending, poked, dropper>>
  BY DEF NotifyOne, loopVars
<1>3. UNCHANGED <<queue, total, idle, notify, closed>> BY <1>2 DEF inner
<1>4. wst \in [Workers -> WorkerStates] /\ todo \in [Flushers -> Nat] BY <1>1 DEF TypeOK, WorkerStates
<1>5. /\ todo' \in [Flushers -> Nat] /\ \A u \in Flushers : todo[u] = 0 => todo'[u] = 0
  BY <1>2, <1>4
<1>6. Cardinality(CallsOf(todo')) = Cardinality(CallsOf(todo)) - 1 BY <1>2, <1>4, CallsTaken
<1>7. Cardinality(CallsOf(todo)) \in Nat /\ Cardinality(CallsOf(todo')) \in Nat BY <1>4, <1>5, CallsFinite
<1>8. Num(InWait) \in Nat /\ Num(Living) \in Nat /\ Num(Back) \in Nat /\ notify \in Nat /\ idle \in Nat
  BY <1>1, NumType DEF TypeOK
<1>9. idle + notify = Num(InWait) /\ total = Num(Living) BY <1>1, AccountIs
<1>10. notify <= Num(Back) + Cardinality(CallsOf(todo)) BY <1>1, ClaimsIs
<1>11. /\ wst' \in [Workers -> WorkerStates]
       /\ Count(wst', InWait) = Num(InWait) /\ Count(wst', Living) = Num(Living)
       /\ notify <= Count(wst', Back) + Cardinality(CallsOf(todo'))
       /\ built \/ UNCHANGED wst
  <2>1. CASE Parked = {} /\ UNCHANGED wst
    <3>1. \A v \in Workers : wst[v] \in InWait => wst'[v] \in Back
      BY <2>1 DEF Parked, In, InWait, Back
    <3>2. \A v \in Workers : wst'[v] \in Back => wst[v] \in InWait BY <2>1 DEF InWait, Back
    <3>3. {v \in Workers : wst'[v] \in Back} = {v \in Workers : wst[v] \in InWait} BY <3>1, <3>2
    <3>4. Count(wst', Back) = Num(InWait) BY <3>3 DEF Count, Num
    <3> QED BY <1>4, <1>7, <1>8, <1>9, <2>1, <3>4 DEF Num
  <2>2. CASE \E w \in Parked : wst' = [wst EXCEPT ![w] = "woken"]
    <3>1. PICK w \in Parked : wst' = [wst EXCEPT ![w] = "woken"] BY <2>2
    <3>2. w \in Workers /\ wst[w] \in {"wait", "timed"} BY DEF Parked, In
    <3>3. /\ wst' \in [Workers -> WorkerStates] /\ wst'[w] = "woken"
          /\ \A v \in Workers : v # w => wst'[v] = wst[v]
      BY <1>4, <3>1, <3>2 DEF WorkerStates
    <3>4. Count(wst', InWait) = Num(InWait) - Has(wst[w], InWait) + Has(wst'[w], InWait)
      BY <3>2, <3>3, MoveOne DEF Num
    <3>5. Count(wst', Living) = Num(Living) - Has(wst[w], Living) + Has(wst'[w], Living)
      BY <3>2, <3>3, MoveOne DEF Num
    <3>6. Count(wst', Back) = Num(Back) - Has(wst[w], Back) + Has(wst'[w], Back)
      BY <3>2, <3>3, MoveOne DEF Num
    <3>7. /\ Has(wst[w], InWait) = 1 /\ Has(wst'[w], InWait) = 1
          /\ Has(wst[w], Living) = 1 /\ Has(wst'[w], Living) = 1
          /\ Has(wst[w], Back) = 0 /\ Has(wst'[w], Back) = 1
      BY <3>2, <3>3 DEF Has, InWait, Living, Back
    <3>8. Count(wst', InWait) = Num(InWait) /\ Count(wst', Living) = Num(Living) /\ Count(wst', Back) = Num(Back) + 1
      BY <1>8, <3>4, <3>5, <3>6, <3>7
    <3>9. built BY <3>2 DEF PoolInv, Unbuilt
    <3> QED BY <1>6, <1>7, <1>8, <1>10, <3>3, <3>8, <3>9
  <2> QED BY <2>1, <2>2 DEF NotifyOne
<1>12. TypeOK' BY <1>1, <1>2, <1>3, <1>5, <1>11 DEF TypeOK, WorkerStates
<1>13. Accounting' BY <1>3, <1>9, <1>11, <1>12, AccountNext
<1>14. ClaimsReach' BY <1>3, <1>11, ClaimsNext
<1>15. NotStranded' BY <1>1, <1>2, <1>3 DEF NotStranded, Flushed
<1>16. WithinBounds' /\ DrainedOnDrop'
  BY <1>2, <1>3 DEF PoolInv, PoolExact, JobsReached, WithinBounds, DrainedOnDrop
<1>17. Unbuilt' BY <1>2, <1>3, <1>11 DEF PoolInv, Unbuilt
<1>18. TodoOwned' BY <1>1, <1>2, <1>5 DEF TodoOwned, Flushers
<1> QED BY <1>12, <1>13, <1>14, <1>15, <1>16, <1>17, <1>18 DEF PoolInv, PoolExact, JobsReached

(***************************************************************************)
(* Enqueue.                                                                *)
(***************************************************************************)
\* What an enqueue does, by whoever makes it: the first builds a floor of workers.
LEMMA Enqueued ==
  ASSUME PoolInv, Enqueue, UNCHANGED <<idle, notify, closed>>
  PROVE  /\ queue' \in Nat /\ total' \in Nat /\ made' \in Nat /\ built' \in BOOLEAN
         /\ wst' \in [Workers -> WorkerStates]
         /\ idle' + notify' = Count(wst', InWait) /\ total' = Count(wst', Living)
         /\ Count(wst', Back) = Num(Back)
         /\ WithinBounds' /\ DrainedOnDrop' /\ Unbuilt'
<1>1. TypeOK /\ Accounting /\ WithinBounds /\ DrainedOnDrop /\ Unbuilt
  BY DEF PoolInv, PoolExact, JobsReached
<1>2. /\ wst \in [Workers -> WorkerStates] /\ queue \in Nat /\ total \in Nat /\ made \in Nat
      /\ built \in BOOLEAN /\ idle \in Nat /\ notify \in Nat
  BY <1>1 DEF TypeOK, WorkerStates
<1>3. idle + notify = Num(InWait) /\ total = Num(Living) BY <1>1, AccountIs
<1>4. made' \in Nat BY <1>2 DEF Enqueue
<1>5. CASE built /\ queue' = (IF closed THEN queue ELSE queue + 1) /\ UNCHANGED <<built, total, wst>>
  <2>1. queue' \in Nat BY <1>2, <1>5
  <2>2. WithinBounds' /\ DrainedOnDrop' /\ Unbuilt'
    BY <1>1, <1>5 DEF WithinBounds, DrainedOnDrop, Unbuilt
  <2> QED BY <1>2, <1>3, <1>4, <1>5, <2>1, <2>2 DEF Num
<1>6. CASE ~built /\ UNCHANGED <<built, queue, total, wst>>
  <2>1. WithinBounds' /\ DrainedOnDrop' /\ Unbuilt'
    BY <1>1, <1>6 DEF WithinBounds, DrainedOnDrop, Unbuilt
  <2> QED BY <1>2, <1>3, <1>4, <1>6, <2>1 DEF Num
<1>7. ASSUME ~built, built' = TRUE, queue' = 1, total' = Floor,
             NEW S \in SUBSET Workers, Cardinality(S) = Floor,
             wst' = [w \in Workers |-> IF w \in S THEN "start" ELSE wst[w]]
      PROVE  /\ queue' \in Nat /\ total' \in Nat /\ built' \in BOOLEAN
             /\ wst' \in [Workers -> WorkerStates]
             /\ idle' + notify' = Count(wst', InWait) /\ total' = Count(wst', Living)
             /\ Count(wst', Back) = Num(Back)
             /\ WithinBounds' /\ DrainedOnDrop' /\ Unbuilt'
  <2>1. idle = 0 /\ notify = 0 /\ ~closed /\ \A w \in Workers : wst[w] = "none" BY <1>1, <1>7 DEF Unbuilt
  <2>2. /\ wst' \in [Workers -> WorkerStates]
        /\ \A w \in Workers : wst'[w] = IF w \in S THEN "start" ELSE "none"
    BY <1>7, <2>1 DEF WorkerStates
  <2>3. {v \in Workers : wst'[v] \in InWait} = {} BY <2>2 DEF InWait
  <2>4. {v \in Workers : wst'[v] \in Living} = S BY <2>2 DEF Living
  <2>5. {v \in Workers : wst'[v] \in Back} = {} BY <2>2 DEF Back
  <2>6. {v \in Workers : wst[v] \in Back} = {} BY <2>1 DEF Back
  <2>7. Count(wst', InWait) = 0 /\ Count(wst', Back) = 0 /\ Num(Back) = 0
    BY <2>3, <2>5, <2>6, FS_EmptySet DEF Count, Num
  <2>8. Count(wst', Living) = Floor BY <1>7, <2>4 DEF Count
  <2>9. Floor \in Nat /\ Floor # 0 /\ Ceiling \in Nat /\ Floor <= Ceiling BY PoolAssumption
  <2>10. WithinBounds' /\ DrainedOnDrop' /\ Unbuilt'
    BY <1>7, <2>1, <2>9 DEF WithinBounds, DrainedOnDrop, Unbuilt
  <2> QED BY <1>7, <2>1, <2>2, <2>7, <2>8, <2>9, <2>10
<1> QED BY <1>4, <1>5, <1>6, <1>7 DEF Enqueue

\* A job enqueued is not flushed yet, and its flush is owed by whoever enqueued it.
LEMMA EnqueueStep ==
  ASSUME PoolInv, LoopEnqueue \/ \E s \in Submitters : Submit(s)
  PROVE  PoolInv'
<1>1. TypeOK /\ ClaimsReach /\ TodoOwned BY DEF PoolInv, PoolExact, JobsReached
<1>2. /\ Enqueue /\ UNCHANGED <<idle, notify, closed, cool, recheck, todo, next, loop, poked, dropper>>
  BY DEF LoopEnqueue, Submit, flushVars, loopVars
<1>3. /\ queue' \in Nat /\ total' \in Nat /\ made' \in Nat /\ built' \in BOOLEAN
      /\ wst' \in [Workers -> WorkerStates]
      /\ idle' + notify' = Count(wst', InWait) /\ total' = Count(wst', Living)
      /\ Count(wst', Back) = Num(Back)
      /\ WithinBounds' /\ DrainedOnDrop' /\ Unbuilt'
  BY <1>2, Enqueued
<1>4. /\ sub' \in [Submitters -> {"idle", "queued", "notify"}] /\ pending' \in Nat /\ TodoOwned' /\ ~Flushed'
  <2>1. sub \in [Submitters -> {"idle", "queued", "notify"}] /\ pending \in Nat BY <1>1 DEF TypeOK
  <2>2. CASE LoopEnqueue
    <3>1. pending' = pending + 1 /\ sub' = sub BY <2>2 DEF LoopEnqueue
    <3> QED BY <1>1, <1>2, <2>1, <3>1 DEF Flushed, TodoOwned
  <2>3. ASSUME NEW s \in Submitters, Submit(s)
        PROVE  /\ sub' \in [Submitters -> {"idle", "queued", "notify"}] /\ pending' \in Nat
               /\ TodoOwned' /\ ~Flushed'
    <3>1. sub[s] = "idle" /\ sub' = [sub EXCEPT ![s] = "queued"] /\ pending' = pending
      BY <2>3 DEF Submit, loopVars
    <3>2. /\ sub' \in [Submitters -> {"idle", "queued", "notify"}] /\ sub'[s] = "queued"
          /\ \A r \in Submitters : r # s => sub'[r] = sub[r]
      BY <2>1, <3>1
    <3>3. ~Flushed' BY <3>2 DEF Flushed
    <3>4. TodoOwned' BY <1>1, <1>2, <3>1, <3>2 DEF TodoOwned
    <3> QED BY <2>1, <3>1, <3>2, <3>3, <3>4
  <2> QED BY <2>2, <2>3
<1>5. TypeOK' BY <1>1, <1>2, <1>3, <1>4 DEF TypeOK, WorkerStates
<1>6. Accounting' BY <1>3, <1>5, AccountNext
<1>7. ClaimsReach' BY <1>1, <1>2, <1>3, ClaimsIs, ClaimsNext
<1>8. NotStranded' BY <1>4 DEF NotStranded
<1> QED BY <1>3, <1>4, <1>5, <1>6, <1>7, <1>8 DEF PoolInv, PoolExact, JobsReached

(***************************************************************************)
(* Flush.                                                                  *)
(***************************************************************************)
\* The batch rule asks for somebody as soon as there is a job.
LEMMA BatchType == ASSUME NEW n \in Nat PROVE Batch(n) \in Nat /\ (n > 0 => Batch(n) >= 1)
<1>1. JobsPerWake \in Nat \ {0} BY PoolAssumption
<1>2. n + JobsPerWake - 1 \in Nat BY <1>1
<1>3. Batch(n) \in Nat BY <1>1, <1>2 DEF Batch, CeilDiv
<1>4. ASSUME n > 0 PROVE Batch(n) >= 1
  <2>1. JobsPerWake <= n + JobsPerWake - 1 BY <1>1, <1>4
  <2> QED BY <1>1, <1>2, <2>1 DEF Batch, CeilDiv
<1> QED BY <1>3, <1>4

\* The stall rule asks for somebody when nobody comes and nobody progresses.
LEMMA WantType ==
  ASSUME queue \in Nat, NEW nt \in Nat
  PROVE  /\ Want(nt) \in Nat
         /\ nt = 0 /\ In({"fresh"}) = {} /\ queue > 0 => Want(nt) >= 1
BY BatchType DEF Want

\* A flush for n jobs claims b workers by the batch rule and r by the stall rule.
Claim(n, b, r) == b = Lesser(Batch(n), idle) /\ r = Lesser(Want(notify + b), idle - b)

\* What a flush claims: no more than are idle, and somebody if it wants somebody
\* and anybody is.
LEMMA FlushClaims ==
  ASSUME queue \in Nat, idle \in Nat, notify \in Nat, NEW n \in Nat,
         NEW b, NEW r, Claim(n, b, r)
  PROVE  /\ b \in Nat /\ r \in Nat /\ b + r <= idle
         /\ notify + b + r = 0 /\ In({"fresh"}) = {} /\ queue > 0 => idle = 0
<1>1. Batch(n) \in Nat BY BatchType
<1>2. b \in Nat /\ b <= idle BY <1>1 DEF Lesser, Claim
<1>3. notify + b \in Nat BY <1>2
<1>4. /\ Want(notify + b) \in Nat
      /\ notify + b = 0 /\ In({"fresh"}) = {} /\ queue > 0 => Want(notify + b) >= 1
  BY <1>3, WantType
<1>5. r \in Nat /\ r <= idle - b BY <1>2, <1>4 DEF Lesser, Claim
<1>6. ASSUME notify + b + r = 0, In({"fresh"}) = {}, queue > 0 PROVE idle = 0
  <2>1. notify + b = 0 /\ b = 0 /\ r = 0 BY <1>2, <1>5, <1>6
  <2>2. Want(notify + b) >= 1 BY <1>4, <1>6, <2>1
  <2> QED BY <1>4, <2>1, <2>2 DEF Lesser, Claim
<1> QED BY <1>2, <1>5, <1>6

\* Growth: nobody, or one more of the workers that are not there.
Grown ==
  \/ UNCHANGED <<wst, total>>
  \/ /\ total < Ceiling /\ total' = total + 1
     /\ \E w \in In({"none"}) : wst' = [wst EXCEPT ![w] = "start"]

\* A grown pool's places.
LEMMA GrownCounts ==
  ASSUME TypeOK, Accounting, Grown
  PROVE  /\ wst' \in [Workers -> WorkerStates] /\ total' \in Nat /\ total' >= total
         /\ Count(wst', InWait) = Num(InWait) /\ Count(wst', Back) = Num(Back)
         /\ total' = Count(wst', Living)
<1>1. wst \in [Workers -> WorkerStates] /\ total \in Nat BY DEF TypeOK, WorkerStates
<1>2. total = Num(Living) BY AccountIs
<1>3. CASE UNCHANGED <<wst, total>> BY <1>1, <1>2, <1>3 DEF Num
<1>4. CASE total' = total + 1 /\ \E w \in In({"none"}) : wst' = [wst EXCEPT ![w] = "start"]
  <2>1. PICK w \in In({"none"}) : wst' = [wst EXCEPT ![w] = "start"] BY <1>4
  <2>2. w \in Workers /\ wst[w] = "none" BY DEF In
  <2>3. /\ wst' \in [Workers -> WorkerStates] /\ wst'[w] = "start"
        /\ \A v \in Workers : v # w => wst'[v] = wst[v]
    BY <1>1, <2>1, <2>2 DEF WorkerStates
  <2>4. Count(wst', InWait) = Num(InWait) - Has(wst[w], InWait) + Has(wst'[w], InWait)
    BY <2>2, <2>3, MoveOne DEF Num
  <2>5. Count(wst', Living) = Num(Living) - Has(wst[w], Living) + Has(wst'[w], Living)
    BY <2>2, <2>3, MoveOne DEF Num
  <2>6. Count(wst', Back) = Num(Back) - Has(wst[w], Back) + Has(wst'[w], Back)
    BY <2>2, <2>3, MoveOne DEF Num
  <2>7. /\ Has(wst[w], InWait) = 0 /\ Has(wst'[w], InWait) = 0
        /\ Has(wst[w], Living) = 0 /\ Has(wst'[w], Living) = 1
        /\ Has(wst[w], Back) = 0 /\ Has(wst'[w], Back) = 0
    BY <2>2, <2>3 DEF Has, InWait, Living, Back
  <2>8. Num(InWait) \in Nat /\ Num(Living) \in Nat /\ Num(Back) \in Nat BY NumType
  <2> QED BY <1>1, <1>2, <1>4, <2>3, <2>4, <2>5, <2>6, <2>7, <2>8
<1> QED BY <1>3, <1>4 DEF Grown

\* A flush, by whoever makes it, leaves no job without a worker to come or a time
\* to look again, and owes a notify_one for every claim.
LEMMA FlushKeeps ==
  ASSUME PoolInv, NEW t \in Flushers, NEW n \in Nat, todo[t] = 0, built, Flush(t, n),
         UNCHANGED <<built, queue, closed, made, poked, dropper>>,
         sub' \in [Submitters -> {"idle", "queued", "notify"}], pending' \in Nat,
         loop' \in {"run", "notify", "sleep", "done"},
         \A s \in Submitters : s # t /\ sub'[s] # "notify" => sub[s] # "notify",
         t # Loop /\ loop' # "notify" => loop # "notify",
         t \in Submitters => sub'[t] = "notify", t = Loop => loop' = "notify"
  PROVE  PoolInv'
<1>1. TypeOK /\ Accounting /\ WithinBounds /\ DrainedOnDrop /\ ClaimsReach /\ TodoOwned
  BY DEF PoolInv, PoolExact, JobsReached
<1>2. /\ idle \in Nat /\ notify \in Nat /\ queue \in Nat /\ total \in Nat /\ todo \in [Flushers -> Nat]
      /\ next \in [Flushers -> BOOLEAN] /\ cool \in BOOLEAN
  BY <1>1 DEF TypeOK
<1>3. PICK b, r :
        /\ Claim(n, b, r)
        /\ idle' = idle - (b + r) /\ notify' = notify + (b + r)
        /\ Grown /\ cool' \in BOOLEAN
        /\ recheck' = (IF NextCheck(notify + (b + r), total') THEN "set" ELSE "none")
        /\ next' = [next EXCEPT ![t] = NextCheck(notify + (b + r), total')]
        /\ todo' = [todo EXCEPT ![t] = b + r]
  <2> DEFINE b0 == Lesser(Batch(n), idle)  r0 == Lesser(Want(notify + b0), idle - b0)
  <2>1. Claim(n, b0, r0) BY DEF Claim
  <2>2. idle' = idle - (b0 + r0) /\ notify' = notify + (b0 + r0) BY DEF Flush
  <2>3. Grown /\ cool' \in BOOLEAN BY <1>2 DEF Flush, MaySpawn, Grown
  <2>4. /\ recheck' = (IF NextCheck(notify + (b0 + r0), total') THEN "set" ELSE "none")
        /\ next' = [next EXCEPT ![t] = NextCheck(notify + (b0 + r0), total')]
        /\ todo' = [todo EXCEPT ![t] = b0 + r0]
    BY DEF Flush, Wakes
  <2> HIDE DEF b0, r0
  <2> QED BY <2>1, <2>2, <2>3, <2>4
<1>4. /\ b \in Nat /\ r \in Nat /\ b + r <= idle
      /\ notify + b + r = 0 /\ In({"fresh"}) = {} /\ queue > 0 => idle = 0
  BY <1>2, <1>3, FlushClaims
<1>5. b + r \in Nat /\ idle' \in Nat /\ notify' \in Nat /\ idle' + notify' = idle + notify
  BY <1>2, <1>3, <1>4
<1>6. /\ wst' \in [Workers -> WorkerStates] /\ total' \in Nat /\ total' >= total
      /\ Count(wst', InWait) = Num(InWait) /\ Count(wst', Back) = Num(Back)
      /\ total' = Count(wst', Living)
  BY <1>1, <1>3, GrownCounts
<1>7. todo' \in [Flushers -> Nat] /\ \A u \in Flushers : u # t => todo'[u] = todo[u]
  BY <1>2, <1>3, <1>5
<1>8. next' \in [Flushers -> BOOLEAN] BY <1>2, <1>3 DEF NextCheck
<1>9. recheck' \in {"none", "set", "due"} BY <1>3
<1>10. TypeOK' BY <1>1, <1>3, <1>5, <1>6, <1>7, <1>8, <1>9 DEF TypeOK, WorkerStates
<1>11. Accounting'
  <2>1. idle' + notify' = Count(wst', InWait) BY <1>1, <1>5, <1>6, AccountIs
  <2> QED BY <1>6, <1>10, <2>1, AccountNext
<1>12. total' <= Ceiling BY <1>6, CountType
<1>13. Ceiling \in Nat /\ Floor \in Nat BY PoolAssumption
<1>14. WithinBounds' BY <1>1, <1>2, <1>6, <1>12, <1>13 DEF WithinBounds
<1>15. DrainedOnDrop' BY <1>1, <1>2, <1>6 DEF DrainedOnDrop
<1>16. ClaimsReach'
  <2>1. Cardinality(CallsOf(todo')) = Cardinality(CallsOf(todo)) + (b + r) BY <1>2, <1>3, <1>5, CallsAdded
  <2>2. Cardinality(CallsOf(todo)) \in Nat /\ Num(Back) \in Nat BY <1>2, CallsFinite, NumType
  <2>3. notify <= Num(Back) + Cardinality(CallsOf(todo)) BY <1>1, ClaimsIs
  <2>4. notify' <= Count(wst', Back) + Cardinality(CallsOf(todo'))
    <3>1. notify' = notify + (b + r) /\ Count(wst', Back) = Num(Back) BY <1>3, <1>6
    <3>2. notify \in Nat /\ b + r \in Nat BY <1>2, <1>5
    <3> QED BY <2>1, <2>2, <2>3, <3>1, <3>2
  <2> QED BY <2>4, ClaimsNext
<1>17. NotStranded'
  <2>1. SUFFICES ASSUME ~(queue <= notify'), recheck' = "none" PROVE total' = Ceiling /\ idle' = 0
    BY DEF NotStranded
  <2>2. queue > notify' BY <1>2, <1>5, <2>1
  <2>3. ~NextCheck(notify', total') BY <1>3, <2>1
  <2>4. ~(notify' > 0) /\ In({"fresh"}) = {} /\ ~(total' < Ceiling) BY <2>2, <2>3 DEF NextCheck
  <2>5. notify' = 0 /\ queue > 0 BY <1>2, <1>5, <2>2, <2>4
  <2>6. notify + b + r = 0 BY <1>2, <1>3, <1>4, <2>5
  <2>7. idle = 0 BY <1>4, <2>4, <2>5, <2>6
  <2> QED BY <1>2, <1>3, <1>4, <1>6, <1>12, <1>13, <2>4, <2>7
<1>18. Unbuilt' BY DEF Unbuilt
<1>19. TodoOwned'
  <2>1. ASSUME NEW s \in Submitters, sub'[s] # "notify" PROVE todo'[s] = 0
    <3>1. s # t /\ s \in Flushers BY <2>1 DEF Flushers
    <3> QED BY <1>1, <1>7, <2>1, <3>1 DEF TodoOwned
  <2>2. ASSUME loop' # "notify" PROVE todo'[Loop] = 0
    <3>1. Loop # t /\ Loop \in Flushers BY <2>2 DEF Flushers
    <3> QED BY <1>1, <1>7, <2>2, <3>1 DEF TodoOwned
  <2> QED BY <2>1, <2>2 DEF TodoOwned
<1> QED BY <1>10, <1>11, <1>14, <1>15, <1>16, <1>17, <1>18, <1>19 DEF PoolInv, PoolExact, JobsReached

\* SharedPool::submit's flush, and the loop's.
LEMMA FlushStep ==
  ASSUME PoolInv, LoopFlush \/ \E s \in Submitters : SubmitFlush(s)
  PROVE  PoolInv'
<1>1. TypeOK /\ TodoOwned BY DEF PoolInv, PoolExact
<1>2. /\ sub \in [Submitters -> {"idle", "queued", "notify"}] /\ pending \in Nat
      /\ loop \in {"run", "notify", "sleep", "done"}
  BY <1>1 DEF TypeOK
<1>3. CASE LoopFlush
  <2>1. /\ loop = "run" /\ built /\ Flush(Loop, pending) /\ pending' = 0 /\ loop' = "notify"
        /\ UNCHANGED <<built, queue, closed, made, sub, poked, dropper>>
    BY <1>3 DEF LoopFlush
  <2>2. Loop \in Flushers /\ Loop \notin Submitters BY PoolAssumption DEF Flushers
  <2>3. todo[Loop] = 0 BY <1>1, <2>1 DEF TodoOwned
  <2> QED BY <1>2, <2>1, <2>2, <2>3, FlushKeeps
<1>4. ASSUME NEW s \in Submitters, SubmitFlush(s) PROVE PoolInv'
  <2>1. /\ sub[s] = "queued" /\ sub' = [sub EXCEPT ![s] = "notify"]
        /\ UNCHANGED <<built, queue, closed, made, loop, pending, poked, dropper>>
    BY <1>4 DEF SubmitFlush, loopVars
  <2>2. /\ sub' \in [Submitters -> {"idle", "queued", "notify"}] /\ sub'[s] = "notify"
        /\ \A r \in Submitters : r # s => sub'[r] = sub[r]
    BY <1>2, <2>1
  <2>3. s \in Flushers /\ s # Loop BY PoolAssumption DEF Flushers
  <2>4. todo[s] = 0 BY <1>1, <2>1 DEF TodoOwned
  <2>5. CASE built /\ Flush(s, 1)
    <3>1. 1 \in Nat OBVIOUS
    <3> QED BY <1>2, <2>1, <2>2, <2>3, <2>4, <2>5, <3>1, FlushKeeps
  <2>6. CASE ~built /\ UNCHANGED <<idle, notify, total, cool, recheck, wst, flushVars>>
    <3>1. UNCHANGED <<built, inner, wst, todo, next, cool, recheck>> BY <2>1, <2>6 DEF inner, flushVars
    <3>2. TypeOK' BY <1>1, <2>1, <2>2, <3>1 DEF TypeOK, inner
    <3>3. TodoOwned' BY <1>1, <2>1, <2>2, <3>1 DEF TodoOwned
    <3>4. queue' = 0 /\ notify' = 0 BY <2>6, <3>1 DEF PoolInv, Unbuilt, inner
    <3>5. NotStranded' BY <3>4 DEF NotStranded
    <3> QED BY <3>1, <3>2, <3>3, <3>5, ControlKeeps
  <2> QED BY <1>4, <2>5, <2>6 DEF SubmitFlush
<1> QED BY <1>3, <1>4

(***************************************************************************)
(* The invariant, and what it says.                                        *)
(***************************************************************************)
\* A pool not built yet satisfies it.
LEMMA InitPool == Init => PoolInv
<1> SUFFICES ASSUME Init PROVE PoolInv OBVIOUS
<1>1. TypeOK BY DEF Init, TypeOK
<1>2. \A w \in Workers : wst[w] = "none" BY DEF Init
<1>3. Waiting = {} /\ Alive = {} BY <1>2 DEF Waiting, Alive, In
<1>4. Accounting BY <1>3, FS_EmptySet DEF Accounting, Init
<1>5. WithinBounds /\ DrainedOnDrop /\ NotStranded BY DEF Init, WithinBounds, DrainedOnDrop, NotStranded
<1>6. ClaimsReach
  <2>1. Num(Back) \in Nat /\ Cardinality(CallsOf(todo)) \in Nat BY <1>1, NumType, CallsFinite DEF TypeOK
  <2>2. Num(Back) = Cardinality(In({"woken", "expired"})) BY DEF Num, Count, Back, In
  <2> QED BY <2>1, <2>2, ComingIs DEF ClaimsReach, Init
<1>7. Unbuilt BY DEF Init, Unbuilt
<1>8. TodoOwned BY DEF Init, TodoOwned, Flushers
<1> QED BY <1>1, <1>4, <1>5, <1>6, <1>7, <1>8 DEF PoolInv, PoolExact, JobsReached

\* Every step keeps it.
LEMMA StepPool == PoolInv /\ [Next]_vars => PoolInv'
<1> SUFFICES ASSUME PoolInv, [Next]_vars PROVE PoolInv' OBVIOUS
<1>1. dropper \in {"none", "wait", "woken", "returned"} BY DEF PoolInv, PoolExact, TypeOK
<1>2. ASSUME NEW w \in Workers, Worker(w) \/ Finish(w) \/ Age(w) \/ Spurious(w) \/ Timeout(w)
      PROVE  PoolInv'
  BY <1>2, TurnsStep, WaitStep, RetireStep DEF Worker
<1>3. CASE Drop \/ \E w \in Workers : DropOnWorker(w) BY <1>3, DropStep
<1>4. CASE LoopEnqueue \/ \E s \in Submitters : Submit(s) BY <1>4, EnqueueStep
<1>5. CASE LoopFlush \/ \E s \in Submitters : SubmitFlush(s) BY <1>5, FlushStep
<1>6. ASSUME NEW s \in Submitters, SubmitPoke(s) PROVE PoolInv' BY <1>6, PokeStep
<1>7. ASSUME NEW t \in Flushers, NotifyOne(t) PROVE PoolInv' BY <1>7, NotifyStep
<1>8. CASE LoopNoFlush \/ LoopSleep \/ LoopWake \/ Due \/ CooledDown BY <1>8, LoopStep
<1>9. CASE DropWoken \/ DropDetach
  <2>1. UNCHANGED <<outside, inner, wst>> /\ dropper' \in {"none", "wait", "woken", "returned"}
    BY <1>9 DEF DropWoken, DropDetach
  <2> QED BY <2>1, SameKeeps
<1>10. CASE UNCHANGED vars
  <2>1. UNCHANGED <<outside, inner, wst>> /\ dropper' = dropper
    BY <1>10 DEF vars, outside, inner, flushVars, loopVars
  <2> QED BY <1>1, <2>1, SameKeeps
<1> QED BY <1>2, <1>3, <1>4, <1>5, <1>6, <1>7, <1>8, <1>9, <1>10 DEF Next

\* The pool's invariant holds at every release of its mutex, for any number of
\* workers, submitters and jobs, any floor and ceiling, and any batch size.
THEOREM PoolInvariant == Spec => []PoolInv
BY InitPool, StepPool, PTL DEF Spec

\* PoolInner's idle, notify and total are what the worker threads are, and a
\* pool that is open stays between its floor and its ceiling.
THEOREM CountersExact == Spec => []PoolExact
<1>1. PoolInv => PoolExact BY DEF PoolInv
<1> QED BY <1>1, PoolInvariant, PTL

\* No job is left behind: one that has no worker has a time to look again or a
\* pool at its ceiling with nobody parked, each claim reaches its worker, and a
\* dropped pool runs what was queued before its last worker leaves.
THEOREM JobsKept == Spec => []JobsReached
<1>1. PoolInv => JobsReached BY DEF PoolInv
<1> QED BY <1>1, PoolInvariant, PTL
==============================================================================
