--------------------------- MODULE FsCallsProofs ----------------------------
(***************************************************************************)
(* Proofs about the calls to FsHost, for any number of clients and workers:*)
(* the place of every call, the count of what the ring owes, and that the  *)
(* host implements FsCalls.                                                *)
(***************************************************************************)
EXTENDS FsHostProofs

(***************************************************************************)
(* Calls: where each one is.                                               *)
(***************************************************************************)
\* A step that changes no queue, no operation's place but among those with the
\* ring, and no caller's place ...
SamePlace ==
  /\ UNCHANGED <<inject, cli, reply>>
  /\ \A c \in Clients : (op'[c] = "none") <=> (op[c] = "none")

\* ... leaves every call where it is.
LEMMA SameKept == ASSUME TypeOK, OnePlace, QueuedOnce, SamePlace PROVE OnePlace' /\ QueuedOnce'
BY DEF OnePlace, QueuedOnce, SamePlace, Queued

\* Taking the head off the queue takes that call off it, and no other.
LEMMA HeadTaken ==
  ASSUME TypeOK, QueuedOnce, inject # <<>>, inject' = Tail(inject),
         NEW h, h = Head(inject)
  PROVE  /\ h \in Clients /\ Queued(h) /\ ~Queued(h)'
         /\ \A c \in Clients : c # h => (Queued(c)' <=> Queued(c))
         /\ QueuedOnce'
<1>1. inject \in Seq(Clients) /\ Len(inject) \in Nat /\ Len(inject) > 0 BY DEF TypeOK
<1>2. Len(inject') = Len(inject) - 1 /\ \A i \in 1 .. Len(inject') : inject'[i] = inject[i + 1]
  BY <1>1
<1>3. h = inject[1] /\ h \in Clients BY <1>1
<1>4. Queued(h) BY <1>1, <1>3 DEF Queued
<1>5. ~Queued(h)'
  <2> SUFFICES ASSUME NEW i \in 1 .. Len(inject'), inject'[i] = h PROVE FALSE
    BY DEF Queued
  <2>1. i + 1 \in 1 .. Len(inject) /\ 1 \in 1 .. Len(inject) /\ inject[i + 1] = inject[1]
    BY <1>1, <1>2, <1>3
  <2> QED BY <2>1 DEF QueuedOnce
<1>6. ASSUME NEW c \in Clients, c # h PROVE Queued(c)' <=> Queued(c)
  <2>1. ASSUME NEW i \in 1 .. Len(inject'), inject'[i] = c PROVE Queued(c)
    <3>1. i + 1 \in 1 .. Len(inject) /\ inject[i + 1] = c BY <1>1, <1>2, <2>1
    <3> QED BY <3>1 DEF Queued
  <2>2. ASSUME NEW i \in 1 .. Len(inject), inject[i] = c PROVE Queued(c)'
    <3>1. i # 1 BY <1>3, <1>6, <2>2
    <3>2. i - 1 \in 1 .. Len(inject') /\ inject'[i - 1] = c BY <1>1, <1>2, <2>2, <3>1
    <3> QED BY <3>2 DEF Queued
  <2> QED BY <2>1, <2>2 DEF Queued
<1>7. QueuedOnce' BY <1>1, <1>2 DEF QueuedOnce
<1> QED BY <1>3, <1>4, <1>5, <1>6, <1>7

\* A queue left alone holds the calls it held.
LEMMA QueueSame ==
  ASSUME QueuedOnce, UNCHANGED inject
  PROVE  QueuedOnce' /\ \A d \in Clients : Queued(d)' <=> Queued(d)
BY DEF QueuedOnce, Queued

\* A call's answer, given by the loop, takes it out of the ring.
LEMMA AnswerKept ==
  ASSUME TypeOK, OnePlace, QueuedOnce, UNCHANGED <<inject, cli>>,
         NEW c \in Clients, op[c] # "none", op' = [op EXCEPT ![c] = "none"],
         reply' = [reply EXCEPT ![c] = "done"]
  PROVE  OnePlace' /\ QueuedOnce'
<1>1. op'[c] = "none" /\ reply'[c] = "done" /\ cli[c] = "wait" /\ ~Queued(c)
  BY DEF TypeOK, OnePlace
<1>2. \A d \in Clients : d # c => op'[d] = op[d] /\ reply'[d] = reply[d] BY DEF TypeOK
<1>3. QueuedOnce' /\ \A d \in Clients : Queued(d)' <=> Queued(d) BY QueueSame
<1> QED BY <1>1, <1>2, <1>3 DEF OnePlace

\* io_uring_enter, and a leak of the table, move entries and finish none.
LEMMA SubmitSame ==
  ASSUME TypeOK, Submit \/ Leak, UNCHANGED <<inject, cli, reply>>
  PROVE  SamePlace
BY DEF Submit, Submitted, Leak, SamePlace, TypeOK

\* What Append does to a queue.
LEMMA AppendAt ==
  ASSUME NEW S, NEW q \in Seq(S), NEW e \in S
  PROVE  /\ Len(Append(q, e)) = Len(q) + 1 /\ Append(q, e)[Len(q) + 1] = e
         /\ \A i \in 1 .. Len(q) : Append(q, e)[i] = q[i]
OBVIOUS

\* Every call stays in one place, whichever thread moves it.
LEMMA CallStep ==
  ASSUME TypeOK, OnePlace, QueuedOnce, [Next]_vars
  PROVE  OnePlace' /\ QueuedOnce'
<1>1. ASSUME UNCHANGED <<inject, cli, reply, op>> PROVE OnePlace' /\ QueuedOnce'
  BY <1>1, SameKept DEF SamePlace
<1>2. ASSUME NEW c \in Clients, Client(c) PROVE OnePlace' /\ QueuedOnce'
  <2>1. CASE Screen(c)
    <3>1. UNCHANGED <<inject, reply, op>> BY <2>1 DEF Screen, ringVars
    <3>2. cli[c] = "idle" /\ cli'[c] # "wait" /\ \A d \in Clients : d # c => cli'[d] = cli[d]
      BY <2>1 DEF Screen, TypeOK
    <3>3. QueuedOnce' /\ \A d \in Clients : Queued(d)' <=> Queued(d) BY <3>1, QueueSame
    <3> QED BY <3>1, <3>2, <3>3 DEF OnePlace
  <2>2. CASE Push(c) /\ rx
    <3>1. /\ inject' = Append(inject, c) /\ cli[c] = "push" /\ cli' = [cli EXCEPT ![c] = "wait"]
          /\ UNCHANGED <<reply, op>>
      BY <2>2, Zenon DEF Push, ringVars
    <3>2. inject \in Seq(Clients) /\ Len(inject) \in Nat BY DEF TypeOK
    <3>3. /\ Len(inject') = Len(inject) + 1 /\ inject'[Len(inject) + 1] = c
          /\ \A i \in 1 .. Len(inject) : inject'[i] = inject[i]
      BY <3>1, <3>2, AppendAt
    <3>4. ~Queued(c) /\ op[c] = "none" /\ reply[c] = "none" BY <3>1 DEF OnePlace
    <3>5. Queued(c)'
      <4>1. Len(inject) + 1 \in 1 .. Len(inject') BY <3>2, <3>3
      <4> QED BY <3>3, <4>1 DEF Queued
    <3>6. \A d \in Clients : d # c => (Queued(d)' <=> Queued(d)) /\ cli'[d] = cli[d]
      <4>1. TAKE d \in Clients
      <4>2. HAVE d # c
      <4>3. cli'[d] = cli[d] BY <3>1, <4>2 DEF TypeOK
      <4>4. ASSUME Queued(d) PROVE Queued(d)'
        <5>1. PICK i \in 1 .. Len(inject) : inject[i] = d BY <4>4 DEF Queued
        <5>2. i \in 1 .. Len(inject') /\ inject'[i] = d BY <3>2, <3>3, <5>1
        <5> QED BY <5>2 DEF Queued
      <4>5. ASSUME Queued(d)' PROVE Queued(d)
        <5>1. PICK i \in 1 .. Len(inject') : inject'[i] = d BY <4>5 DEF Queued
        <5>2. i \in 1 .. Len(inject) BY <3>2, <3>3, <4>2, <5>1
        <5>3. inject[i] = d BY <3>3, <5>1, <5>2
        <5> QED BY <5>2, <5>3 DEF Queued
      <4> QED BY <4>3, <4>4, <4>5
    <3>7. cli'[c] = "wait" BY <3>1 DEF TypeOK
    <3>8. QueuedOnce' BY <3>2, <3>3, <3>4 DEF QueuedOnce, Queued
    <3> QED BY <3>1, <3>4, <3>5, <3>6, <3>7, <3>8 DEF OnePlace
  <2>3. CASE Push(c) /\ ~rx
    <3>1. cli[c] = "push" /\ cli' = [cli EXCEPT ![c] = "idle"] /\ UNCHANGED <<inject, reply, op>>
      BY <2>3, Zenon DEF Push, ringVars
    <3>2. cli'[c] = "idle" /\ \A d \in Clients : d # c => cli'[d] = cli[d] BY <3>1 DEF TypeOK
    <3>3. QueuedOnce' /\ \A d \in Clients : Queued(d)' <=> Queued(d) BY <3>1, QueueSame
    <3> QED BY <3>1, <3>2, <3>3 DEF OnePlace
  <2>4. CASE Recv(c)
    <3>1. /\ reply[c] # "none" /\ cli' = [cli EXCEPT ![c] = "idle"]
          /\ reply' = [reply EXCEPT ![c] = "none"] /\ UNCHANGED <<inject, op>>
      BY <2>4 DEF Recv, ringVars
    <3>2. op[c] = "none" /\ ~Queued(c) BY <3>1 DEF OnePlace
    <3>3. cli'[c] = "idle" /\ reply'[c] = "none" BY <3>1 DEF TypeOK
    <3>4. \A d \in Clients : d # c => cli'[d] = cli[d] /\ reply'[d] = reply[d]
      BY <3>1 DEF TypeOK
    <3>5. QueuedOnce' /\ \A d \in Clients : Queued(d)' <=> Queued(d) BY <3>1, QueueSame
    <3> QED BY <3>1, <3>2, <3>3, <3>4, <3>5 DEF OnePlace
  <2> QED BY <1>2, <2>1, <2>2, <2>3, <2>4 DEF Client
<1>3. ASSUME NEW w \in Workers, SubmitOffload(w) \/ Publish(w) PROVE OnePlace' /\ QueuedOnce'
  BY <1>1, <1>3 DEF SubmitOffload, Publish, cliVars, ringVars
<1>4. CASE RequestStop BY <1>1, <1>4 DEF RequestStop, cliVars, ringVars
<1>5. ASSUME NEW p \in Pokers, PokeStep(p) PROVE OnePlace' /\ QueuedOnce'
  BY <1>1, <1>5 DEF PokeStep, cliVars, ringVars
<1>6. CASE Kernel
  <2>1. CASE KernelRead \/ KernelCancel BY <1>1, <2>1 DEF KernelRead, KernelCancel, cliVars
  <2>2. ASSUME NEW c \in Clients, KernelOp(c) PROVE OnePlace' /\ QueuedOnce'
    <3>1. SamePlace BY <2>2 DEF KernelOp, SamePlace, cliVars, TypeOK
    <3> QED BY <3>1, SameKept
  <2> QED BY <1>6, <2>1, <2>2 DEF Kernel
<1>7. CASE Loop
  <2> USE DEF outside, cliVars
  <2>1. CASE RunArm \/ RunActivate \/ LoopHead \/ LoopPark \/ LoopParkRefused \/ LoopWake \/ LoopUnpark
    BY <1>1, <2>1 DEF RunArm, RunActivate, LoopHead, LoopPark, LoopParkRefused, LoopWake, LoopUnpark,
       ringVars
  <2>2. CASE DispatchWake \/ ReapEmpty \/ DrainInjectsDone \/ DrainPool \/ StopWindow \/ DrainWake
             \/ DrainReaped \/ RunReturn
    BY <1>1, <2>2 DEF DispatchWake, ReapEmpty, DrainInjectsDone, DrainPool, StopWindow, DrainWake,
       DrainReaped, RunReturn, ringVars
  <2>3. CASE LoopEnter \/ LoopSubmit \/ CancelAll \/ DrainEnter
    <3>1. UNCHANGED <<inject, cli, reply>> /\ (UNCHANGED op \/ Submit \/ Leak)
      BY <2>3 DEF LoopEnter, LoopSubmit, CancelAll, DrainEnter, ringVars
    <3> QED BY <1>1, <3>1, SubmitSame, SameKept
  <2>4. ASSUME NEW c \in Clients, DispatchOp(c) PROVE OnePlace' /\ QueuedOnce'
    BY <2>4, AnswerKept DEF DispatchOp
  <2>5. CASE DrainReap
    <3>1. CASE UNCHANGED <<op, reply>> BY <1>1, <2>5, <3>1 DEF DrainReap
    <3>2. ASSUME NEW c \in Completions, op' = [op EXCEPT ![c] = "none"],
                 reply' = [reply EXCEPT ![c] = "done"]
          PROVE  OnePlace' /\ QueuedOnce'
      BY <2>5, <3>2, AnswerKept DEF DrainReap, Completions
    <3> QED BY <2>5, <3>1, <3>2 DEF DrainReap
  <2>6. CASE DrainInject \/ FlushInject
    <3> DEFINE h == Head(inject)
    <3>1. inject # <<>> /\ inject' = Tail(inject) /\ UNCHANGED cli
      BY <2>6 DEF DrainInject, FlushInject
    <3>2. /\ h \in Clients /\ Queued(h) /\ QueuedOnce'
          /\ \A c \in Clients : c = h => ~Queued(c)'
          /\ \A c \in Clients : c # h => (Queued(c)' <=> Queued(c))
      BY <3>1, HeadTaken
    <3>3. cli[h] = "wait" /\ op[h] = "none" /\ reply[h] = "none" BY <3>2 DEF OnePlace
    <3>4. \/ op' = op /\ \E r \in {"busy", "aborted"} : reply' = [reply EXCEPT ![h] = r]
          \/ reply' = reply /\ op' = [op EXCEPT ![h] = "staged"]
      BY <2>6 DEF DrainInject, FlushInject, ringVars
    <3>5. \/ op'[h] = "none" /\ reply'[h] # "none"
          \/ op'[h] # "none" /\ reply'[h] = "none"
      BY <3>2, <3>3, <3>4 DEF TypeOK
    <3>6. \A c \in Clients : c # h => op'[c] = op[c] /\ reply'[c] = reply[c]
      BY <3>2, <3>4 DEF TypeOK
    <3> QED BY <3>1, <3>2, <3>3, <3>5, <3>6 DEF OnePlace
  <2>7. CASE DropHost
    <3>1. /\ inject' = <<>> /\ UNCHANGED <<cli, op>>
          /\ reply' = [c \in Clients |-> IF Queued(c) THEN "gone" ELSE reply[c]]
      BY <2>7 DEF DropHost, ringVars
    <3>2. \A c \in Clients : ~Queued(c)' BY <3>1 DEF Queued
    <3>3. \A c \in Clients : reply'[c] = IF Queued(c) THEN "gone" ELSE reply[c] BY <3>1
    <3>4. QueuedOnce' BY <3>1 DEF QueuedOnce
    <3> QED BY <3>1, <3>2, <3>3, <3>4 DEF OnePlace
  <2> QED BY <1>7, <2>1, <2>2, <2>3, <2>4, <2>5, <2>6, <2>7 DEF Loop
<1>8. CASE UNCHANGED vars BY <1>1, <1>8 DEF vars, cliVars, ringVars
<1> QED BY <1>2, <1>3, <1>4, <1>5, <1>6, <1>7, <1>8 DEF Next

(***************************************************************************)
(* Engine::inflight.                                                       *)
(***************************************************************************)
Busy    == {c \in Clients : Owing(op[c])}
Flag(e) == IF Owing(e) THEN 1 ELSE 0
Whole   == \A c \in Clients : op[c] # "leaked"

\* InflightExact in these terms; there are finitely many operations to count.
LEMMA InflightIs ==
  /\ InflightExact <=> (Whole => inflight = Cardinality(Busy) + Flag(rd) + Flag(cxl))
  /\ IsFiniteSet(Busy) /\ Cardinality(Busy) \in Nat
<1>1. Busy \in SUBSET Clients BY DEF Busy
<1>2. IsFiniteSet(Busy) BY <1>1, HostAssumption, FS_Subset
<1> QED BY <1>2, FS_CardinalityType DEF InflightExact, Busy, Flag, Whole

\* An operation staged is one more, an operation reaped one less.
LEMMA BusyChanges ==
  ASSUME TypeOK, NEW c \in Clients
  PROVE  /\ op[c] = "none" /\ op' = [op EXCEPT ![c] = "staged"]
              => Cardinality(Busy') = Cardinality(Busy) + 1 /\ (Whole' => Whole)
         /\ op[c] = "cqe" /\ op' = [op EXCEPT ![c] = "none"]
              => /\ Cardinality(Busy') = Cardinality(Busy) - 1 /\ Cardinality(Busy) > 0
                 /\ Whole' => Whole
<1>1. IsFiniteSet(Busy) /\ Cardinality(Busy) \in Nat BY InflightIs
<1>2. ASSUME op[c] = "none", op' = [op EXCEPT ![c] = "staged"]
      PROVE  Cardinality(Busy') = Cardinality(Busy) + 1 /\ (Whole' => Whole)
  <2>1. c \notin Busy /\ Busy' = Busy \cup {c} BY <1>2 DEF Busy, Owing, TypeOK
  <2>2. Cardinality(Busy') = Cardinality(Busy) + 1 BY <1>1, <2>1, FS_AddElement
  <2>3. Whole' => Whole BY <1>2 DEF Whole, TypeOK
  <2> QED BY <2>2, <2>3
<1>3. ASSUME op[c] = "cqe", op' = [op EXCEPT ![c] = "none"]
      PROVE  /\ Cardinality(Busy') = Cardinality(Busy) - 1 /\ Cardinality(Busy) > 0
             /\ Whole' => Whole
  <2>1. c \in Busy /\ Busy' = Busy \ {c} BY <1>3 DEF Busy, Owing, TypeOK
  <2>2. Cardinality(Busy) # 0 BY <1>1, <2>1, FS_EmptySet
  <2>3. Cardinality(Busy') = Cardinality(Busy) - 1 BY <1>1, <2>1, FS_RemoveElement
  <2>4. Whole' => Whole BY <1>3 DEF Whole, TypeOK
  <2> QED BY <1>1, <2>2, <2>3, <2>4
<1> QED BY <1>2, <1>3

\* The entries the ring owes are the same.
SameOwing ==
  /\ \A c \in Clients : Owing(op'[c]) <=> Owing(op[c])
  /\ Owing(rd') <=> Owing(rd)
  /\ Owing(cxl') <=> Owing(cxl)
  /\ Whole' => Whole

\* The count after a step, in the same terms.
LEMMA InflightNext ==
  InflightExact' <=> (Whole' => inflight' = Cardinality(Busy') + Flag(rd') + Flag(cxl'))
BY DEF InflightExact, Busy, Flag, Whole

\* A step that changes nothing the ring owes keeps the count.
LEMMA SameCount == ASSUME InflightExact, SameOwing, UNCHANGED inflight PROVE InflightExact'
<1>1. Busy' = Busy /\ Flag(rd') = Flag(rd) /\ Flag(cxl') = Flag(cxl) BY DEF SameOwing, Busy, Flag
<1> QED BY <1>1, InflightIs, InflightNext DEF SameOwing

\* The teardown's own facts.
LEMMA TornDownStep ==
  ASSUME TypeOK, TornDown, [Next]_vars
  PROVE  TornDown' /\ (Whole' => Whole)
<1> USE DEF TornDown, Whole
<1>1. ASSUME UNCHANGED <<pc, op, cxl, inflight>> PROVE TornDown' /\ (Whole' => Whole) BY <1>1
<1>2. ASSUME NEW c \in Clients, Client(c) PROVE TornDown' /\ (Whole' => Whole)
  BY <1>1, <1>2 DEF Client, Screen, Push, Recv, loopVars, ringVars
<1>3. ASSUME NEW w \in Workers, SubmitOffload(w) \/ Publish(w) PROVE TornDown' /\ (Whole' => Whole)
  BY <1>1, <1>3 DEF SubmitOffload, Publish, loopVars, ringVars
<1>4. CASE RequestStop BY <1>1, <1>4 DEF RequestStop, loopVars, ringVars
<1>5. ASSUME NEW p \in Pokers, PokeStep(p) PROVE TornDown' /\ (Whole' => Whole)
  BY <1>1, <1>5 DEF PokeStep, loopVars, ringVars
<1>6. CASE Kernel
  <2>1. CASE KernelRead BY <1>1, <2>1 DEF KernelRead, loopVars
  <2>2. CASE KernelCancel BY <2>2 DEF KernelCancel, loopVars
  <2>3. ASSUME NEW c \in Clients, KernelOp(c) PROVE TornDown' /\ (Whole' => Whole)
    BY <2>3 DEF KernelOp, loopVars, TypeOK
  <2> QED BY <1>6, <2>1, <2>2, <2>3 DEF Kernel
<1>7. CASE Loop
  <2> USE DEF ringVars
  <2>1. CASE RunArm \/ RunActivate \/ LoopHead \/ LoopPark \/ LoopParkRefused \/ LoopWake \/ LoopUnpark
    BY <2>1 DEF RunArm, RunActivate, LoopHead, LoopPark, LoopParkRefused, LoopWake, LoopUnpark
  <2>2. CASE DispatchWake \/ ReapEmpty \/ DrainInjectsDone \/ StopWindow \/ DrainWake
             \/ FlushInject \/ RunReturn \/ DropHost
    BY <2>2 DEF DispatchWake, ReapEmpty, DrainInjectsDone, StopWindow, DrainWake,
       FlushInject, RunReturn, DropHost
  <2>3. CASE DrainPool BY <2>3 DEF DrainPool, TypeOK
  <2>4. CASE LoopEnter \/ LoopSubmit
    BY <2>4 DEF LoopEnter, LoopSubmit, Submit, Submitted, TypeOK
  <2>5. CASE CancelAll BY <2>5 DEF CancelAll, Leak, TypeOK
  <2>6. CASE DrainEnter BY <2>6 DEF DrainEnter, Leak, Submit, Submitted, TypeOK
  <2>7. CASE DrainReaped BY <2>7 DEF DrainReaped, TypeOK
  <2>8. ASSUME NEW c \in Clients, DispatchOp(c) PROVE TornDown' /\ (Whole' => Whole)
    BY <2>8 DEF DispatchOp, TypeOK
  <2>9. CASE DrainReap BY <2>9 DEF DrainReap, Completions, TypeOK
  <2>10. CASE DrainInject
    <3>1. Head(inject) \in Clients
      <4>1. inject # <<>> BY <2>10, Zenon DEF DrainInject
      <4>2. inject \in Seq(Clients) BY DEF TypeOK
      <4> QED BY <4>1, <4>2
    <3>2. op' = op \/ op' = [op EXCEPT ![Head(inject)] = "staged"] BY <2>10 DEF DrainInject
    <3> QED BY <2>10, <3>1, <3>2 DEF DrainInject, TypeOK
  <2> QED BY <1>7, <2>1, <2>2, <2>3, <2>4, <2>5, <2>6, <2>7, <2>8, <2>9, <2>10 DEF Loop
<1>8. CASE UNCHANGED vars BY <1>1, <1>8 DEF vars, loopVars, ringVars
<1> QED BY <1>2, <1>3, <1>4, <1>5, <1>6, <1>7, <1>8 DEF Next

\* Engine::inflight follows the ring through every arm, stage and retire.
LEMMA CountStep ==
  ASSUME TypeOK, ReadArmed, OnePlace, QueuedOnce, TornDown, InflightExact, [Next]_vars
  PROVE  InflightExact'
<1>0. Whole' => Whole BY TornDownStep
<1>1. ASSUME UNCHANGED <<rd, op, cxl, inflight>> PROVE InflightExact'
  BY <1>0, <1>1, SameCount DEF SameOwing
<1>2. ASSUME Submit, UNCHANGED inflight PROVE InflightExact'
  <2>1. SameOwing BY <1>0, <1>2 DEF Submit, Submitted, SameOwing, Owing, TypeOK
  <2> QED BY <1>2, <2>1, SameCount
<1>3. ASSUME Leak, UNCHANGED <<rd, cxl, inflight>> PROVE InflightExact'
  <2>1. CASE ~Whole' BY <2>1, InflightNext
  <2>2. CASE Whole'
    <3>1. UNCHANGED op BY <1>3, <2>2 DEF Leak, Whole, TypeOK
    <3> QED BY <1>1, <1>3, <3>1
  <2> QED BY <2>1, <2>2
<1>4. inflight \in Nat /\ Cardinality(Busy) \in Nat /\ Flag(rd) \in {0, 1} /\ Flag(cxl) \in {0, 1}
  BY InflightIs DEF TypeOK, Flag
<1>5. Whole => inflight = Cardinality(Busy) + Flag(rd) + Flag(cxl) BY InflightIs
<1>6. ASSUME NEW c \in Clients, op[c] = "cqe", op' = [op EXCEPT ![c] = "none"],
             UNCHANGED <<rd, cxl>>, inflight' = Retire(inflight)
      PROVE  InflightExact'
  <2>1. Cardinality(Busy') = Cardinality(Busy) - 1 /\ Cardinality(Busy) > 0 BY <1>6, BusyChanges
  <2>2. Whole => inflight' = inflight - 1 BY <1>4, <1>5, <1>6, <2>1 DEF Retire
  <2> QED BY <1>0, <1>4, <1>5, <1>6, <2>1, <2>2, InflightNext
<1>7. ASSUME UNCHANGED op, inflight' = Retire(inflight),
             \/ rd = "cqe" /\ rd' = "none" /\ UNCHANGED cxl
             \/ cxl = "cqe" /\ cxl' = "none" /\ UNCHANGED rd
      PROVE  InflightExact'
  <2>1. Busy' = Busy BY <1>7 DEF Busy
  <2>2. Flag(rd') + Flag(cxl') = Flag(rd) + Flag(cxl) - 1 /\ Flag(rd) + Flag(cxl) > 0
    BY <1>7 DEF Flag, Owing
  <2>3. Flag(rd') \in {0, 1} /\ Flag(cxl') \in {0, 1} BY DEF Flag
  <2>4. Whole => inflight' = inflight - 1 BY <1>4, <1>5, <1>7, <2>2 DEF Retire
  <2> QED BY <1>0, <1>4, <1>5, <2>1, <2>2, <2>3, <2>4, InflightNext
<1>8. CASE Loop
  <2> USE DEF ringVars
  <2>1. CASE RunArm
    <3>1. rd = "none" /\ rd' = "staged" /\ UNCHANGED <<op, cxl>> /\ inflight' = inflight + 1
      BY <2>1 DEF RunArm, ReadArmed
    <3>2. Busy' = Busy /\ Flag(rd) = 0 /\ Flag(rd') = 1 /\ Flag(cxl') = Flag(cxl)
      BY <3>1 DEF Busy, Flag, Owing
    <3> QED BY <1>0, <1>4, <1>5, <3>1, <3>2, InflightNext
  <2>2. CASE RunActivate \/ LoopHead \/ LoopPark \/ LoopParkRefused \/ LoopWake \/ LoopUnpark
             \/ ReapEmpty \/ DrainInjectsDone \/ DrainPool
    BY <1>1, <2>2 DEF RunActivate, LoopHead, LoopPark, LoopParkRefused, LoopWake, LoopUnpark,
       ReapEmpty, DrainInjectsDone, DrainPool
  <2>3. CASE StopWindow \/ DrainWake \/ DrainReaped \/ FlushInject \/ RunReturn \/ DropHost
    BY <1>1, <2>3 DEF StopWindow, DrainWake, DrainReaped, FlushInject, RunReturn, DropHost
  <2>4. CASE LoopEnter \/ LoopSubmit BY <1>1, <1>2, <2>4 DEF LoopEnter, LoopSubmit
  <2>5. CASE DrainEnter BY <1>2, <1>3, <2>5 DEF DrainEnter
  <2>6. CASE DispatchWake
    <3>1. UNCHANGED <<op, cxl>> BY <2>6 DEF DispatchWake
    <3>2. CASE rd' = "none" /\ inflight' = Retire(inflight) BY <1>7, <2>6, <3>1, <3>2 DEF DispatchWake
    <3>3. CASE rd' = "staged" /\ UNCHANGED inflight
      <4>1. SameOwing BY <1>0, <2>6, <3>1, <3>3 DEF DispatchWake, SameOwing, Owing
      <4> QED BY <3>3, <4>1, SameCount
    <3> QED BY <2>6, <3>2, <3>3 DEF DispatchWake
  <2>7. ASSUME NEW c \in Clients, DispatchOp(c) PROVE InflightExact' BY <1>6, <2>7 DEF DispatchOp
  <2>8. CASE DrainReap BY <1>6, <1>7, <2>8 DEF DrainReap, Completions
  <2>9. CASE CancelAll
    <3>1. CASE cxl' = "staged" /\ inflight' = inflight + 1 /\ UNCHANGED op
      <4>1. cxl = "none" /\ UNCHANGED rd BY <2>9 DEF CancelAll, TornDown
      <4>2. Busy' = Busy /\ Flag(cxl) = 0 /\ Flag(cxl') = 1 /\ Flag(rd') = Flag(rd)
        BY <3>1, <4>1 DEF Busy, Flag, Owing
      <4> QED BY <1>0, <1>4, <1>5, <3>1, <4>2, InflightNext
    <3>2. CASE UNCHANGED <<cxl, inflight, op>> BY <1>1, <2>9, <3>2 DEF CancelAll
    <3>3. CASE Leak /\ UNCHANGED <<cxl, inflight>> BY <1>3, <2>9, <3>3 DEF CancelAll
    <3> QED BY <2>9, <3>1, <3>2, <3>3 DEF CancelAll
  <2>10. CASE DrainInject
    <3> DEFINE h == Head(inject)
    <3>1. h \in Clients /\ op[h] = "none"
      <4>1. inject # <<>> /\ inject' = Tail(inject) BY <2>10 DEF DrainInject
      <4>2. h \in Clients /\ Queued(h) BY <4>1, HeadTaken
      <4> QED BY <4>2 DEF OnePlace
    <3>2. UNCHANGED <<rd, cxl>> BY <2>10 DEF DrainInject
    <3>3. \/ op' = op /\ inflight' = inflight
          \/ op' = [op EXCEPT ![h] = "staged"] /\ inflight' = inflight + 1
      BY <2>10 DEF DrainInject
    <3>4. CASE op' = op /\ inflight' = inflight BY <1>1, <3>2, <3>4
    <3>5. CASE op' = [op EXCEPT ![h] = "staged"] /\ inflight' = inflight + 1
      <4>1. Cardinality(Busy') = Cardinality(Busy) + 1 BY <3>1, <3>5, BusyChanges
      <4>2. Flag(rd') = Flag(rd) /\ Flag(cxl') = Flag(cxl) BY <3>2
      <4> QED BY <1>0, <1>4, <1>5, <3>5, <4>1, <4>2, InflightNext
    <3> QED BY <3>3, <3>4, <3>5
  <2> QED BY <1>8, <2>1, <2>2, <2>3, <2>4, <2>5, <2>6, <2>7, <2>8, <2>9, <2>10 DEF Loop
<1>9. CASE Kernel
  <2>1. CASE KernelRead \/ KernelCancel \/ \E c \in Clients : KernelOp(c)
    <3>1. SameOwing /\ UNCHANGED inflight
      BY <1>0, <2>1 DEF KernelRead, KernelCancel, KernelOp, SameOwing, Owing, TypeOK, loopVars
    <3> QED BY <3>1, SameCount
  <2> QED BY <1>9, <2>1 DEF Kernel
<1>10. CASE (\E c \in Clients : Client(c)) \/ (\E w \in Workers : SubmitOffload(w) \/ Publish(w))
            \/ RequestStop \/ (\E p \in Pokers : PokeStep(p)) \/ UNCHANGED vars
  BY <1>1, <1>10 DEF Client, Screen, Push, Recv, SubmitOffload, Publish, RequestStop, PokeStep,
     vars, loopVars, ringVars
<1> QED BY <1>8, <1>9, <1>10 DEF Next

(***************************************************************************)
(* The theorems about calls and the ring.                                  *)
(***************************************************************************)
\* Nothing is called or in flight before run().
LEMMA InitHost == Init => HostInv
<1> SUFFICES ASSUME Init PROVE HostInv OBVIOUS
<1>1. WakeInv BY InitInv
<1>2. OnePlace /\ QueuedOnce /\ TornDown
  BY DEF Init, OnePlace, QueuedOnce, TornDown, Queued
<1>3. InflightExact
  <2>1. Busy = {} /\ Flag(rd) = 0 /\ Flag(cxl) = 0 BY DEF Init, Busy, Flag, Owing
  <2>2. Cardinality(Busy) = 0 BY <2>1, FS_EmptySet
  <2> QED BY <2>1, <2>2, InflightIs DEF Init
<1> QED BY <1>1, <1>2, <1>3 DEF HostInv

\* Every step of the host keeps its invariant.
LEMMA StepHost == HostInv /\ [Next]_vars => HostInv'
<1> SUFFICES ASSUME HostInv, [Next]_vars PROVE HostInv' OBVIOUS
<1>1. TypeOK /\ ReadArmed BY DEF HostInv, WakeInv
<1>2. WakeInv' BY StepInv DEF HostInv
<1>3. OnePlace' /\ QueuedOnce' BY <1>1, CallStep DEF HostInv
<1>4. TornDown' BY <1>1, TornDownStep DEF HostInv
<1>5. InflightExact' BY <1>1, CountStep DEF HostInv
<1> QED BY <1>2, <1>3, <1>4, <1>5 DEF HostInv

\* The host's invariant holds from the construction to the drop, for any number
\* of clients, workers and table slots, whether or not the ring fails.
THEOREM HostInvariant == Spec => []HostInv
BY InitHost, StepHost, PTL DEF Spec

\* Engine::inflight is exactly what the ring owes, so that cancel_and_reap_all
\* neither stops early nor waits for nothing.
THEOREM InflightCounted == Spec => []HostExact
<1>1. HostInv => HostExact BY DEF HostInv, WakeInv, HostExact
<1> QED BY <1>1, HostInvariant, PTL

\* The wake READ is never armed over itself: its buffer has one reader.
THEOREM ReadOnce == Spec => OneWakeRead
<1>1. ASSUME HostInv, [Next]_vars, rd' = "staged", rd # "staged" PROVE rd \in {"none", "cqe"}
  <2>1. CASE Loop
    <3>1. RunArm \/ DispatchWake
      BY <1>1, <2>1 DEF Loop, RunActivate, LoopHead, LoopPark, LoopParkRefused,
         LoopEnter, LoopWake, LoopUnpark, DispatchOp, ReapEmpty, DrainInject,
         DrainInjectsDone, DrainPool, LoopSubmit, StopWindow, CancelAll, DrainEnter, DrainWake,
         DrainReap, DrainReaped, FlushInject, RunReturn, DropHost, Submit, Submitted, ringVars
    <3>2. CASE RunArm BY <1>1, <3>2 DEF RunArm, HostInv, WakeInv, ReadArmed
    <3>3. CASE DispatchWake BY <3>3 DEF DispatchWake
    <3> QED BY <3>1, <3>2, <3>3
  <2>2. CASE ~Loop
    <3>1. UNCHANGED rd \/ rd' = "cqe"
      BY <1>1, <2>2 DEF Next, Client, Screen, Push, Recv, SubmitOffload, Publish, RequestStop,
         PokeStep, Kernel, KernelRead, KernelCancel, KernelOp, vars, ringVars
    <3> QED BY <1>1, <3>1
  <2> QED BY <2>1, <2>2
<1>2. HostInv /\ [Next]_vars => [rd' = "staged" /\ rd # "staged" => rd \in {"none", "cqe"}]_vars
  BY <1>1
<1> QED BY <1>2, HostInvariant, PTL DEF Spec, OneWakeRead

\* UringFs::run's promise to a parked caller, that it is unblocked by the time
\* run() returns, holds whenever the ring does not fail the teardown.
THEOREM CleanReturn == ASSUME ~RingErrors PROVE Spec => []ReturnUnblocks
<1>1. HostInv => ReturnUnblocks
  <2> SUFFICES ASSUME HostInv, pc = "returned", NEW c \in Clients, cli[c] = "wait",
                      reply[c] = "none", ~Queued(c)
               PROVE  FALSE
    BY DEF ReturnUnblocks
  <2>1. op[c] # "none" BY DEF HostInv, OnePlace
  <2>2. Whole /\ inflight = 0 BY DEF HostInv, TornDown, Whole
  <2>3. Owing(op[c]) BY <2>1, <2>2 DEF Whole, Owing, HostInv, WakeInv, TypeOK, Entry
  <2>4. c \in Busy BY <2>3 DEF Busy
  <2>5. Cardinality(Busy) # 0 BY <2>4, InflightIs, FS_EmptySet
  <2>6. Flag(rd) \in {0, 1} /\ Flag(cxl) \in {0, 1} BY DEF Flag
  <2> QED BY <2>2, <2>5, <2>6, InflightIs DEF HostInv
<1> QED BY <1>1, HostInvariant, PTL

(***************************************************************************)
(* The host implements FsCalls, step by step.                              *)
(***************************************************************************)
\* The abstract call, as a function of what the client and its channel hold.
LEMMA CallMapIs ==
  /\ \A c \in Clients : callMap[c] = IF reply[c] # "none" THEN "answered"
                                    ELSE IF cli[c] = "wait" THEN "open" ELSE "idle"
  /\ \A c \in Clients : callMap'[c] = IF reply'[c] # "none" THEN "answered"
                                     ELSE IF cli'[c] = "wait" THEN "open" ELSE "idle"
  /\ callMap = [c \in Clients |-> callMap[c]]
  /\ callMap' = [c \in Clients |-> callMap'[c]]
BY DEF callMap

\* A step that changes one call, as a change of the function.
LEMMA OneCall ==
  ASSUME NEW c \in Clients, NEW v, callMap'[c] = v,
         \A d \in Clients : d # c => callMap'[d] = callMap[d]
  PROVE  callMap' = [callMap EXCEPT ![c] = v]
<1> DEFINE F == [callMap EXCEPT ![c] = v]
           G == [d \in Clients |-> callMap'[d]]
<1>1. DOMAIN callMap = Clients BY DEF callMap
<1>2. F = [d \in Clients |-> IF d = c THEN v ELSE callMap[d]] BY <1>1
<1>3. \A d \in Clients : (IF d = c THEN v ELSE callMap[d]) = callMap'[d] OBVIOUS
<1>4. F = G BY <1>2, <1>3
<1> QED BY <1>4, CallMapIs

\* An outcome sent to a waiting caller answers its call.
LEMMA AnswerIs ==
  ASSUME TypeOK, NEW c \in Clients, cli[c] = "wait", reply[c] = "none",
         NEW r \in {"done", "busy", "aborted"}, reply' = [reply EXCEPT ![c] = r],
         UNCHANGED <<cli, stop>>
  PROVE  Calls!Next
<1>1. callMap[c] = "open" /\ callMap'[c] = "answered" BY CallMapIs DEF TypeOK
<1>2. \A d \in Clients : d # c => callMap'[d] = callMap[d]
  <2>1. \A d \in Clients : d # c => reply'[d] = reply[d] /\ cli'[d] = cli[d] BY DEF TypeOK
  <2> QED BY <2>1, CallMapIs
<1>3. callMap' = [callMap EXCEPT ![c] = "answered"] BY <1>1, <1>2, OneCall
<1>4. Calls!Answer(c) BY <1>1, <1>3 DEF Calls!Answer
<1> QED BY <1>4 DEF Calls!Next

\* Every step of the host is a step of FsCalls, or none.
LEMMA CallsStep ==
  ASSUME HostInv, [Next]_vars
  PROVE  Calls!Next \/ UNCHANGED <<callMap, stop>>
<1>0. TypeOK /\ OnePlace /\ QueuedOnce BY DEF HostInv, WakeInv
<1>1. ASSUME UNCHANGED <<cli, reply, stop>> PROVE UNCHANGED <<callMap, stop>>
  BY <1>1 DEF callMap
<1>2. ASSUME NEW c \in Clients, Client(c) PROVE Calls!Next \/ UNCHANGED <<callMap, stop>>
  <2>1. CASE Screen(c) \/ (Push(c) /\ ~rx)
    <3>1. UNCHANGED <<reply, stop>> /\ cli[c] # "wait" /\ cli'[c] # "wait"
      BY <1>0, <2>1 DEF Screen, Push, TypeOK
    <3>2. \A d \in Clients : d # c => cli'[d] = cli[d] BY <1>0, <2>1 DEF Screen, Push, TypeOK
    <3>3. \A d \in Clients : callMap'[d] = callMap[d] BY <3>1, <3>2, CallMapIs
    <3> QED BY <3>1, <3>3, CallMapIs
  <2>2. CASE Push(c) /\ rx
    <3>1. cli[c] = "push" /\ cli' = [cli EXCEPT ![c] = "wait"] /\ UNCHANGED <<reply, stop>>
      BY <2>2, Zenon DEF Push
    <3>2. reply[c] = "none" BY <1>0, <3>1 DEF OnePlace
    <3>3. callMap[c] = "idle" /\ callMap'[c] = "open" BY <1>0, <3>1, <3>2, CallMapIs DEF TypeOK
    <3>4. \A d \in Clients : d # c => callMap'[d] = callMap[d]
      <4>1. \A d \in Clients : d # c => reply'[d] = reply[d] /\ cli'[d] = cli[d]
        BY <1>0, <3>1 DEF TypeOK
      <4> QED BY <4>1, CallMapIs
    <3>5. callMap' = [callMap EXCEPT ![c] = "open"] BY <3>3, <3>4, OneCall
    <3>6. Calls!Open(c) BY <3>1, <3>3, <3>5 DEF Calls!Open
    <3> QED BY <3>6 DEF Calls!Next
  <2>3. CASE Recv(c)
    <3>1. /\ reply[c] # "none" /\ cli' = [cli EXCEPT ![c] = "idle"]
          /\ reply' = [reply EXCEPT ![c] = "none"] /\ UNCHANGED stop
      BY <2>3 DEF Recv
    <3>2. callMap[c] = "answered" /\ callMap'[c] = "idle" BY <1>0, <3>1, CallMapIs DEF TypeOK
    <3>3. \A d \in Clients : d # c => callMap'[d] = callMap[d]
      <4>1. \A d \in Clients : d # c => reply'[d] = reply[d] /\ cli'[d] = cli[d]
        BY <1>0, <3>1 DEF TypeOK
      <4> QED BY <4>1, CallMapIs
    <3>4. callMap' = [callMap EXCEPT ![c] = "idle"] BY <3>2, <3>3, OneCall
    <3>5. Calls!Return(c) BY <3>1, <3>2, <3>4 DEF Calls!Return
    <3> QED BY <3>5 DEF Calls!Next
  <2> QED BY <1>2, <2>1, <2>2, <2>3 DEF Client
<1>3. CASE RequestStop
  <2>1. stop' = TRUE /\ UNCHANGED <<cli, reply>> BY <1>3 DEF RequestStop, cliVars
  <2>2. Calls!Close BY <2>1 DEF Calls!Close, callMap
  <2> QED BY <2>2 DEF Calls!Next
<1>4. CASE (\E w \in Workers : SubmitOffload(w) \/ Publish(w)) \/ (\E p \in Pokers : PokeStep(p))
           \/ Kernel \/ UNCHANGED vars
  BY <1>1, <1>4 DEF SubmitOffload, Publish, PokeStep, Kernel, KernelRead, KernelCancel, KernelOp,
     vars, cliVars
<1>5. CASE Loop
  <2> USE DEF outside, cliVars
  <2>1. ASSUME NEW c \in Clients, op[c] # "none", reply' = [reply EXCEPT ![c] = "done"],
               UNCHANGED <<cli, stop>>
        PROVE  Calls!Next
    BY <1>0, <2>1, AnswerIs DEF OnePlace
  <2>2. ASSUME NEW c \in Clients, DispatchOp(c) PROVE Calls!Next
    BY <2>1, <2>2 DEF DispatchOp
  <2>3. CASE DrainReap
    BY <1>1, <2>1, <2>3 DEF DrainReap, Completions
  <2>4. CASE DrainInject \/ FlushInject
    <3> DEFINE h == Head(inject)
    <3>1. inject # <<>> /\ inject' = Tail(inject) /\ UNCHANGED <<cli, stop>>
      BY <2>4 DEF DrainInject, FlushInject
    <3>2. h \in Clients /\ Queued(h) BY <1>0, <3>1, HeadTaken
    <3>3. cli[h] = "wait" /\ reply[h] = "none" BY <1>0, <3>2 DEF OnePlace
    <3>4. reply' = reply \/ \E r \in {"busy", "aborted"} : reply' = [reply EXCEPT ![h] = r]
      BY <2>4 DEF DrainInject, FlushInject
    <3> QED BY <1>0, <1>1, <3>1, <3>2, <3>3, <3>4, AnswerIs
  <2>5. CASE DropHost
    <3> DEFINE S == {c \in Clients : Queued(c)}
    <3>1. /\ reply' = [c \in Clients |-> IF Queued(c) THEN "gone" ELSE reply[c]]
          /\ UNCHANGED <<cli, stop>>
      BY <2>5 DEF DropHost
    <3>2. \A c \in S : callMap[c] = "open" BY <1>0, CallMapIs DEF OnePlace
    <3>3. \A c \in Clients : callMap'[c] = IF c \in S THEN "answered" ELSE callMap[c]
      BY <3>1, CallMapIs
    <3>4. callMap' = [c \in Clients |-> IF c \in S THEN "answered" ELSE callMap[c]]
      BY <3>3, CallMapIs
    <3>5. Calls!AnswerAll(S) BY <3>1, <3>2, <3>4 DEF Calls!AnswerAll
    <3> QED BY <3>5 DEF Calls!Next
  <2>6. CASE RunArm \/ RunActivate \/ LoopHead \/ LoopPark \/ LoopParkRefused \/ LoopEnter
             \/ LoopWake \/ LoopUnpark \/ DispatchWake \/ ReapEmpty \/ DrainInjectsDone
    BY <1>1, <2>6 DEF RunArm, RunActivate, LoopHead, LoopPark, LoopParkRefused, LoopEnter,
       LoopWake, LoopUnpark, DispatchWake, ReapEmpty, DrainInjectsDone
  <2>7. CASE DrainPool \/ LoopSubmit \/ StopWindow \/ CancelAll \/ DrainEnter \/ DrainWake
             \/ DrainReaped \/ RunReturn
    BY <1>1, <2>7 DEF DrainPool, LoopSubmit, StopWindow, CancelAll, DrainEnter, DrainWake,
       DrainReaped, RunReturn
  <2> QED BY <1>5, <2>2, <2>3, <2>4, <2>5, <2>6, <2>7 DEF Loop
<1> QED BY <1>2, <1>3, <1>4, <1>5 DEF Next

\* The host implements what FsHandle promises, as far as safety goes: a call is
\* open from the push of its message, gets one answer, and only its caller takes
\* the answer away.
THEOREM CallsRefined == Spec => Calls!Steps
<1>1. Init => Calls!Init BY DEF Init, Calls!Init, callMap
<1>2. HostInv /\ [Next]_vars => [Calls!Next]_(Calls!callVars)
  BY CallsStep DEF Calls!callVars
<1> QED BY <1>1, <1>2, HostInvariant, PTL DEF Spec, Calls!Steps
=============================================================================
