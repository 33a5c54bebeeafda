---------------------------- MODULE FsHostProofs ----------------------------
(***************************************************************************)
(* Proofs about FsHost, for any number of clients, workers and calls: its  *)
(* type invariant and the absence of lost wake-ups.                        *)
(***************************************************************************)
EXTENDS FsHost, FiniteSetTheorems, TLAPS

\* Clients, workers and the stopper are the threads that poke.
LEMMA PokersAre == Clients \subseteq Pokers /\ Workers \subseteq Pokers /\ Stopper \in Pokers
BY HostAssumption

\* A step of a thread other than the loop, or of the kernel.
Others ==
  \/ \E c \in Clients : Client(c)
  \/ \E w \in Workers : SubmitOffload(w) \/ Publish(w)
  \/ RequestStop
  \/ \E p \in Pokers : PokeStep(p)
  \/ Kernel

\* The type invariant is inductive: each action keeps every variable in its type.
LEMMA TypeStep == ASSUME TypeOK, [Next]_vars PROVE TypeOK'
<1> USE DEF TypeOK, wakeVars, loopVars, ringVars, cliVars, outside
<1>1. ASSUME NEW c \in Clients, Client(c) PROVE TypeOK'
  <2>1. CASE Screen(c) BY <2>1 DEF Screen
  <2>2. CASE Push(c)
    <3>1. CASE rx
      <4>1. c \in Pokers BY PokersAre
      <4>2. inject' = Append(inject, c) BY <2>2, <3>1, Zenon DEF Push
      <4>3. inject \in Seq(Clients) OBVIOUS
      <4>4. inject' \in Seq(Clients) BY <4>2, <4>3
      <4> QED BY <2>2, <3>1, <4>1, <4>4 DEF Push
    <3>2. CASE ~rx
      <4>1. cli' = [cli EXCEPT ![c] = "idle"] /\ UNCHANGED <<inject, poke>> BY <2>2, <3>2 DEF Push
      <4> QED BY <2>2, <4>1 DEF Push
    <3> QED BY <3>1, <3>2
  <2>3. CASE Recv(c) BY <2>3 DEF Recv
  <2> QED BY <1>1, <2>1, <2>2, <2>3 DEF Client
<1>2. ASSUME NEW w \in Workers, SubmitOffload(w) PROVE TypeOK'
  BY <1>2 DEF SubmitOffload
<1>3. ASSUME NEW w \in Workers, Publish(w) PROVE TypeOK'
  BY <1>3, PokersAre DEF Publish
<1>4. CASE RequestStop
  BY <1>4, PokersAre DEF RequestStop
<1>5. ASSUME NEW p \in Pokers, PokeStep(p) PROVE TypeOK'
  <2> USE DEF States, LEGACY, ACTIVE, PARKED, NOTIFIED
  <2>1. CASE PokeLoad(p) BY <1>5, <2>1 DEF PokeStep, PokeLoad, Observe, Decide
  <2>2. CASE PokeCas(p)
    <3>1. state' \in States /\ efd' \in Nat BY <2>2 DEF PokeCas
    <3>2. poke' \in [Pokers -> {"idle", "load", "cas", "write"}]
      <4>1. Decide(state) \in {"idle", "load", "cas", "write"} BY DEF Decide
      <4>2. \/ poke' = [poke EXCEPT ![p] = IF seen[p] = ACTIVE THEN "idle" ELSE "write"]
            \/ poke' = [poke EXCEPT ![p] = Decide(state)]
        BY <2>2, Zenon DEF PokeCas, Observe
      <4> QED BY <4>1, <4>2
    <3>3. seen' \in [Pokers -> States] BY <2>2 DEF PokeCas, Observe
    <3>4. UNCHANGED <<stop, asked, cliVars, reply, inject, rx, job, sink, loopVars, ringVars>>
      BY <1>5 DEF PokeStep
    <3> QED BY <3>1, <3>2, <3>3, <3>4
  <2>3. CASE PokeWrite(p) BY <1>5, <2>3 DEF PokeStep, PokeWrite
  <2> QED BY <1>5, <2>1, <2>2, <2>3 DEF PokeStep, Poke
<1>6. CASE Kernel
  <2> USE DEF Entry
  <2>1. CASE KernelRead \/ KernelCancel BY <2>1 DEF KernelRead, KernelCancel
  <2>2. ASSUME NEW c \in Clients, KernelOp(c) PROVE TypeOK' BY <2>2 DEF KernelOp
  <2> QED BY <1>6, <2>1, <2>2 DEF Kernel
<1>7. CASE Loop
  <2> USE DEF LoopPlaces, Entry
  <2>1. CASE RunArm BY <2>1 DEF RunArm
  <2>2. CASE RunActivate
    BY <2>2 DEF RunActivate, Activated, States, LEGACY, ACTIVE
  <2>3. CASE LoopHead BY <2>3 DEF LoopHead
  <2>4. CASE LoopPark BY <2>4 DEF LoopPark, Parked, States, PARKED
  <2>5. CASE LoopParkRefused BY <2>5 DEF LoopParkRefused, States, ACTIVE
  <2>6. CASE LoopEnter
    <3>1. rd' \in Entry /\ cxl' \in Entry /\ op' \in [Clients -> Entry]
      BY <2>6 DEF LoopEnter, Submit, Submitted
    <3>2. pc' \in LoopPlaces /\ bounded' \in BOOLEAN /\ err' \in BOOLEAN
      BY <2>6 DEF LoopEnter
    <3>3. UNCHANGED <<outside, state, efd, reply, inject, rx, sink, ret, inflight>> BY <2>6 DEF LoopEnter
    <3> QED BY <3>1, <3>2, <3>3
  <2>7. CASE LoopWake
    <3>1. pc' \in LoopPlaces /\ bounded' \in BOOLEAN BY <2>7 DEF LoopWake
    <3>2. UNCHANGED <<outside, state, efd, reply, inject, rx, sink, ret, err, inflight, ringVars>>
      BY <2>7 DEF LoopWake
    <3> QED BY <3>1, <3>2
  <2>8. CASE LoopUnpark BY <2>8 DEF LoopUnpark, States, LEGACY, ACTIVE
  <2>9. CASE DispatchWake
    <3>1. rd' \in Entry /\ inflight' \in Nat BY <2>9 DEF DispatchWake, Retire
    <3>2. pc' \in LoopPlaces /\ ret' \in {"reap", "submit"} /\ err' \in BOOLEAN
      BY <2>9 DEF DispatchWake
    <3>3. UNCHANGED <<outside, state, efd, reply, inject, rx, sink, bounded, op, cxl>> BY <2>9 DEF DispatchWake
    <3> QED BY <3>1, <3>2, <3>3
  <2>10. ASSUME NEW c \in Clients, DispatchOp(c) PROVE TypeOK' BY <2>10 DEF DispatchOp, Retire
  <2>11. CASE ReapEmpty BY <2>11 DEF ReapEmpty
  <2>12. CASE DrainInject
    <3>1. Head(inject) \in Clients /\ Tail(inject) \in Seq(Clients) BY <2>12 DEF DrainInject
    <3>2. inject' \in Seq(Clients) BY <2>12, <3>1 DEF DrainInject
    <3>3. op' \in [Clients -> Entry] BY <2>12, <3>1 DEF DrainInject
    <3>4. reply' \in [Clients -> {"none", "done", "busy", "aborted", "gone"}]
      BY <2>12, <3>1 DEF DrainInject
    <3>5. inflight' \in Nat BY <2>12 DEF DrainInject
    <3>6. UNCHANGED <<outside, state, efd, rx, sink, pc, ret, bounded, err, rd, cxl>> BY <2>12 DEF DrainInject
    <3> QED BY <3>2, <3>3, <3>4, <3>5, <3>6
  <2>13. CASE DrainInjectsDone BY <2>13 DEF DrainInjectsDone
  <2>14. CASE DrainPool BY <2>14 DEF DrainPool, DeliverPool
  <2>15. CASE LoopSubmit
    <3>1. rd' \in Entry /\ cxl' \in Entry /\ op' \in [Clients -> Entry]
      BY <2>15 DEF LoopSubmit, Submit, Submitted
    <3>2. pc' \in LoopPlaces /\ bounded' \in BOOLEAN /\ err' \in BOOLEAN
      BY <2>15 DEF LoopSubmit
    <3>3. UNCHANGED <<outside, state, efd, reply, inject, rx, sink, ret, inflight>> BY <2>15 DEF LoopSubmit
    <3> QED BY <3>1, <3>2, <3>3
  <2>16. CASE StopWindow BY <2>16 DEF StopWindow, DeliverPool
  <2>17. CASE CancelAll BY <2>17 DEF CancelAll, Leak
  <2>18. CASE DrainEnter
    <3>1. rd' \in Entry /\ cxl' \in Entry /\ op' \in [Clients -> Entry]
      BY <2>18 DEF DrainEnter, Leak, Submit, Submitted
    <3>2. pc' \in LoopPlaces /\ bounded' \in BOOLEAN /\ err' \in BOOLEAN
      BY <2>18 DEF DrainEnter, Leak
    <3>3. UNCHANGED <<outside, state, efd, reply, inject, rx, sink, ret, inflight>> BY <2>18 DEF DrainEnter
    <3> QED BY <3>1, <3>2, <3>3
  <2>19. CASE DrainWake BY <2>19 DEF DrainWake
  <2>20. CASE DrainReap
    <3>1. rd' \in Entry /\ cxl' \in Entry /\ op' \in [Clients -> Entry]
      BY <2>20 DEF DrainReap, Completions
    <3>2. reply' \in [Clients -> {"none", "done", "busy", "aborted", "gone"}]
      BY <2>20 DEF DrainReap, Completions
    <3>3. inflight' \in Nat BY <2>20 DEF DrainReap, Retire
    <3>4. UNCHANGED <<outside, state, efd, inject, rx, sink, pc, ret, bounded, err>> BY <2>20 DEF DrainReap
    <3> QED BY <3>1, <3>2, <3>3, <3>4
  <2>21. CASE DrainReaped BY <2>21 DEF DrainReaped
  <2>22. CASE FlushInject
    <3>1. Head(inject) \in Clients /\ Tail(inject) \in Seq(Clients) BY <2>22 DEF FlushInject
    <3>2. inject' \in Seq(Clients) BY <2>22, <3>1 DEF FlushInject
    <3>3. reply' \in [Clients -> {"none", "done", "busy", "aborted", "gone"}]
      BY <2>22, <3>1 DEF FlushInject
    <3>4. UNCHANGED <<outside, state, efd, rx, sink, pc, ret, bounded, err, inflight, ringVars>>
      BY <2>22 DEF FlushInject
    <3> QED BY <3>2, <3>3, <3>4
  <2>23. CASE RunReturn BY <2>23 DEF RunReturn
  <2>24. CASE DropHost
    <3>1. inject' \in Seq(Clients) BY <2>24 DEF DropHost
    <3>2. reply' \in [Clients -> {"none", "done", "busy", "aborted", "gone"}]
      BY <2>24 DEF DropHost
    <3>3. rx' \in BOOLEAN /\ pc' \in LoopPlaces BY <2>24 DEF DropHost
    <3>4. UNCHANGED <<outside, state, efd, sink, ret, bounded, err, inflight, ringVars>> BY <2>24 DEF DropHost
    <3> QED BY <3>1, <3>2, <3>3, <3>4
  <2> QED BY <1>7, <2>1, <2>2, <2>3, <2>4, <2>5, <2>6, <2>7, <2>8, <2>9, <2>10, <2>11, <2>12,
             <2>13, <2>14, <2>15, <2>16, <2>17, <2>18, <2>19, <2>20, <2>21, <2>22, <2>23,
             <2>24 DEF Loop
<1>8. CASE UNCHANGED vars
  BY <1>8 DEF vars
<1> QED BY <1>1, <1>2, <1>3, <1>4, <1>5, <1>6, <1>7, <1>8 DEF Next

\* A poker keeps in `cur` only a state it may exchange.
LEMMA SeenStep == ASSUME TypeOK, SeenOK, [Next]_vars PROVE SeenOK'
<1> USE DEF SeenOK
<1>1. ASSUME NEW p \in Pokers, PokeStep(p) PROVE SeenOK'
  <2> SUFFICES ASSUME NEW q \in Pokers, poke'[q] = "cas" PROVE seen'[q] \in {ACTIVE, PARKED}
    OBVIOUS
  <2>1. CASE q = p
    BY <1>1, <2>1 DEF PokeStep, Poke, PokeLoad, PokeCas, PokeWrite, Observe, Decide, TypeOK,
                      States, LEGACY, ACTIVE, PARKED, NOTIFIED
  <2>2. CASE q # p
    BY <1>1, <2>2 DEF PokeStep, Poke, PokeLoad, PokeCas, PokeWrite, Observe, TypeOK
  <2> QED BY <2>1, <2>2
<1>2. CASE UNCHANGED <<poke, seen>> BY <1>2
<1>3. ASSUME NEW c \in Pokers, poke' = [poke EXCEPT ![c] = "load"], UNCHANGED seen PROVE SeenOK'
  BY <1>3 DEF TypeOK
<1>4. ASSUME NEW c \in Clients, Client(c) PROVE SeenOK'
  <2>1. CASE Push(c)
    <3>1. CASE rx BY <1>3, <2>1, <3>1, PokersAre DEF Push
    <3>2. CASE ~rx BY <1>2, <2>1, <3>2 DEF Push
    <3> QED BY <3>1, <3>2
  <2> QED BY <1>2, <1>4, <2>1 DEF Client, Screen, Recv, wakeVars
<1>5. ASSUME NEW w \in Workers, SubmitOffload(w) \/ Publish(w) PROVE SeenOK'
  BY <1>2, <1>3, <1>5, PokersAre DEF SubmitOffload, Publish
<1>6. CASE RequestStop BY <1>3, <1>6, PokersAre DEF RequestStop
<1>7. CASE Kernel BY <1>2, <1>7 DEF Kernel, KernelRead, KernelOp, KernelCancel, wakeVars
<1>8. CASE Loop
  BY <1>2, <1>8 DEF Loop, outside, RunArm, RunActivate, LoopHead, LoopPark, LoopParkRefused,
     LoopEnter, LoopWake, LoopUnpark, DispatchWake, DispatchOp, ReapEmpty, DrainInject,
     DrainInjectsDone, DrainPool, LoopSubmit, StopWindow, CancelAll, DrainEnter, DrainWake,
     DrainReap, DrainReaped, FlushInject, RunReturn, DropHost
<1>9. CASE UNCHANGED vars BY <1>2, <1>9 DEF vars, wakeVars
<1> QED BY <1>1, <1>4, <1>5, <1>6, <1>7, <1>8, <1>9 DEF Next

\* The loop's place and the shared word keep step: a poker can only notify.
LEMMA PlaceStep == ASSUME TypeOK, SeenOK, PlaceState, [Next]_vars PROVE PlaceState'
<1> USE DEF PlaceState, Asleep, Awake, LEGACY, ACTIVE, PARKED, NOTIFIED
<1>1. CASE UNCHANGED <<pc, state>> BY <1>1
<1>2. ASSUME NEW p \in Pokers, PokeStep(p) PROVE PlaceState'
  <2>1. UNCHANGED state \/ (state \in {ACTIVE, PARKED} /\ state' = NOTIFIED)
    BY <1>2 DEF PokeStep, Poke, PokeLoad, PokeCas, PokeWrite, SeenOK
  <2>2. UNCHANGED pc BY <1>2 DEF PokeStep, loopVars
  <2> QED BY <2>1, <2>2
<1>3. CASE Loop
  <2>1. CASE RunArm BY <2>1 DEF RunArm
  <2>2. CASE RunActivate BY <2>2 DEF RunActivate, Activated
  <2>3. CASE LoopHead BY <2>3 DEF LoopHead
  <2>4. CASE LoopPark BY <2>4 DEF LoopPark, Parked, ParkBlocks
  <2>5. CASE LoopParkRefused BY <2>5 DEF LoopParkRefused
  <2>6. CASE LoopEnter \/ LoopWake BY <2>6 DEF LoopEnter, LoopWake
  <2>7. CASE LoopUnpark BY <2>7 DEF LoopUnpark
  <2>8. CASE DispatchWake \/ ReapEmpty \/ DrainInjectsDone \/ LoopSubmit
    BY <2>8 DEF DispatchWake, ReapEmpty, DrainInjectsDone, LoopSubmit
  <2>9. ASSUME NEW c \in Clients, DispatchOp(c) PROVE PlaceState' BY <2>9 DEF DispatchOp
  <2>10. CASE DrainInject BY <1>1, <2>10 DEF DrainInject
  <2>11. CASE DrainPool BY <2>11 DEF DrainPool, TypeOK
  <2>12. CASE StopWindow \/ CancelAll \/ DrainEnter \/ DrainWake \/ DrainReaped
    BY <2>12 DEF StopWindow, CancelAll, DrainEnter, DrainWake, DrainReaped, Leak
  <2>13. CASE DrainReap \/ FlushInject \/ RunReturn \/ DropHost
    BY <2>13 DEF DrainReap, FlushInject, RunReturn, DropHost
  <2> QED BY <1>3, <2>1, <2>2, <2>3, <2>4, <2>5, <2>6, <2>7, <2>8, <2>9, <2>10, <2>11, <2>12,
             <2>13 DEF Loop
<1>4. CASE (\E c \in Clients : Client(c)) \/ (\E w \in Workers : SubmitOffload(w) \/ Publish(w))
           \/ RequestStop \/ Kernel \/ UNCHANGED vars
  BY <1>1, <1>4 DEF Client, Screen, Push, Recv, SubmitOffload, Publish, RequestStop, Kernel,
     KernelRead, KernelOp, KernelCancel, vars, loopVars, wakeVars
<1> QED BY <1>2, <1>3, <1>4 DEF Next

\* A READ is in the ring wherever the loop may go to sleep.
LEMMA ReadStep == ASSUME TypeOK, ReadArmed, [Next]_vars PROVE ReadArmed'
<1> USE DEF ReadArmed, Asleep, Owing
<1>1. ASSUME UNCHANGED <<pc, ret, rd>>, stop => stop' PROVE ReadArmed' BY <1>1
<1>2. CASE Kernel
  <2>1. CASE KernelRead BY <2>1 DEF KernelRead, loopVars
  <2>2. CASE KernelCancel BY <2>2 DEF KernelCancel, loopVars
  <2>3. ASSUME NEW c \in Clients, KernelOp(c) PROVE ReadArmed' BY <1>1, <2>3 DEF KernelOp, loopVars
  <2> QED BY <1>2, <2>1, <2>2, <2>3 DEF Kernel
<1>3. CASE Loop
  <2> USE DEF outside
  <2>1. CASE RunArm BY <2>1 DEF RunArm
  <2>2. CASE RunActivate BY <2>2 DEF RunActivate, ringVars
  <2>3. CASE LoopHead BY <2>3 DEF LoopHead, ringVars
  <2>4. CASE LoopPark BY <2>4 DEF LoopPark, ringVars
  <2>5. CASE LoopParkRefused BY <2>5 DEF LoopParkRefused, ringVars
  <2>6. CASE LoopEnter BY <2>6 DEF LoopEnter, Submit, Submitted, ringVars
  <2>7. CASE LoopWake BY <2>7 DEF LoopWake, ringVars
  <2>8. CASE LoopUnpark BY <2>8 DEF LoopUnpark, ringVars
  <2>9. CASE DispatchWake BY <2>9 DEF DispatchWake
  <2>10. ASSUME NEW c \in Clients, DispatchOp(c) PROVE ReadArmed' BY <2>10 DEF DispatchOp
  <2>11. CASE ReapEmpty BY <2>11 DEF ReapEmpty, ringVars
  <2>12. CASE DrainInject BY <2>12 DEF DrainInject
  <2>13. CASE DrainInjectsDone BY <2>13 DEF DrainInjectsDone, ringVars
  <2>14. CASE DrainPool BY <2>14 DEF DrainPool, TypeOK, ringVars
  <2>15. CASE LoopSubmit BY <2>15 DEF LoopSubmit, Submit, Submitted, ringVars
  <2>16. CASE StopWindow \/ CancelAll \/ DrainEnter \/ DrainWake \/ DrainReaped
    BY <2>16 DEF StopWindow, CancelAll, DrainEnter, DrainWake, DrainReaped, Leak
  <2>17. CASE DrainReap \/ FlushInject \/ RunReturn \/ DropHost
    BY <2>17 DEF DrainReap, FlushInject, RunReturn, DropHost
  <2> QED BY <1>3, <2>1, <2>2, <2>3, <2>4, <2>5, <2>6, <2>7, <2>8, <2>9, <2>10, <2>11, <2>12,
             <2>13, <2>14, <2>15, <2>16, <2>17 DEF Loop
<1>4. CASE (\E c \in Clients : Client(c)) \/ (\E w \in Workers : SubmitOffload(w) \/ Publish(w))
           \/ RequestStop \/ (\E p \in Pokers : PokeStep(p)) \/ UNCHANGED vars
  BY <1>1, <1>4 DEF Client, Screen, Push, Recv, SubmitOffload, Publish, RequestStop, PokeStep,
     vars, loopVars, ringVars
<1> QED BY <1>2, <1>3, <1>4 DEF Next

\* A poke runs only for an item its poker has published.
LEMMA IdleStep == ASSUME TypeOK, PokerIdle, [Next]_vars PROVE PokerIdle'
<1> USE DEF PokerIdle, TypeOK
<1>1. ASSUME UNCHANGED <<cli, job, asked, poke>> PROVE PokerIdle' BY <1>1
<1>2. ASSUME NEW c \in Clients, Client(c) PROVE PokerIdle'
  <2> USE DEF wakeVars, cliVars
  <2>1. CASE Screen(c) BY <2>1 DEF Screen
  <2>2. CASE Push(c)
    <3>1. CASE rx
      <4>1. /\ cli' = [cli EXCEPT ![c] = "wait"] /\ poke' = [poke EXCEPT ![c] = "load"]
            /\ UNCHANGED <<job, asked>>
        BY <2>2, <3>1, Zenon DEF Push
      <4> QED BY <4>1, HostAssumption
    <3>2. CASE ~rx
      <4>1. /\ cli[c] = "push" /\ cli' = [cli EXCEPT ![c] = "idle"]
            /\ UNCHANGED <<job, asked, poke>>
        BY <2>2, <3>2, Zenon DEF Push
      <4> QED BY <4>1
    <3> QED BY <3>1, <3>2
  <2>3. CASE Recv(c) BY <2>3 DEF Recv
  <2> QED BY <1>2, <2>1, <2>2, <2>3 DEF Client
<1>3. ASSUME NEW w \in Workers, SubmitOffload(w) PROVE PokerIdle'
  BY <1>3 DEF SubmitOffload, cliVars
<1>4. ASSUME NEW w \in Workers, Publish(w) PROVE PokerIdle'
  BY <1>4, HostAssumption DEF Publish, cliVars
<1>5. CASE RequestStop BY <1>5, HostAssumption DEF RequestStop, cliVars
<1>6. ASSUME NEW p \in Pokers, PokeStep(p) PROVE PokerIdle'
  <2>1. poke[p] # "idle" /\ \A q \in Pokers : q # p => poke'[q] = poke[q]
    BY <1>6 DEF PokeStep, Poke, PokeLoad, PokeCas, PokeWrite, Observe
  <2>2. UNCHANGED <<cli, job, asked>> BY <1>6 DEF PokeStep, cliVars
  <2> QED BY <2>1, <2>2, PokersAre
<1>7. CASE Kernel \/ UNCHANGED vars
  BY <1>1, <1>7 DEF Kernel, KernelRead, KernelOp, KernelCancel, vars, wakeVars, cliVars
<1>8. ASSUME UNCHANGED <<poke, cli, asked>>, DeliverPool PROVE PokerIdle'
  BY <1>8 DEF DeliverPool
<1>9. CASE Loop
  <2>1. UNCHANGED <<poke, cli, asked>> /\ (UNCHANGED job \/ DeliverPool)
    BY <1>9 DEF Loop, outside, cliVars, RunArm, RunActivate, LoopHead, LoopPark, LoopParkRefused,
       LoopEnter, LoopWake, LoopUnpark, DispatchWake, DispatchOp, ReapEmpty, DrainInject,
       DrainInjectsDone, DrainPool, LoopSubmit, StopWindow, CancelAll, DrainEnter, DrainWake,
       DrainReap, DrainReaped, FlushInject, RunReturn, DropHost
  <2> QED BY <1>1, <1>8, <2>1
<1> QED BY <1>2, <1>3, <1>4, <1>5, <1>6, <1>7, <1>9 DEF Next

\* Threads other than the loop never take a wake-up back.
LEMMA TokenStays ==
  ASSUME TypeOK, PokerIdle, Token, Others \/ UNCHANGED vars
  PROVE  Token'
<1> USE DEF Token
<1>1. ASSUME UNCHANGED <<efd, poke>>, rd = "cqe" => rd' = "cqe" PROVE Token' BY <1>1
<1>2. ASSUME UNCHANGED <<efd, rd>>, NEW p \in Pokers, poke[p] # "write",
             poke' = [poke EXCEPT ![p] = "load"]
      PROVE  Token'
  BY <1>2 DEF TypeOK
<1>3. ASSUME NEW p \in Pokers, PokeStep(p) PROVE Token'
  <2>1. UNCHANGED rd BY <1>3 DEF PokeStep, ringVars
  <2>2. CASE PokeWrite(p) BY <2>2 DEF PokeWrite, TypeOK
  <2>3. CASE PokeLoad(p) \/ PokeCas(p)
    <3>1. UNCHANGED efd /\ poke[p] # "write" BY <2>3 DEF PokeLoad, PokeCas
    <3>2. \A q \in Pokers : q # p => poke'[q] = poke[q]
      BY <2>3 DEF PokeLoad, PokeCas, Observe, TypeOK
    <3> QED BY <2>1, <3>1, <3>2
  <2> QED BY <1>3, <2>2, <2>3 DEF PokeStep, Poke
<1>4. CASE Kernel
  <2>1. CASE KernelRead BY <2>1 DEF KernelRead
  <2>2. CASE KernelCancel BY <1>1, <2>2 DEF KernelCancel, wakeVars
  <2>3. ASSUME NEW c \in Clients, KernelOp(c) PROVE Token' BY <1>1, <2>3 DEF KernelOp, wakeVars
  <2> QED BY <1>4, <2>1, <2>2, <2>3 DEF Kernel
<1>5. ASSUME NEW c \in Clients, Client(c) PROVE Token'
  <2>1. CASE Screen(c) \/ Recv(c) BY <1>1, <2>1 DEF Screen, Recv, wakeVars, ringVars
  <2>2. CASE Push(c)
    <3>1. poke[c] = "idle" BY <2>2 DEF Push, PokerIdle
    <3>2. CASE rx BY <1>2, <2>2, <3>1, <3>2, PokersAre DEF Push, ringVars
    <3>3. CASE ~rx BY <1>1, <2>2, <3>3 DEF Push, ringVars
    <3> QED BY <3>2, <3>3
  <2> QED BY <1>5, <2>1, <2>2 DEF Client
<1>6. ASSUME NEW w \in Workers, SubmitOffload(w) \/ Publish(w) PROVE Token'
  <2>1. CASE SubmitOffload(w) BY <1>1, <2>1 DEF SubmitOffload, ringVars
  <2>2. CASE Publish(w)
    <3>1. poke[w] = "idle" BY <2>2 DEF Publish, PokerIdle
    <3> QED BY <1>2, <2>2, <3>1, PokersAre DEF Publish, ringVars
  <2> QED BY <1>6, <2>1, <2>2
<1>7. CASE RequestStop
  <2>1. poke[Stopper] = "idle" BY <1>7 DEF RequestStop, PokerIdle
  <2> QED BY <1>2, <1>7, <2>1, PokersAre DEF RequestStop, ringVars
<1>8. CASE UNCHANGED vars BY <1>1, <1>8 DEF vars, wakeVars, ringVars
<1> QED BY <1>3, <1>4, <1>5, <1>6, <1>7, <1>8 DEF Others

\* The loop takes a wake-up only by reaping the READ.
LEMMA TokenKept ==
  ASSUME TypeOK, ReadArmed, Token, Loop
  PROVE  Token' \/ DispatchWake \/ DrainReap
<1> USE DEF Token
<1>1. ASSUME UNCHANGED <<efd, poke>>, rd = "cqe" => rd' = "cqe" PROVE Token' BY <1>1
<1>2. CASE ~DispatchWake /\ ~DrainReap
  <2>1. UNCHANGED <<efd, poke>>
    BY <1>2 DEF Loop, outside, RunArm, RunActivate, LoopHead, LoopPark, LoopParkRefused,
       LoopEnter, LoopWake, LoopUnpark, DispatchOp, ReapEmpty, DrainInject,
       DrainInjectsDone, DrainPool, LoopSubmit, StopWindow, CancelAll, DrainEnter, DrainWake,
       DrainReaped, FlushInject, RunReturn, DropHost
  <2>2. CASE RunArm
    BY <2>1, <2>2 DEF RunArm, ReadArmed
  <2>3. CASE LoopEnter \/ LoopSubmit \/ DrainEnter
    BY <1>1, <2>1, <2>3 DEF LoopEnter, LoopSubmit, DrainEnter, Submit, Submitted, ringVars
  <2>4. CASE ~RunArm /\ ~LoopEnter /\ ~LoopSubmit /\ ~DrainEnter
    <3>1. UNCHANGED rd
      BY <1>2, <2>4 DEF Loop, ringVars, RunActivate, LoopHead, LoopPark, LoopParkRefused,
         LoopWake, LoopUnpark, DispatchOp, ReapEmpty, DrainInject,
         DrainInjectsDone, DrainPool, StopWindow, CancelAll, DrainWake,
         DrainReaped, FlushInject, RunReturn, DropHost
    <3> QED BY <1>1, <2>1, <3>1
  <2> QED BY <2>2, <2>3, <2>4
<1> QED BY <1>2

\* The loop only takes items off what it is owed.
LEMMA LoopOwes ==
  ASSUME TypeOK, Loop, NEW p \in Pokers, Owed(p)'
  PROVE  Owed(p) /\ (DrainInjectsDone => p \notin Clients) /\ (DrainPool /\ p \notin Clients => p = Stopper)
<1>1. UNCHANGED <<poke, stop, asked>>
  BY DEF Loop, outside, RunArm, RunActivate, LoopHead, LoopPark, LoopParkRefused,
     LoopEnter, LoopWake, LoopUnpark, DispatchWake, DispatchOp, ReapEmpty, DrainInject,
     DrainInjectsDone, DrainPool, LoopSubmit, StopWindow, CancelAll, DrainEnter, DrainWake,
     DrainReap, DrainReaped, FlushInject, RunReturn, DropHost
<1>2. sink' = sink \/ sink' = {}
  BY DEF Loop, DeliverPool, RunArm, RunActivate, LoopHead, LoopPark, LoopParkRefused,
     LoopEnter, LoopWake, LoopUnpark, DispatchWake, DispatchOp, ReapEmpty, DrainInject,
     DrainInjectsDone, DrainPool, LoopSubmit, StopWindow, CancelAll, DrainEnter, DrainWake,
     DrainReap, DrainReaped, FlushInject, RunReturn, DropHost
<1>3. inject' = inject \/ inject' = <<>> \/ (inject # <<>> /\ inject' = Tail(inject))
  BY DEF Loop, RunArm, RunActivate, LoopHead, LoopPark, LoopParkRefused,
     LoopEnter, LoopWake, LoopUnpark, DispatchWake, DispatchOp, ReapEmpty, DrainInject,
     DrainInjectsDone, DrainPool, LoopSubmit, StopWindow, CancelAll, DrainEnter, DrainWake,
     DrainReap, DrainReaped, FlushInject, RunReturn, DropHost
<1>4. Queued(p)' => Queued(p)
  <2>1. CASE inject' = inject BY <2>1 DEF Queued
  <2>2. CASE inject' = <<>> BY <2>2 DEF Queued
  <2>3. CASE inject # <<>> /\ inject' = Tail(inject)
    <3> SUFFICES ASSUME NEW i \in 1..Len(inject'), inject'[i] = p PROVE Queued(p)
      BY DEF Queued
    <3>1. inject \in Seq(Clients) BY DEF TypeOK
    <3>2. i + 1 \in 1..Len(inject) /\ inject[i + 1] = p BY <2>3, <3>1
    <3> QED BY <3>2 DEF Queued
  <2> QED BY <1>3, <2>1, <2>2, <2>3
<1>5. Owed(p) BY <1>1, <1>2, <1>4 DEF Owed
<1>6. ASSUME DrainInjectsDone, p \in Clients PROVE FALSE
  <2>1. inject' = <<>> BY <1>6 DEF DrainInjectsDone
  <2>2. ~Queued(p)' BY <2>1 DEF Queued
  <2>3. p \notin sink' BY <1>2, <1>6, HostAssumption DEF TypeOK
  <2> QED BY <1>6, <2>2, <2>3, HostAssumption DEF Owed
<1>7. ASSUME DrainPool, p \notin Clients PROVE p = Stopper
  <2>1. sink' = {} BY <1>7 DEF DrainPool, DeliverPool
  <2> QED BY <1>7, <2>1 DEF Owed
<1> QED BY <1>5, <1>6, <1>7

\* What a poker does about a loop it finds notified, or notifies.
LEMMA PokeCovers ==
  ASSUME TypeOK, PokerIdle, SeenOK, PlaceState, ReadArmed, Covered, NEW q \in Pokers, PokeStep(q)
  PROVE  Covered'
<1> USE DEF LEGACY, ACTIVE, PARKED, NOTIFIED
<1>1. UNCHANGED <<pc, sink, inject, stop, asked>> BY DEF PokeStep, loopVars
<1>2. Token => Token' BY TokenStays DEF Others
<1>3. /\ state' = state \/ (state \in {ACTIVE, PARKED} /\ state' = NOTIFIED)
      /\ state = ACTIVE \/ state' = state \/ poke'[q] = "write"
  BY DEF PokeStep, Poke, PokeLoad, PokeCas, PokeWrite, SeenOK, TypeOK
<1>4. ASSUME Asleep', state' = NOTIFIED PROVE Token'
  <2>1. Asleep BY <1>1, <1>4 DEF Asleep
  <2>2. CASE state = NOTIFIED BY <1>2, <2>1, <2>2 DEF Covered
  <2>3. CASE state # NOTIFIED
    <3>1. state = PARKED BY <2>1, <2>3 DEF PlaceState
    <3>2. poke'[q] = "write" BY <1>3, <1>4, <3>1
    <3> QED BY <3>2 DEF Token
  <2> QED BY <2>2, <2>3
<1>5. ASSUME NEW p \in Pokers, Owed(p)', p # q
      PROVE  Token' \/ Ending' \/ (Awake' /\ state' = NOTIFIED) \/ pc' = "injects"
             \/ (pc' = "pool" /\ p \notin Clients) \/ (p = Stopper /\ pc' \in {"top", "reap", "submit"})
  <2>1. poke'[p] = poke[p]
    BY <1>5 DEF PokeStep, Poke, PokeLoad, PokeCas, PokeWrite, Observe, TypeOK
  <2>2. Owed(p) BY <1>1, <1>5, <2>1 DEF Owed, Queued
  <2>3. Awake /\ state = NOTIFIED => Awake' /\ state' = NOTIFIED BY <1>1, <1>3 DEF Awake
  <2>4. Ending => Ending' BY <1>1 DEF Ending
  <2> QED BY <1>1, <1>2, <2>2, <2>3, <2>4 DEF Covered
<1>6. ASSUME Owed(q)' PROVE Token' \/ Ending' \/ (Awake' /\ state' = NOTIFIED)
  <2>1. poke'[q] = "idle" BY <1>6 DEF Owed
  <2>2. CASE PokeWrite(q)
    <3>1. efd' > 0 BY <2>2 DEF PokeWrite, TypeOK
    <3> QED BY <3>1 DEF Token
  <2>3. CASE PokeLoad(q) \/ PokeCas(q)
    <3>1. state' = NOTIFIED
      BY <2>1, <2>3 DEF PokeLoad, PokeCas, Observe, Decide, TypeOK, States
    <3>2. pc \notin {"arm", "activate"} BY <1>3, <3>1 DEF PlaceState
    <3>3. Asleep' \/ Awake' \/ Ending' BY <1>1, <3>2 DEF TypeOK, LoopPlaces, Asleep, Awake, Ending
    <3> QED BY <1>4, <3>1, <3>3
  <2> QED BY <2>2, <2>3 DEF PokeStep, Poke
<1> QED BY <1>4, <1>5, <1>6 DEF Covered

\* The loop drains every source between the last look and the park.
LEMMA LoopCovers ==
  ASSUME TypeOK, PokerIdle, PlaceState, ReadArmed, Covered, Loop
  PROVE  Covered'
<1> USE DEF LEGACY, ACTIVE, PARKED, NOTIFIED
<1>1. ASSUME Asleep', state' = NOTIFIED PROVE Token'
  <2>1. LoopEnter \/ LoopWake
    BY <1>1 DEF Asleep, PlaceState, TypeOK, Loop, RunArm, RunActivate, LoopHead, LoopPark,
       ParkBlocks, Parked, LoopParkRefused, LoopUnpark, DispatchWake, DispatchOp, ReapEmpty,
       DrainInject, DrainInjectsDone, DrainPool, LoopSubmit, StopWindow, CancelAll, DrainEnter,
       DrainWake, DrainReap, DrainReaped, FlushInject, RunReturn, DropHost, Leak
  <2>2. Asleep /\ state = NOTIFIED BY <1>1, <2>1 DEF LoopEnter, LoopWake, Asleep
  <2>3. ~DispatchWake /\ ~DrainReap BY <2>2 DEF Asleep, DispatchWake, DrainReap
  <2> QED BY <2>2, <2>3, TokenKept DEF Covered
<1>2. ASSUME NEW p \in Pokers, Owed(p)', ~Token'
      PROVE  Ending' \/ (Awake' /\ state' = NOTIFIED) \/ pc' = "injects"
             \/ (pc' = "pool" /\ p \notin Clients) \/ (p = Stopper /\ pc' \in {"top", "reap", "submit"})
  <2> USE DEF Ending, Awake
  <2>1. Owed(p) BY <1>2, LoopOwes
  <2>2. CASE DispatchWake BY <2>2 DEF DispatchWake
  <2>3. CASE DrainReap BY <2>3 DEF DrainReap
  <2>4. CASE ~DispatchWake /\ ~DrainReap
    <3>1. ~Token BY <1>2, <2>4, TokenKept
    <3>2. \/ Ending \/ (Awake /\ state = NOTIFIED) \/ pc = "injects"
          \/ (pc = "pool" /\ p \notin Clients) \/ (p = Stopper /\ pc \in {"top", "reap", "submit"})
      BY <2>1, <3>1 DEF Covered
    <3>3. p = Stopper => stop \/ p \in Clients \cup Workers BY <2>1, HostAssumption DEF Owed, TypeOK
    <3>4. CASE RunArm \/ RunActivate BY <3>2, <3>4 DEF RunArm, RunActivate
    <3>5. CASE LoopHead
      <4>1. CASE p = Stopper
        BY <3>3, <3>5, <4>1, HostAssumption DEF LoopHead
      <4>2. CASE p # Stopper BY <3>2, <3>5, <4>2 DEF LoopHead
      <4> QED BY <4>1, <4>2
    <3>6. CASE LoopPark BY <3>2, <3>6 DEF LoopPark, ParkBlocks, Parked
    <3>7. CASE LoopParkRefused BY <3>7 DEF LoopParkRefused
    <3>8. CASE LoopEnter \/ LoopWake \/ LoopUnpark
      BY <3>2, <3>8 DEF LoopEnter, LoopWake, LoopUnpark
    <3>9. CASE ReapEmpty \/ LoopSubmit BY <3>2, <3>9 DEF ReapEmpty, LoopSubmit
    <3>10. ASSUME NEW c \in Clients, DispatchOp(c)
           PROVE  (Awake' /\ state' = NOTIFIED) \/ (p = Stopper /\ pc' \in {"top", "reap", "submit"})
      BY <3>2, <3>10 DEF DispatchOp
    <3>11. CASE DrainInject BY <3>11 DEF DrainInject
    <3>12. CASE DrainInjectsDone
      <4>1. p \notin Clients BY <1>2, <3>12, LoopOwes
      <4> QED BY <3>12, <4>1 DEF DrainInjectsDone
    <3>13. CASE DrainPool
      <4>1. p \notin Clients => p = Stopper BY <1>2, <3>13, LoopOwes
      <4>2. pc' \in {"reap", "submit"} /\ pc = "pool" /\ state' = state
        BY <3>13 DEF DrainPool, TypeOK
      <4> QED BY <3>2, <4>1, <4>2
    <3>14. CASE StopWindow \/ CancelAll \/ DrainEnter \/ DrainWake \/ DrainReaped
      BY <3>14 DEF StopWindow, CancelAll, DrainEnter, DrainWake, DrainReaped, Leak
    <3>15. CASE FlushInject \/ RunReturn \/ DropHost
      BY <3>15 DEF FlushInject, RunReturn, DropHost
    <3> QED BY <2>4, <3>4, <3>5, <3>6, <3>7, <3>8, <3>9, <3>10, <3>11, <3>12, <3>13, <3>14, <3>15
            DEF Loop
  <2> QED BY <2>2, <2>3, <2>4
<1> QED BY <1>1, <1>2 DEF Covered

\* Publishing an item starts its poke, so the item is not owed yet; every other
\* step of another thread leaves what the loop sees alone.
LEMMA CoveredStep ==
  ASSUME TypeOK, PokerIdle, SeenOK, PlaceState, ReadArmed, Covered, [Next]_vars
  PROVE  Covered'
<1>1. ASSUME UNCHANGED <<pc, state>>, Others \/ UNCHANGED vars, \A p \in Pokers : Owed(p)' => Owed(p)
      PROVE  Covered'
  <2>1. Token => Token' BY <1>1, TokenStays
  <2> QED BY <1>1, <2>1 DEF Covered, Asleep, Awake, Ending
<1>2. CASE Loop BY <1>2, LoopCovers
<1>3. CASE \E q \in Pokers : PokeStep(q) BY <1>3, PokeCovers
<1>4. ASSUME NEW c \in Clients, Client(c) PROVE Covered'
  <2>1. CASE Screen(c) \/ Recv(c)
    BY <1>1, <1>4, <2>1 DEF Others, Screen, Recv, wakeVars, loopVars, Owed, Queued
  <2>2. CASE Push(c)
    <3>1. UNCHANGED <<pc, state, stop, asked, sink>> BY <2>2 DEF Push, loopVars
    <3>2. ASSUME NEW p \in Pokers, Owed(p)' PROVE Owed(p)
      <4>1. CASE rx
        <5>1. inject' = Append(inject, c) /\ poke' = [poke EXCEPT ![c] = "load"]
          BY <2>2, <4>1, Zenon DEF Push
        <5>2. p # c /\ poke'[p] = poke[p] BY <3>2, <5>1 DEF Owed, TypeOK
        <5>3. inject \in Seq(Clients) BY DEF TypeOK
        <5>4. Queued(p)' => Queued(p) BY <5>1, <5>2, <5>3 DEF Queued
        <5> QED BY <3>1, <3>2, <5>2, <5>4 DEF Owed
      <4>2. CASE ~rx
        <5>1. UNCHANGED <<inject, poke>> BY <2>2, <4>2, Zenon DEF Push
        <5> QED BY <3>1, <3>2, <5>1 DEF Owed, Queued
      <4> QED BY <4>1, <4>2
    <3> QED BY <1>1, <1>4, <3>1, <3>2 DEF Others
  <2> QED BY <1>4, <2>1, <2>2 DEF Client
<1>5. ASSUME NEW w \in Workers, SubmitOffload(w) \/ Publish(w) PROVE Covered'
  <2>1. UNCHANGED <<pc, state, stop, asked, inject>> BY <1>5 DEF SubmitOffload, Publish, loopVars
  <2>2. ASSUME NEW p \in Pokers, Owed(p)' PROVE Owed(p)
    BY <1>5, <2>1, <2>2, PokersAre DEF Owed, Queued, SubmitOffload, Publish, TypeOK
  <2> QED BY <1>1, <1>5, <2>1, <2>2 DEF Others
<1>6. CASE RequestStop
  <2>1. UNCHANGED <<pc, state, sink, inject>> BY <1>6 DEF RequestStop, loopVars
  <2>2. ASSUME NEW p \in Pokers, Owed(p)' PROVE Owed(p)
    BY <1>6, <2>1, <2>2, PokersAre DEF Owed, Queued, RequestStop, TypeOK
  <2> QED BY <1>1, <1>6, <2>1, <2>2 DEF Others
<1>7. CASE Kernel \/ UNCHANGED vars
  <2>1. UNCHANGED <<pc, state, poke, stop, asked, sink, inject>>
    BY <1>7 DEF Kernel, KernelRead, KernelOp, KernelCancel, vars, wakeVars, loopVars
  <2> QED BY <1>1, <1>7, <2>1 DEF Others, Owed, Queued
<1> QED BY <1>2, <1>3, <1>4, <1>5, <1>6, <1>7 DEF Next

(***************************************************************************)
(* The theorems.                                                           *)
(***************************************************************************)
\* The state before run() satisfies every conjunct.
LEMMA InitInv == Init => WakeInv
<1> SUFFICES ASSUME Init PROVE WakeInv OBVIOUS
<1> USE DEF Init, WakeInit
<1>1. TypeOK
  <2>1. inject \in Seq(Clients) OBVIOUS
  <2>2. poke \in [Pokers -> {"idle", "load", "cas", "write"}] /\ seen \in [Pokers -> States]
    BY DEF States, LEGACY
  <2>3. cli \in [Clients -> {"idle", "push", "wait"}] /\ calls \in [Clients -> Nat]
    OBVIOUS
  <2>4. reply \in [Clients -> {"none", "done", "busy", "aborted", "gone"}] OBVIOUS
  <2>5. job \in [Workers -> {"none", "running", "published", "delivered"}] OBVIOUS
  <2>6. op \in [Clients -> Entry] BY DEF Entry
  <2> QED BY <2>1, <2>2, <2>3, <2>4, <2>5, <2>6 DEF TypeOK, States, LEGACY, LoopPlaces, Entry
<1>2. PokerIdle /\ SeenOK BY PokersAre DEF PokerIdle, SeenOK
<1>3. PlaceState /\ ReadArmed BY DEF PlaceState, ReadArmed, Asleep, Awake
<1>4. Covered BY DEF Covered, Asleep, Owed, Queued
<1> QED BY <1>1, <1>2, <1>3, <1>4 DEF WakeInv

\* Every step keeps the strengthened invariant.
LEMMA StepInv == WakeInv /\ [Next]_vars => WakeInv'
BY TypeStep, IdleStep, SeenStep, PlaceStep, ReadStep, CoveredStep DEF WakeInv

\* For any set of clients and workers, the wake-up protocol's invariant holds
\* throughout UringFs::run, its teardown and the drop of the host.
THEOREM WakeInvariant == Spec => []WakeInv
BY InitInv, StepInv, PTL DEF Spec

\* Every variable of the host keeps its type.
THEOREM TypeCorrect == Spec => []TypeOK
<1>1. WakeInv => TypeOK BY DEF WakeInv
<1> QED BY <1>1, WakeInvariant, PTL

\* No wake-up is lost (WakeHandle::park, unpark and poke with the loop's drains):
\* a loop asleep in io_uring_enter with work owed to it is about to be woken.
THEOREM WakeupsKept == Spec => []NoLostWakeup
<1>1. WakeInv => NoLostWakeup
  <2> SUFFICES ASSUME WakeInv, pc = "blocked", NEW p \in Pokers, Owed(p) PROVE WakeDue
    BY DEF NoLostWakeup
  <2>1. Token BY DEF WakeInv, Covered, Ending, Awake
  <2>2. rd \in {"kernel", "cqe"} BY DEF WakeInv, ReadArmed, Asleep, Owing
  <2> QED BY <2>1, <2>2 DEF Token, WakeDue
<1> QED BY <1>1, WakeInvariant, PTL
=============================================================================
