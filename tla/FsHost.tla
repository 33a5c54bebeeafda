------------------------------- MODULE FsHost -------------------------------
(***************************************************************************)
(* The standalone file-system reactor (uring_fs/host.rs) and the threads   *)
(* around it: clients that inject a request and block on its reply         *)
(* (FsHandle::send/call, uring_fs/mod.rs), offload workers that publish a  *)
(* finished job (finish_offload, uring_fs/core.rs), and the thread that    *)
(* asks for the stop.  The loop is the code of UringFs::run, one action    *)
(* per access to state another thread can see.  What a request does to the *)
(* file system is abstracted to "an operation the kernel completes".       *)
(***************************************************************************)
EXTENDS WakeHandle, Sequences, FiniteSets

CONSTANTS Clients, Workers, Stopper,
          MaxCalls,      \* bound: calls made by each client
          Ops,           \* FsConfig::ops, the slots of the operation table
          RingErrors     \* whether io_uring_enter may fail for good

ASSUME HostAssumption ==
  /\ Pokers = Clients \cup Workers \cup {Stopper}
  /\ Clients \cap Workers = {} /\ Stopper \notin Clients \cup Workers
  /\ IsFiniteSet(Clients)
  /\ MaxCalls \in Nat /\ Ops \in Nat /\ RingErrors \in BOOLEAN

VARIABLES
  stop,        \* LoopShared::stop
  asked,       \* whether the stopper has called shutdown()
  cli, calls,  \* where each client stands; the calls it has begun
  reply,       \* what each client's reply channel holds
  inject, rx,  \* the inject queue; whether its receiver still exists
  job, sink,   \* where each offloaded job stands; the completions published
  pc, ret,     \* the loop's place, and where drain_wake_sources returns to
  bounded,     \* whether the coming wait has a deadline (flush_offloads)
  err,         \* a failed io_uring_enter on its way out of run_loop
  inflight,    \* Engine::inflight
  rd, op, cxl  \* the wake READ, each client's operation and the cancel, in the ring

loopVars == <<pc, ret, bounded, err, inflight>>
ringVars == <<rd, op, cxl>>
cliVars  == <<cli, calls>>
vars     == <<wakeVars, stop, asked, cliVars, reply, inject, rx, job, sink,
              loopVars, ringVars>>

\* A ring entry: absent, staged in the SQ, held by the kernel, completed,
\* or forgotten with the table after a failed drain (FsCore::leak).
Entry == {"none", "staged", "kernel", "cqe", "leaked"}

Init ==
  /\ WakeInit
  /\ stop = FALSE /\ asked = FALSE
  /\ cli = [c \in Clients |-> "idle"] /\ calls = [c \in Clients |-> 0]
  /\ reply = [c \in Clients |-> "none"]
  /\ inject = <<>> /\ rx = TRUE
  /\ job = [w \in Workers |-> "none"] /\ sink = {}
  /\ pc = "arm" /\ ret = "reap" /\ bounded = FALSE /\ err = FALSE
  /\ inflight = 0
  /\ rd = "none" /\ op = [c \in Clients |-> "none"] /\ cxl = "none"

\* c's message is in the inject queue.
Queued(c) == \E i \in 1..Len(inject) : inject[i] = c

(***************************************************************************)
(* A client: FsHandle::send, then recv on the reply channel.               *)
(***************************************************************************)
\* send() screens on the stop flag and hands the message back if it is set.
Screen(c) ==
  /\ cli[c] = "idle" /\ calls[c] < MaxCalls
  /\ calls' = [calls EXCEPT ![c] = @ + 1]
  /\ cli' = [cli EXCEPT ![c] = IF stop THEN "idle" ELSE "push"]
  /\ UNCHANGED <<wakeVars, stop, asked, reply, inject, rx, job, sink, loopVars, ringVars>>

\* tx.send(msg) fails only when the receiver is gone; then poke().
Push(c) ==
  /\ cli[c] = "push"
  /\ IF rx
     THEN /\ inject' = Append(inject, c)
          /\ cli' = [cli EXCEPT ![c] = "wait"]
          /\ poke' = [poke EXCEPT ![c] = "load"]
     ELSE /\ cli' = [cli EXCEPT ![c] = "idle"]
          /\ UNCHANGED <<inject, poke>>
  /\ UNCHANGED <<state, efd, seen, stop, asked, calls, reply, rx, job, sink, loopVars, ringVars>>

\* rx.recv() returns the outcome, or the disconnect as ECONNABORTED.
Recv(c) ==
  /\ cli[c] = "wait" /\ poke[c] = "idle" /\ reply[c] # "none"
  /\ cli' = [cli EXCEPT ![c] = "idle"]
  /\ reply' = [reply EXCEPT ![c] = "none"]
  /\ UNCHANGED <<wakeVars, stop, asked, calls, inject, rx, job, sink, loopVars, ringVars>>

(***************************************************************************)
(* An offload worker whose job returns publishes, then pokes.              *)
(***************************************************************************)
Publish(w) ==
  /\ job[w] = "running"
  /\ job' = [job EXCEPT ![w] = "published"]
  /\ sink' = sink \cup {w}
  /\ poke' = [poke EXCEPT ![w] = "load"]
  /\ UNCHANGED <<state, efd, seen, stop, asked, cliVars, reply, inject, rx, loopVars, ringVars>>

\* ShutdownHandle::shutdown: the flag, then the poke.
RequestStop ==
  /\ ~asked
  /\ asked' = TRUE /\ stop' = TRUE
  /\ poke' = [poke EXCEPT ![Stopper] = "load"]
  /\ UNCHANGED <<state, efd, seen, cliVars, reply, inject, rx, job, sink, loopVars, ringVars>>

PokeStep(p) ==
  /\ Poke(p)
  /\ UNCHANGED <<stop, asked, cliVars, reply, inject, rx, job, sink, loopVars, ringVars>>

(***************************************************************************)
(* The kernel: completions post whenever it likes.  The READ drains the    *)
(* eventfd's whole count; a cancel of everything ends the READ undrained   *)
(* and makes every operation it found complete.                            *)
(***************************************************************************)
KernelRead ==
  /\ rd = "kernel" /\ efd > 0
  /\ efd' = 0 /\ rd' = "cqe"
  /\ UNCHANGED <<state, poke, seen, stop, asked, cliVars, reply, inject, rx, job, sink,
                 loopVars, op, cxl>>

KernelOp(c) ==
  /\ op[c] = "kernel"
  /\ op' = [op EXCEPT ![c] = "cqe"]
  /\ UNCHANGED <<wakeVars, stop, asked, cliVars, reply, inject, rx, job, sink, loopVars, rd, cxl>>

KernelCancel ==
  /\ cxl = "kernel"
  /\ cxl' = "cqe"
  /\ rd' = IF rd = "kernel" THEN "cqe" ELSE rd
  /\ UNCHANGED <<wakeVars, stop, asked, cliVars, reply, inject, rx, job, sink, loopVars, op>>

Completions == {c \in Clients : op[c] = "cqe"}
CqReady == rd = "cqe" \/ cxl = "cqe" \/ Completions # {}

\* io_uring_enter hands every staged entry to the kernel.
Submitted(e) == IF e = "staged" THEN "kernel" ELSE e
Submit ==
  /\ rd' = Submitted(rd) /\ cxl' = Submitted(cxl)
  /\ op' = [c \in Clients |-> Submitted(op[c])]

(***************************************************************************)
(* UringFs::run.                                                           *)
(***************************************************************************)
\* Mutant: a completion is retired by the dispatch and by the table, unsaturated.
RetireTwice(n) == n - 2

\* Engine::retire and UringFs::dispatch: saturating_sub(1).
Retire(n) == IF n > 0 THEN n - 1 ELSE 0

\* Threads other than the loop, as the loop's steps leave them.
outside == <<poke, seen, stop, asked, cliVars, job>>

RunArm ==
  /\ pc = "arm"
  /\ rd' = "staged" /\ inflight' = inflight + 1
  /\ pc' = "activate"
  /\ UNCHANGED <<outside, state, efd, reply, inject, rx, sink, ret, bounded, err, op, cxl>>

RunActivate ==
  /\ pc = "activate"
  /\ state' = Activated
  /\ pc' = "top"
  /\ UNCHANGED <<outside, efd, reply, inject, rx, sink, ret, bounded, err, inflight, ringVars>>

\* The loop's head.
LoopHead ==
  /\ pc = "top"
  /\ pc' = IF stop \/ inflight = 0 THEN "stopwindow" ELSE "park"
  /\ UNCHANGED <<outside, state, efd, reply, inject, rx, sink, ret, bounded, err, inflight, ringVars>>

\* WakeHandle::park's compare-exchange.
LoopPark ==
  /\ pc = "park"
  /\ state' = Parked
  /\ pc' = IF ParkBlocks THEN "enter" ELSE "refused"
  /\ UNCHANGED <<outside, efd, reply, inject, rx, sink, ret, bounded, err, inflight, ringVars>>

\* Mutant: the drain after a refused park arms the READ again.
LoopParkRefusedRearms ==
  /\ pc = "refused"
  /\ state' = ACTIVE
  /\ pc' = "injects" /\ ret' = "submit"
  /\ rd' = "staged" /\ inflight' = inflight + 1
  /\ UNCHANGED <<outside, efd, reply, inject, rx, sink, bounded, err, op, cxl>>

\* park() found a poke: the store of ACTIVE, then Park::Drain.
LoopParkRefused ==
  /\ pc = "refused"
  /\ state' = ACTIVE
  /\ pc' = "injects" /\ ret' = "submit"
  /\ UNCHANGED <<outside, efd, reply, inject, rx, sink, bounded, err, inflight, ringVars>>

\* submit_and_wait_for(1, recheck): the submit half.  The wait has a deadline
\* or not as flush_offloads answered at the loop's head.
LoopEnter ==
  /\ pc = "enter"
  /\ \/ Submit /\ pc' = "blocked" /\ bounded' \in BOOLEAN /\ UNCHANGED err
     \/ RingErrors /\ err' = TRUE /\ pc' = "unpark" /\ UNCHANGED <<ringVars, bounded>>
  /\ UNCHANGED <<outside, state, efd, reply, inject, rx, sink, ret, inflight>>

\* ... and the wait half: a completion, or the deadline.
LoopWake ==
  /\ pc = "blocked"
  /\ CqReady \/ bounded
  /\ pc' = "unpark" /\ bounded' = FALSE
  /\ UNCHANGED <<outside, state, efd, reply, inject, rx, sink, ret, err, inflight, ringVars>>

\* unpark(): nothing but activate leaves LEGACY, so its load decides nothing
\* that could change before its store.
LoopUnpark ==
  /\ pc = "unpark"
  /\ state' = IF state = LEGACY THEN LEGACY ELSE ACTIVE
  /\ pc' = IF err THEN "stopwindow" ELSE "reap"
  /\ UNCHANGED <<outside, efd, reply, inject, rx, sink, ret, bounded, err, inflight, ringVars>>

\* dispatch of TAG_WAKE: consume the READ, re-arm unless stopping, drain.
\* A re-arm the ring refuses ends run_loop with the drain not run.
DispatchWake ==
  /\ pc = "reap" /\ rd = "cqe"
  /\ \/ /\ stop
        /\ rd' = "none" /\ inflight' = Retire(inflight)
        /\ pc' = "injects" /\ ret' = "reap" /\ UNCHANGED err
     \/ /\ ~stop
        /\ rd' = "staged" /\ UNCHANGED inflight
        /\ pc' = "injects" /\ ret' = "reap" /\ UNCHANGED err
     \/ /\ ~stop /\ RingErrors
        /\ rd' = "none" /\ inflight' = Retire(inflight)
        /\ pc' = "stopwindow" /\ err' = TRUE /\ UNCHANGED ret
  /\ UNCHANGED <<outside, state, efd, reply, inject, rx, sink, bounded, op, cxl>>

\* dispatch of an operation's completion: its slot frees, its waiter hears.
DispatchOp(c) ==
  /\ pc = "reap" /\ op[c] = "cqe"
  /\ op' = [op EXCEPT ![c] = "none"]
  /\ inflight' = Retire(inflight)
  /\ reply' = [reply EXCEPT ![c] = "done"]
  /\ UNCHANGED <<outside, state, efd, inject, rx, sink, pc, ret, bounded, err, rd, cxl>>

\* A completion's callback, running on the loop, hands a job to the offload
\* pool (FsConn::offload).
SubmitOffload(w) ==
  /\ pc = "reap" /\ job[w] = "none"
  /\ job' = [job EXCEPT ![w] = "running"]
  /\ UNCHANGED <<poke, seen, stop, asked, cliVars, state, efd, reply, inject, rx, sink, loopVars,
                 ringVars>>

ReapEmpty ==
  /\ pc = "reap" /\ ~CqReady
  /\ pc' = "top"
  /\ UNCHANGED <<outside, state, efd, reply, inject, rx, sink, ret, bounded, err, inflight, ringVars>>

\* Mutant: a refused request is counted in flight all the same.
DrainInjectCountsRefused ==
  /\ pc = "injects" /\ inject # <<>>
  /\ LET c == Head(inject)
         full == Cardinality({d \in Clients : op[d] # "none"}) >= Ops
     IN /\ op' = IF full THEN op ELSE [op EXCEPT ![c] = "staged"]
        /\ inflight' = inflight + 1
        /\ reply' = IF full THEN [reply EXCEPT ![c] = "busy"] ELSE reply
  /\ inject' = Tail(inject)
  /\ UNCHANGED <<outside, state, efd, rx, sink, pc, ret, bounded, err, rd, cxl>>

\* drain_injects: a request takes a slot and is staged, or finds the table
\* full and is refused (EBUSY) on the spot.
DrainInject ==
  /\ pc = "injects" /\ inject # <<>>
  /\ LET c == Head(inject)
         full == Cardinality({d \in Clients : op[d] # "none"}) >= Ops
     IN /\ op' = IF full THEN op ELSE [op EXCEPT ![c] = "staged"]
        /\ inflight' = IF full THEN inflight ELSE inflight + 1
        /\ reply' = IF full THEN [reply EXCEPT ![c] = "busy"] ELSE reply
  /\ inject' = Tail(inject)
  /\ UNCHANGED <<outside, state, efd, rx, sink, pc, ret, bounded, err, rd, cxl>>

\* Mutant: drain_wake_sources drains the injects only.
DrainInjectsOnly ==
  /\ pc = "injects" /\ inject = <<>>
  /\ pc' = ret
  /\ UNCHANGED <<outside, state, efd, reply, inject, rx, sink, ret, bounded, err, inflight, ringVars>>

DrainInjectsDone ==
  /\ pc = "injects" /\ inject = <<>>
  /\ pc' = "pool"
  /\ UNCHANGED <<outside, state, efd, reply, inject, rx, sink, ret, bounded, err, inflight, ringVars>>

\* deliver_pool_completions takes what is queued under one lock; the job's
\* continuation runs.  (job is this action's: the loop delivers it.)
DeliverPool ==
  /\ job' = [w \in Workers |-> IF w \in sink THEN "delivered" ELSE job[w]]
  /\ sink' = {}

DrainPool ==
  /\ pc = "pool"
  /\ DeliverPool
  /\ pc' = ret /\ ret' = "reap"
  /\ UNCHANGED <<poke, seen, stop, asked, cliVars, state, efd, reply, inject, rx, bounded,
                 err, inflight, ringVars>>

\* submit_and_flush_overflow after Park::Drain.
LoopSubmit ==
  /\ pc = "submit"
  /\ \/ Submit /\ pc' = "reap" /\ UNCHANGED err
     \/ RingErrors /\ err' = TRUE /\ pc' = "stopwindow" /\ UNCHANGED ringVars
  /\ UNCHANGED <<outside, state, efd, reply, inject, rx, sink, ret, bounded, inflight>>

(***************************************************************************)
(* drain_teardown, and the drop of the host.                               *)
(***************************************************************************)
\* drain_stop_window: one pass over what the pool had published.
StopWindow ==
  /\ pc = "stopwindow"
  /\ DeliverPool
  /\ pc' = "cancel"
  /\ UNCHANGED <<poke, seen, stop, asked, cliVars, state, efd, reply, inject, rx, ret, bounded,
                 err, inflight, ringVars>>

\* A drain the ring fails leaks the operation table (drain_or_leak).
Leak ==
  /\ RingErrors
  /\ op' = [c \in Clients |-> IF op[c] = "none" THEN "none" ELSE "leaked"]
  /\ pc' = "flush"

\* cancel_and_reap_all: stage the cancel of everything in flight ...
CancelAll ==
  /\ pc = "cancel"
  /\ \/ /\ inflight > 0
        /\ cxl' = "staged" /\ inflight' = inflight + 1 /\ pc' = "drain"
        /\ UNCHANGED op
     \/ /\ inflight = 0
        /\ pc' = "flush" /\ UNCHANGED <<cxl, inflight, op>>
     \/ inflight > 0 /\ Leak /\ UNCHANGED <<cxl, inflight>>
  /\ UNCHANGED <<outside, state, efd, reply, inject, rx, sink, ret, bounded, err, rd>>

\* ... submit it and wait ...
DrainEnter ==
  /\ pc = "drain"
  /\ \/ Submit /\ pc' = "drainwait"
     \/ Leak /\ UNCHANGED <<rd, cxl>>
  /\ UNCHANGED <<outside, state, efd, reply, inject, rx, sink, ret, bounded, err, inflight>>

DrainWake ==
  /\ pc = "drainwait" /\ CqReady
  /\ pc' = "drainreap"
  /\ UNCHANGED <<outside, state, efd, reply, inject, rx, sink, ret, bounded, err, inflight, ringVars>>

\* ... and reap: on_drain_cqe answers an operation's waiter.
DrainReap ==
  /\ pc = "drainreap"
  /\ \/ /\ rd = "cqe" /\ rd' = "none" /\ UNCHANGED <<op, cxl, reply>>
     \/ /\ cxl = "cqe" /\ cxl' = "none" /\ UNCHANGED <<rd, op, reply>>
     \/ \E c \in Completions : /\ op' = [op EXCEPT ![c] = "none"]
                               /\ reply' = [reply EXCEPT ![c] = "done"]
                               /\ UNCHANGED <<rd, cxl>>
  /\ inflight' = Retire(inflight)
  /\ UNCHANGED <<outside, state, efd, inject, rx, sink, pc, ret, bounded, err>>

DrainReaped ==
  /\ pc = "drainreap" /\ ~CqReady
  /\ pc' = IF inflight > 0 THEN "drain" ELSE "flush"
  /\ UNCHANGED <<outside, state, efd, reply, inject, rx, sink, ret, bounded, err, inflight, ringVars>>

\* Flush the inject queue with ECONNABORTED; run() then returns.
FlushInject ==
  /\ pc = "flush" /\ inject # <<>>
  /\ reply' = [reply EXCEPT ![Head(inject)] = "aborted"]
  /\ inject' = Tail(inject)
  /\ UNCHANGED <<outside, state, efd, rx, sink, pc, ret, bounded, err, inflight, ringVars>>

RunReturn ==
  /\ pc = "flush" /\ inject = <<>>
  /\ pc' = "returned"
  /\ UNCHANGED <<outside, state, efd, reply, inject, rx, sink, ret, bounded, err, inflight, ringVars>>

\* Mutant: the receiver goes but the queued messages, and their senders, stay.
DropHostKeepsQueue ==
  /\ pc \in {"arm", "returned"}
  /\ rx' = FALSE
  /\ pc' = "dropped"
  /\ UNCHANGED <<outside, state, efd, reply, inject, sink, ret, bounded, err, inflight, ringVars>>

\* The host drops, before run() or after it: the receiver goes, and each
\* queued message with the reply sender in it, so its caller disconnects.
DropHost ==
  /\ pc \in {"arm", "returned"}
  /\ reply' = [c \in Clients |->
                 IF Queued(c) THEN "gone" ELSE reply[c]]
  /\ inject' = <<>> /\ rx' = FALSE
  /\ pc' = "dropped"
  /\ UNCHANGED <<outside, state, efd, sink, ret, bounded, err, inflight, ringVars>>

Loop ==
  \/ RunArm \/ RunActivate \/ LoopHead \/ LoopPark \/ LoopParkRefused
  \/ LoopEnter \/ LoopWake \/ LoopUnpark
  \/ DispatchWake \/ (\E c \in Clients : DispatchOp(c)) \/ ReapEmpty
  \/ DrainInject \/ DrainInjectsDone \/ DrainPool \/ LoopSubmit
  \/ StopWindow \/ CancelAll \/ DrainEnter \/ DrainWake \/ DrainReap \/ DrainReaped
  \/ FlushInject \/ RunReturn \/ DropHost

Client(c) == Screen(c) \/ Push(c) \/ Recv(c)

Kernel == KernelRead \/ KernelCancel \/ (\E c \in Clients : KernelOp(c))

Next ==
  \/ Loop
  \/ \E c \in Clients : Client(c)
  \/ \E w \in Workers : SubmitOffload(w) \/ Publish(w)
  \/ RequestStop
  \/ \E p \in Pokers : PokeStep(p)
  \/ Kernel

\* Threads that have begun a step of their own finish it, jobs return, the
\* owner drops a host that has stopped.  The kernel completes a READ of a
\* readable eventfd and a cancelled operation; any other operation may take
\* for ever.
Cancelled(c) == cxl \in {"cqe", "none"} /\ pc \in {"drainwait", "drainreap"} /\ KernelOp(c)

\* A compare-exchange loop is not starved for ever by a loop that parks and
\* unparks exactly between its read and its exchange.
Exchange(p) == state = seen[p] /\ PokeStep(p)

Fairness ==
  /\ WF_vars(Loop)
  /\ \A c \in Clients : WF_vars(Push(c)) /\ WF_vars(Cancelled(c))
  /\ \A w \in Workers : WF_vars(Publish(w))
  /\ \A p \in Pokers : WF_vars(PokeStep(p)) /\ SF_vars(Exchange(p))
  /\ WF_vars(KernelRead) /\ WF_vars(KernelCancel)

Spec == Init /\ [][Next]_vars
FairSpec == Spec /\ Fairness

(***************************************************************************)
(* Properties.                                                             *)
(***************************************************************************)
LoopPlaces ==
  {"arm", "activate", "top", "park", "refused", "enter", "blocked", "unpark",
   "reap", "injects", "pool", "submit", "stopwindow", "cancel", "drain", "drainwait",
   "drainreap", "flush", "returned", "dropped"}

\* The type of every variable of the host, its clients and its ring.
TypeOK ==
  /\ state \in States /\ efd \in Nat
  /\ poke \in [Pokers -> {"idle", "load", "cas", "write"}]
  /\ seen \in [Pokers -> States]
  /\ stop \in BOOLEAN /\ asked \in BOOLEAN
  /\ cli \in [Clients -> {"idle", "push", "wait"}] /\ calls \in [Clients -> Nat]
  /\ reply \in [Clients -> {"none", "done", "busy", "aborted", "gone"}]
  /\ inject \in Seq(Clients) /\ rx \in BOOLEAN
  /\ job \in [Workers -> {"none", "running", "published", "delivered"}]
  /\ sink \subseteq Workers
  /\ pc \in LoopPlaces /\ ret \in {"reap", "submit"}
  /\ bounded \in BOOLEAN /\ err \in BOOLEAN /\ inflight \in Nat
  /\ rd \in Entry /\ op \in [Clients -> Entry] /\ cxl \in Entry

\* Something the loop has not yet looked at, whose publisher's poke returned.
Owed(p) ==
  /\ poke[p] = "idle"
  /\ \/ p \in Clients /\ Queued(p)
     \/ p \in sink
     \/ p = Stopper /\ asked /\ stop

\* A wake-up that will end the wait: the READ's completion, a readable
\* eventfd under an armed READ, or a poke about to write it.
WakeDue == \/ rd = "cqe"
           \/ rd = "kernel" /\ (efd > 0 \/ \E q \in Pokers : poke[q] = "write")

\* No lost wake-up (wake.rs, park/unpark/poke): a loop asleep in io_uring_enter
\* while an inject, a pool completion or the stop waits for it, its publisher
\* past its poke, is always about to be woken.
NoLostWakeup == pc = "blocked" /\ (\E p \in Pokers : Owed(p)) => WakeDue

\* The ring owes a completion for this entry.
Owing(e) == e \in {"staged", "kernel", "cqe"}

\* Engine::inflight counts exactly the entries the ring still owes a completion
\* for, so cancel_and_reap_all neither stops early nor waits for nothing.
InflightExact ==
  (\A c \in Clients : op[c] # "leaked") =>
     inflight = Cardinality({c \in Clients : Owing(op[c])})
                + (IF Owing(rd) THEN 1 ELSE 0) + (IF Owing(cxl) THEN 1 ELSE 0)

\* The loop's bookkeeping (Engine): every variable keeps its type, and the count
\* of operations in flight is what the ring owes.
HostExact == TypeOK /\ InflightExact

\* The wake READ has one buffer (Engine::wake_buf): it is never armed while an
\* earlier READ into that buffer is staged or with the kernel.
OneWakeRead == [][rd' = "staged" /\ rd # "staged" => rd \in {"none", "cqe"}]_vars

\* Every inject send() accepted is taken off the queue: dispatched, flushed at
\* teardown or disconnected by the drop (FsHandle::send against run's exit).
InjectTaken ==
  \A c \in Clients : Queued(c) ~> ~Queued(c)

\* UringFs::run's documentation: however the loop ended, a caller parked on an
\* operation is unblocked by the time run() returns.
ReturnUnblocks ==
  pc = "returned" =>
    \A c \in Clients : cli[c] = "wait" /\ reply[c] = "none" => Queued(c)

\* A job that published before the loop's last pass is delivered.
Stopped == pc \in {"cancel", "drain", "drainwait", "drainreap", "flush", "returned", "dropped"}
PublishedDelivered ==
  \A w \in Workers : (w \in sink /\ ~Stopped) ~> (job[w] = "delivered" \/ Stopped)

\* What a thread hands the loop arrives, an inject or a pool completion.
Delivered == InjectTaken /\ PublishedDelivered

(***************************************************************************)
(* The inductive strengthening of NoLostWakeup.                            *)
(***************************************************************************)
Asleep == pc \in {"enter", "blocked", "unpark"}
Awake  == pc \in {"top", "park", "refused", "submit", "reap", "injects", "pool"}
Ending == pc \in {"stopwindow", "cancel", "drain", "drainwait", "drainreap", "flush",
                  "returned", "dropped"}

\* Nobody is inside poke() before it has something published to poke for.
PokerIdle ==
  /\ \A c \in Clients : cli[c] # "wait" => poke[c] = "idle"
  /\ \A w \in Workers : job[w] \in {"none", "running"} => poke[w] = "idle"
  /\ ~asked => poke[Stopper] = "idle"

\* A poker about to exchange saw a loop that had opted in and was not notified.
SeenOK == \A p \in Pokers : poke[p] = "cas" => seen[p] \in {ACTIVE, PARKED}

\* The word follows the loop's place.
PlaceState ==
  /\ pc \in {"arm", "activate"} => state = LEGACY
  /\ Asleep => state \in {PARKED, NOTIFIED}
  /\ Awake => state \in {ACTIVE, NOTIFIED}
  /\ pc = "refused" => state = NOTIFIED

\* A READ is in the ring whenever the loop may go to sleep; it is not re-armed
\* only once a stop has been seen.
ReadArmed ==
  /\ pc = "arm" => rd = "none"
  /\ pc = "activate" \/ Asleep \/ pc \in {"park", "refused", "submit"} => Owing(rd)
  /\ pc \in {"injects", "pool"} /\ ret = "submit" => Owing(rd)
  /\ pc = "blocked" => rd # "staged"
  /\ pc \in {"top", "reap", "injects", "pool"} => Owing(rd) \/ stop

\* A wake-up on its way, whether or not the READ has reached the kernel.
Token == efd > 0 \/ rd = "cqe" \/ \E q \in Pokers : poke[q] = "write"

\* A notified word behind a parked loop has its wake-up on the way, and so has
\* every item owed, unless the loop has yet to drain it before it sleeps.
Covered ==
  /\ Asleep /\ state = NOTIFIED => Token
  /\ \A p \in Pokers : Owed(p) =>
       \/ Token \/ Ending
       \/ Awake /\ state = NOTIFIED
       \/ pc = "injects"
       \/ pc = "pool" /\ p \notin Clients
       \/ p = Stopper /\ pc \in {"top", "reap", "submit"}

WakeInv == TypeOK /\ PokerIdle /\ SeenOK /\ PlaceState /\ ReadArmed /\ Covered

(***************************************************************************)
(* The inductive strengthening of InflightExact and of the refinement.     *)
(***************************************************************************)
\* A call is in one place at a time, in the queue, in the ring or in its reply
\* channel, and in one of them for as long as its caller waits.
OnePlace ==
  \A c \in Clients :
    /\ Queued(c) => cli[c] = "wait" /\ op[c] = "none" /\ reply[c] = "none"
    /\ op[c] # "none" => cli[c] = "wait" /\ reply[c] = "none"
    /\ reply[c] # "none" => cli[c] = "wait"
    /\ cli[c] = "wait" => Queued(c) \/ op[c] # "none" \/ reply[c] # "none"

QueuedOnce == \A i, j \in 1..Len(inject) : inject[i] = inject[j] => i = j

\* The teardown cancels once, and leaks only when the ring fails it; otherwise
\* it ends with nothing in flight.
TornDown ==
  /\ pc \notin {"drain", "drainwait", "drainreap", "flush", "returned", "dropped"} => cxl = "none"
  /\ \A c \in Clients : op[c] = "leaked" => RingErrors /\ pc \in {"flush", "returned", "dropped"}
  /\ pc \in {"flush", "returned"} => RingErrors \/ inflight = 0

HostInv == WakeInv /\ OnePlace /\ QueuedOnce /\ TornDown /\ InflightExact

\* The host implements FsCalls: a call is open from the push of its message to
\* the one answer its reply channel ever gets, and a stop leaves none open.
callMap == [c \in Clients |-> IF reply[c] # "none" THEN "answered"
                              ELSE IF cli[c] = "wait" THEN "open" ELSE "idle"]
Calls == INSTANCE FsCalls WITH call <- callMap, closing <- stop
ImplementsCalls == Calls!Spec
=============================================================================
