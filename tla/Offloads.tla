------------------------------ MODULE Offloads ------------------------------
(***************************************************************************)
(* Blocking work off the loop: the registry of continuations (FsConn's     *)
(* offload family and FsCore::register_offload, uring_fs/core.rs), the     *)
(* handles of QueryPool and the range copy it runs (query_dir.rs).  The    *)
(* pool's own threads are OffloadPool's subject; here a queued job is      *)
(* taken by some worker, returns or panics, and publishes.                 *)
(***************************************************************************)
EXTENDS Integers, Sequences, FiniteSets, TLC

CONSTANTS
  Jobs,       \* offloads the loop's handlers may start
  Copies,     \* the range copies asked for: [soff, doff, len]
  SrcLen,     \* bytes in the source of a copy: byte i holds the value i
  DstLen,     \* bytes of the destination that can be reached
  MAX_CHUNK,  \* the most one copy_file_range call is asked for
  BufLen,     \* the buffer of the read and write fallback
  Batches,    \* batches a directory query yields
  None

VARIABLE of

Results == {"ok", "err"}

Blank == -1

NoCopy == [pc |-> "idle", soff |-> 0, doff |-> 0, remaining |-> 0,
           total |-> 0, got |-> 0, written |-> 0, res |-> None]

\* The three kinds of work share nothing but the pool, so a behaviour is about
\* one of them.
OffloadsInit ==
  \E u \in {"registry", "copy", "query"}, c \in Copies :
    of = [use |-> u,
          job |-> [j \in Jobs |-> None],     \* what became of the job itself
          kind |-> [j \in Jobs |-> None],
          reg |-> {},                        \* offload_reg, by token
          sink |-> <<>>,                     \* finished: <<token, outcome>>
          fired |-> [j \in Jobs |-> <<>>],   \* what each continuation was given
          own |-> [j \in Jobs |-> None],     \* what the job really came to
          lookup |-> "none",                 \* the lookup pool's cell
          loop |-> "runs",
          met |-> {},                        \* the jobs finished when it stopped (ghost)
          ask |-> c, cp |-> NoCopy,
          dst |-> [i \in 0..(DstLen - 1) |-> Blank],
          handle |-> "none",                 \* the copy's caller
          answer |-> None,
          query |-> [job |-> "none", sent |-> 0, chan |-> <<>>,
                     seen |-> 0, held |-> FALSE, ended |-> FALSE]]

-----------------------------------------------------------------------------
(* The registry and the two pools.                                         *)

Register(o, j, k) ==
  [o EXCEPT !.reg = @ \cup {j}, !.kind[j] = k]

Enqueue(o, j) == [o EXCEPT !.job[j] = "queued"]

\* The sink takes the outcome and the loop is poked.
FinishOffload(o, j, res) == [o EXCEPT !.sink = Append(@, <<j, res>>)]

SubmitOffload(o, j, k) == Enqueue(Register(o, j, k), j)

\* offload with the panic folded into the error.
OffloadResult(o, j) == SubmitOffload(o, j, "result")

\* flistxattr, fstatfs, fstatfs_anchor, the ZFS attributes and
\* copy_file_range: one blocking call on an open file each, one job.
Facility(o, j) == OffloadResult(o, j)

\* try_enqueue on the lookup pool: the outcomes of one call, a refusal
\* handing the job back.
TryEnqueue(o, j) ==
  CASE o.lookup = "up" -> {<<Enqueue(o, j), TRUE>>}
    [] o.lookup = "backoff" -> {<<o, FALSE>>}
    [] o.lookup = "none" ->
         {<<Enqueue([o EXCEPT !.lookup = "up"], j), TRUE>>,
          <<[o EXCEPT !.lookup = "backoff"], FALSE>>}

OffloadLookupDropped(o, j) ==
  {IF t[2] THEN t[1]
   ELSE [t[1] EXCEPT !.job[j] = "refused", !.own[j] = "EAGAIN"] :
     t \in TryEnqueue(Register(o, j, "lookup"), j)}

\* A lookup the pool refuses is answered EAGAIN through the same sink.
OffloadLookup(o, j) ==
  {IF t[2] THEN t[1]
   ELSE FinishOffload([t[1] EXCEPT !.job[j] = "refused", !.own[j] = "EAGAIN"],
                      j, "EAGAIN") :
     t \in TryEnqueue(Register(o, j, "lookup"), j)}

\* What the continuation is handed: a panic is the caller's to see from
\* offload, and EIO through the wrappers.
Given(k, res) == IF res = "panic" /\ k # "offload" THEN "EIO" ELSE res

\* take_pool_completions and the deliveries, in order; a token the registry
\* does not hold is dropped.
TakeCompletions(o) ==
  LET due == SelectSeq(o.sink, LAMBDA t : t[1] \in o.reg)
      of1(j) == SelectSeq(due, LAMBDA t : t[1] = j)
  IN  [o EXCEPT !.sink = <<>>,
                !.reg = @ \ {due[i][1] : i \in DOMAIN due},
                !.fired = [j \in Jobs |->
                   @[j] \o [i \in DOMAIN of1(j) |->
                              Given(o.kind[j], of1(j)[i][2])]]]

-----------------------------------------------------------------------------
(* The range copy.                                                         *)

Least(a, b) == IF a < b THEN a ELSE b

\* Bytes the source has from position p.
Avail(p) == IF p < SrcLen THEN SrcLen - p ELSE 0

\* n bytes of the source at s written at d.
Moved(o, s, d, n) ==
  [o EXCEPT !.dst = [i \in DOMAIN @ |->
     IF i \in d..(d + n - 1) THEN s + (i - d) ELSE @[i]]]

Begin(o, pc) ==
  [o EXCEPT !.cp = [NoCopy EXCEPT !.pc = pc, !.soff = o.ask.soff,
                                  !.doff = o.ask.doff,
                                  !.remaining = o.ask.len]]

CopyEnds(o, res) == [o EXCEPT !.cp.pc = "done", !.cp.res = res]

CopyReturns(o) == CopyEnds(o, [ok |-> TRUE, n |-> o.cp.total])

CopyFails(o) == CopyEnds(o, [ok |-> FALSE, n |-> 0])

\* A turn of copy_file_range_blocking: a whole or a short copy, the end of the
\* source, EXDEV before anything moved, or another error.
CopyFileRange(o) ==
  LET c == o.cp
      want == Least(c.remaining, MAX_CHUNK)
      most == Least(want, Avail(c.soff))
  IN  IF c.remaining = 0 THEN {CopyReturns(o)}
      ELSE (IF most = 0 THEN {CopyReturns(o)}
            ELSE {[Moved(o, c.soff, c.doff, n) EXCEPT
                     !.cp.soff = @ + n, !.cp.doff = @ + n,
                     !.cp.total = @ + n, !.cp.remaining = @ - n] :
                    n \in 1..most})
           \cup {IF c.total = 0 THEN Begin(o, "read") ELSE CopyFails(o),
                 CopyFails(o)}

\* copy_range_rw's outer loop: fill the buffer from the source.
CopyRead(o) ==
  LET c == o.cp
      most == Least(Least(c.remaining, BufLen), Avail(c.soff))
  IN  IF c.remaining = 0 \/ most = 0 THEN {CopyReturns(o)}
      ELSE {[o EXCEPT !.cp.pc = "write", !.cp.got = n, !.cp.written = 0] :
              n \in 1..most}
           \cup {CopyFails(o)}

WriteSomeOver(o, n) == Moved(o, o.cp.soff + o.cp.written, o.cp.doff, n)

\* Its inner loop: write what is left of the buffer, then go on.
WriteSome(o, n) ==
  Moved(o, o.cp.soff + o.cp.written, o.cp.doff + o.cp.written, n)

CopyWrite(o) ==
  LET c == o.cp
  IN  IF c.written = c.got
      THEN {[o EXCEPT !.cp.pc = "read", !.cp.soff = @ + c.got,
                      !.cp.doff = @ + c.got, !.cp.total = @ + c.got,
                      !.cp.remaining = @ - c.got]}
      ELSE {[WriteSome(o, n) EXCEPT !.cp.written = @ + n] :
              n \in 1..(c.got - c.written)}
           \cup {CopyFails(o)}

CopyTurn(o) ==
  CASE o.cp.pc = "range" -> CopyFileRange(o)
    [] o.cp.pc = "read" -> CopyRead(o)
    [] o.cp.pc = "write" -> CopyWrite(o)
    [] OTHER -> {}

-----------------------------------------------------------------------------
(* QueryPool's handles.                                                    *)

\* copy_file_range: nothing to copy is answered at once.
AskCopy(o) ==
  IF o.ask.len = 0
  THEN [o EXCEPT !.handle = "got", !.answer = [ok |-> TRUE, n |-> 0]]
  ELSE Begin([o EXCEPT !.handle = "waits"], "range")

\* CopyHandle::wait: the answer, or ECONNABORTED once the job is gone.
Wait(o) ==
  IF o.cp.pc = "done"
  THEN [o EXCEPT !.handle = "got", !.answer = o.cp.res]
  ELSE [o EXCEPT !.handle = "got", !.answer = [ok |-> FALSE, n |-> 0]]

\* A query's worker sends a batch, or finds the caller gone and stops.
QuerySend(o) ==
  IF ~o.query.held THEN [o EXCEPT !.query.job = "gone"]
  ELSE IF o.query.sent = Batches THEN [o EXCEPT !.query.job = "gone"]
  ELSE [o EXCEPT !.query.sent = @ + 1,
                 !.query.chan = Append(@, o.query.sent + 1)]

\* QueryHandle::next: the oldest batch; the end once the sender is dropped.
QueryNext(o) ==
  IF o.query.chan # <<>>
  THEN [o EXCEPT !.query.chan = Tail(@), !.query.seen = Head(o.query.chan)]
  ELSE [o EXCEPT !.query.ended = TRUE]

-----------------------------------------------------------------------------

Offload ==
  /\ of.loop = "runs"
  /\ \E j \in Jobs : /\ of.job[j] = None /\ j \notin of.reg
                     /\ \/ of' = SubmitOffload(of, j, "offload")
                        \/ of' = OffloadResult(of, j)
                        \/ of' = Facility(of, j)

Lookup ==
  /\ of.loop = "runs"
  /\ \E j \in Jobs : /\ of.job[j] = None /\ j \notin of.reg
                     /\ of' \in OffloadLookup(of, j)

BackoffPasses ==
  /\ of.lookup = "backoff"
  /\ of' = [of EXCEPT !.lookup = "none"]

JobStarts ==
  \E j \in Jobs : /\ of.job[j] = "queued"
                  /\ of' = [of EXCEPT !.job[j] = "running"]

\* catch_unwind around the job, then finish_offload.
JobReturns ==
  \E j \in Jobs, r \in Results \cup {"panic"} :
    /\ of.job[j] = "running"
    /\ of' = FinishOffload([of EXCEPT !.job[j] = "ran", !.own[j] = r], j, r)

\* The wake's drain; the stop window's is the same pass, the last one.
Pass == /\ of.loop = "runs" /\ of.sink # <<>>
        /\ of' = TakeCompletions(of)

StopWindow == /\ of.loop = "runs"
              /\ of' = [TakeCompletions(of) EXCEPT !.loop = "stopped",
                            !.met = {j \in Jobs : of.job[j] \in {"ran", "refused"}}]

StartCopy == of.handle = "none" /\ of' = AskCopy(of)

CopyStep == of' \in CopyTurn(of)

\* The job unwinds and drops its sender.
CopyDies ==
  /\ of.cp.pc \in {"range", "read", "write"}
  /\ of' = [of EXCEPT !.cp.pc = "gone"]

CopyWait == /\ of.handle = "waits" /\ of.cp.pc \in {"done", "gone"}
            /\ of' = Wait(of)

Query ==
  /\ of.query.job = "none"
  /\ of' = [of EXCEPT !.query.job = "runs", !.query.held = TRUE]

QueryStep == of.query.job = "runs" /\ of' = QuerySend(of)

QueryTake ==
  /\ of.query.held /\ ~of.query.ended
  /\ of.query.chan # <<>> \/ of.query.job = "gone"
  /\ of' = QueryNext(of)

DropQuery ==
  /\ of.query.held
  /\ of' = [of EXCEPT !.query.held = FALSE, !.query.chan = <<>>]

OffloadsNext ==
  \/ /\ of.use = "registry"
     /\ \/ Offload \/ Lookup \/ BackoffPasses \/ JobStarts \/ JobReturns
        \/ Pass \/ StopWindow
  \/ /\ of.use = "copy"
     /\ StartCopy \/ CopyStep \/ CopyDies \/ CopyWait
  \/ /\ of.use = "query"
     /\ Query \/ QueryStep \/ QueryTake \/ DropQuery

-----------------------------------------------------------------------------

\* Every continuation registered on a running loop is still owed by exactly
\* one of a queued job, a running one and the sink, so none is stranded; it
\* fires at most once, with what its own job came to, a panic seen as EIO
\* through offload_result and offload_lookup, a refused lookup as EAGAIN; and
\* a job finished by the time the loop stops has been delivered.  A query's
\* handle ends only after the last batch.
DeliveredOnce ==
  /\ of.query.ended => of.query.seen = Batches
  /\ \A j \in of.met : Len(of.fired[j]) = 1
  /\ \A j \in Jobs :
       LET inSink == Cardinality({i \in DOMAIN of.sink : of.sink[i][1] = j})
           owed == inSink + (IF of.job[j] \in {"queued", "running"} THEN 1 ELSE 0)
       IN  /\ Len(of.fired[j]) <= 1
           /\ j \in of.reg => owed = 1
           /\ Len(of.fired[j]) = 1 =>
                /\ j \notin of.reg /\ owed = 0
                /\ of.fired[j][1] = Given(of.kind[j], of.own[j])

\* A range copy that answers n wrote exactly the n bytes of the source at
\* off_src to off_dst, all of the range unless the source ended, and a copy
\* that fails wrote nothing but right bytes inside the range: short copies,
\* short reads, short writes and the restart after EXDEV included.
RangeCopied ==
  LET a == of.ask
      inside(i) == i \in a.doff..(a.doff + a.len - 1)
      right(i) == of.dst[i] = a.soff + (i - a.doff)
  IN  /\ \A i \in DOMAIN of.dst :
           of.dst[i] # Blank => inside(i) /\ right(i)
      /\ (of.handle = "got" /\ of.answer.ok) =>
           /\ of.answer.n = Least(a.len, Avail(a.soff))
           /\ \A i \in 0..(of.answer.n - 1) : right(a.doff + i)

=============================================================================
