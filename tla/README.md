# TLA+ models of truenas_ros

This directory holds TLA+ specifications of `truenas_ros`, the TLC
configurations that check them on small instances, and TLAPS proofs of the
properties that matter most. `PROJECT.json` maps every definition to the lines
it models, and lists the runs, the mutants that show each property can fail, the
hazards of the code and the theorems. Source paths below are relative to the
crate's `src/` unless they start with `truenas_api_client/`.

Contents: [the system](#the-system) · [modules](#modules) · [runs](#runs) ·
[bounds](#bounds) · [fairness](#fairness) · [proofs](#proofs) ·
[only model-checked](#only-model-checked) · [findings](#findings) ·
[not modelled](#not-modelled)

## The system

`truenas_ros` has two halves. One is a set of Linux system-call bindings and
helpers (`sync_fs`, `mount`, `audit`, `log`, `configfile`, ...): mostly
sequential code, hard where the file system changes under it, where a call in
the middle fails or where a format must survive a round trip. The other is an
io_uring stack, where the concurrency is:

    threads (FsHandle, Deferred, PushHandle, offload workers)
        |  publish an item, then WakeHandle::poke
        v
    reactor loop  --- uring::Engine / Ring ---  kernel
        |   UringFs::run (files only)  or  Server::run_loop (sockets + files)
        +-- connection table, one Connection per direct descriptor
        +-- FsCore: operation table, tasks, offload pool, queries
        +-- credential broker (a forked child) behind IdentityCache

* A loop thread owns the ring. It drains its queues, parks on a shared atomic
  word, sleeps in `io_uring_enter`, and dispatches completions one at a time.
* Other threads push onto a queue and poke the word; only a poke that finds the
  loop parked writes the eventfd whose READ the ring has armed.
* Blocking work goes to the offload pool, whose results come back through the
  same wake-up.
* Every file operation carries a personality, registered by a child process over
  a SEQPACKET socket and cached by identity with one mint in flight per key.
* A server connection is a state machine over completions: framed reads with
  linked clocks, a send queue, workers that answer later, a worker that takes
  the socket away for a while, and a teardown whose CLOSE must be the last
  operation on the descriptor.
* On top stand an HTTP/1.1 and a WebSocket codec, a framed client, and the
  JSON-RPC client of `truenas_api_client`.

## Modules

| Module | Models | Code |
|---|---|---|
| `WakeHandle` | the shared word, the eventfd, the pokers | `uring/wake.rs` |
| `FsHost` | the file reactor's loop, teardown and drop; its callers and workers | `uring_fs/host.rs`, `mod.rs` |
| `FsCalls` | what `FsHandle` promises: a call is refused, or open until its one answer | abstract |
| `OffloadPool` | the elastic worker pool and the flushes that drive it | `uring_fs/offload_pool/` |
| `Offloads` | continuations of offloaded jobs; the range copy | `uring_fs/core.rs`, `query_dir.rs` |
| `SingleFlight` | the keyed cache: map, slots, gates, revocations | `uring_fs/single_flight.rs` |
| `CredBroker` | the broker's socket protocol, with time-outs and a child that may stall or die | `uring_fs/broker.rs` |
| `CredWindow` | the child's impersonation window, call by call | `uring_fs/broker.rs` |
| `IdentityCache` | leases and entries over the broker (EXTENDS `CredBroker`) | `uring_fs/broker.rs` |
| `BrokerSpawn` | fork, descriptor renumbering, ready message, end | `uring_fs/broker.rs` |
| `SqCqRing` | both rings with wrapping indices, chains, overflow, engine drain | `uring/ring.rs`, `engine.rs` |
| `RecvPool` | provided buffers, leases, the body pool | `uring/bufring.rs`, `net/core/bodypool.rs` |
| `NetConn` | one slot of the server's table over the connections that use it | `net/core/`, `net/server/` |
| `RecvStore` | where a request's bytes lie, framer to handler | `net/core/` |
| `FileReply` | replies whose body is a file | `net/server/io.rs`, `net/core/conn.rs` |
| `Accept` | listeners, handshakes, the spread over rings | `net/server/accept.rs`, `spread.rs` |
| `Setup` | validation and step-by-step construction of servers and clients | `net/` |
| `NetClient` | the outbound client and its waits | `net/client/` |
| `HttpCodec`, `HttpDate` | framer, chunked coding, request lifecycle; dates | `http/` |
| `WsWire` | upgrade, frames, close handshake | `ws/`, `truenas_api_client/src/server.rs` |
| `ApiSession` | calls, budget, backoff, close, bulk items, waits | `truenas_api_client/src/` |
| `FsOps` | the operation table: owners, deadlines, retraction, sweep, delivery | `uring_fs/core.rs` |
| `TaskExec` | the task executor: slots, wakers, handles, passes | `uring_fs/task.rs` |
| `FsFacade`, `FsPaths` | what a method call makes the kernel do; multi-step path walks | `uring_fs/` |
| `DirWalk`, `DirEnrich`, `TreeQuery` | directory streams, enrichment of entries, the resumable walk | `uring_fs/core.rs`, `query_dir.rs`, `query_tree.rs` |
| `TreeCopy`, `NodeCopy` | the iterator and its cookie, the recursive copy; one node | `sync_fs/iter.rs`, `sync_fs/shutil/` |
| `AtomicWrite` | publish by rename, with crashes and other writers | `sync_fs/atomic.rs` |
| `Acl` | validation, inheritance, conversion, the two-step write | `sync_fs/acl/` |
| `ConfigFile` | parse, store, interpolate, write | `configfile/` |
| `Mounts` | recursive unmount, cache of user namespaces | `mount/` |
| `KernelRecords` | socket addresses, file handles, statmount, fanotify events | `net/core/sock.rs`, `sync_fs/fhandle.rs`, `mount/statmount.rs`, `sync_fs/fanotify.rs` |
| `ProcessServices` | journal, audit socket, secret regions, signals | `log/`, `audit/`, `secrets.rs`, `signal.rs` |
| `*Proofs` | theorems about the module they are named after (`FsCallsProofs`: about `FsHost` and `FsCalls`) | |
| `OffloadPoolWorkers` | the lemmas about workers that `OffloadPoolProofs` rests on | |
| `MCCalls`, `MCFiles`, `MCWire` | the instances of the runs | |

`MCCalls`, `MCFiles` and `MCWire` check several components in one run. Those
components meet only through interfaces that each module states for itself, so a
behaviour is of one of them: the variable `part` says which and never changes.
Where two components do share state they are one module, or one extends the
other: `FsHost` has the wake-up protocol and the callers in it, `IdentityCache`
the broker.

**Granularity.** An action is one access to state another thread can see: a
critical section, an atomic operation, a channel operation, one completion
dispatched. Code that runs between two such points on the owning thread is one
step. The handlers of `NetConn`, `FsOps`, `FileReply`, `Accept` and `NetClient`
are operators from one state of the loop to the next, named after the functions
they model, so that a handler that calls another is a composition. In `NetConn`
the pump, which the code calls at the end of many handlers, runs before anything
else is dispatched because `todo` gates every other step of the loop. In the
sequential modules (`NodeCopy`, `AtomicWrite`, `Acl`, `CredWindow`, `Setup`)
an action is one system call, since it may fail and others may run after it.

**Correspondence.** `FsHost`: `RunArm`, `RunActivate`, `LoopHead`, `LoopPark`,
`LoopEnter`, `LoopWake`, `LoopUnpark`, `Dispatch*`, `Drain*`, `StopWindow`,
`CancelAll`, `FlushInject`, `DropHost` follow `run`, `run_loop`, `dispatch`,
`drain_wake_sources`, `cancel_and_reap_all`, `drain_teardown` and `Drop` in
order. `NetConn`: `CloseConn`, `OpDone`, `OnClosed`, `SubmitRecv`, `OnRecv`,
`OnRecvClock`, `FinishFailedRecv`, `GateStops`/`GateEffect` (`pump_gate`),
`EnactFrameStep`, `DeliverOne`, `OnPush` ... `OnOutcome` (the arms of
`drain_injections`), `OnDrain` (`begin_drain`) and `OnPeerFetch` carry the names
of the functions. The other modules follow the same convention; `PROJECT.json`
gives the lines of each definition.

**Abstractions.** Memory orderings are sequentially consistent. Time is reduced
to the comparisons the code makes. In `NetConn` there is no submission queue
(`SqCqRing` is about that): the ring takes entries in order, so an operation is
in flight once staged, a cancel marks what is then in flight, and a completion
that was queued before some event is the same completion chosen later. Messages
are a header of `Hdr` and a body of `Body` bytes, and only their counts matter;
a PDU is its kind and the generation it was made for. Kernel results are
nondeterministic: a read returns what has arrived, end of stream, a reset, a
lack of buffers, or - cancelled or out of time - nothing or a part; the clock
linked to it has fired or not, and may be reaped first only if it fired, since
one that lost is completed by the read's completion. Where the value of a byte
matters (`RecvStore`, `WsWire`, `HttpCodec`, `KernelRecords`, `ConfigFile`) it is
a member of a small alphabet, and the boundaries of the code's sizes are kept at
a smaller scale. Index arithmetic keeps its wrap-around (`Wrap`, `TailMod`).

## Runs

Sizes are distinct states. Deadlock checking is off in every run: each of these
systems may stop (a bound runs out, a loop has returned, a peer says no more).
`NeverWedged`, `NoLostWakeup`, `JobsReached` and the liveness properties say what
deadlock checking would, where it matters.

| Run | Instance | Checks | Result |
|---|---|---|---|
| `host_safety` | two clients, one worker, a stopper; the ring may fail at any enter | `HostExact`, `NoLostWakeup`, `OneWakeRead` | holds, 2.4 M |
| `host_live` | one client making two calls, one worker, a stopper | `Delivered`, `ImplementsCalls` (refinement of `FsCalls`, its liveness included) | holds, 68 k |
| `host_leak` | as above with ring errors | `ReturnUnblocks` | violated: see findings |
| `pool` | two workers (floor 1, ceiling 2), the loop and one submitter, three jobs, one wake per two jobs | `PoolExact`, `JobsReached`, `JobTaken`, `PoolReturns` | holds, 101 k |
| `calls` | single flight: two callers, one key, three slots, two revocations; broker: two threads, two users, two ids | `OneMint`, `RevocationHolds`, `Attribution`, `NothingKept`, `CallsReturn` | holds, 173 k |
| `net_safety` | two connections in turn, three bytes between them (header 1, body 2), one push or push-close, two requests in flight | `CloseClean`, `CountsExact`, `BytesConserved`, `OwnAnswers`, `OwedBeforeClose`, `NeverWedged` | holds, 2.2 M |
| `net_live` | one connection, no push | `SlotFreed`, `DrainEnds` | holds, 71 k |
| `net_stash` | a framer that reads its two-byte header exactly | `StashResolves` | violated: see findings |
| `files` | every component of the file side, each on its own instance (`MCFiles`) | the nine properties below | holds, 1.4 M |
| `wire` | every component of the network side and of the process (`MCWire`) | the nine properties below | holds, 1.2 M |
| `spread_count` | the listeners of `wire` | `CountExact` | violated: see findings |
| `identity_maplock` | the identity cache of `wire` | `MapLockBrief` | violated: see findings |

**The host.** `HostExact`: types, and `Engine::inflight` equals what the ring
owes. `NoLostWakeup`: a loop asleep with an item owed to it is about to be woken.
`OneWakeRead`: the eventfd's READ is never armed over itself.

**The pool.** `PoolExact`: the counters are what the threads are, between floor
and ceiling. `JobsReached`: a job nobody is coming for has a time to look again or
stands behind a full pool; each claim has a worker woken or a notification to
come; a dropped pool runs what was queued. `JobTaken`: with jobs that may block
for ever, a queued job is taken unless the pool is saturated. `PoolReturns`: when
jobs return, a drop returns without its timeout and the pool shrinks back.

**Calls.** `OneMint`: one mint per key between two revocations. `RevocationHolds`:
a call begun after a revocation never returns a value from before it.
`Attribution`: what a thread holds is registered as whom it asked for, and held
by nobody else. `NothingKept`: no empty slot and no personality is left behind.

**The connection.** `CloseClean`: a SHUTDOWN or CLOSE is in flight only when
nothing else on the socket is, and an index the kernel may hand out belongs to an
empty slot. `CountsExact`: the three counters of a connection equal what they
count. `BytesConserved`: what was read is delivered, buffered or part of the read
in progress. `OwnAnswers`: a queue holds only what was produced for its
connection. `OwedBeforeClose`: neither a half-closed peer nor an idle one is
dropped while a reply is owed (an idle peer that has begun its next message is).
`NeverWedged`: a connection that is not closing has an operation, a timer, a
worker or a message that will drive it on; one that is closing has an operation
left.

**`files`.** `OpsSound` (operation table: one answer per call, timers charged,
owners' sweeps), `TasksWoken` (no wake of a task lost), `RepliesWhole` (file
bodies whole, answers in order, books balanced; a close on flush loses nothing
queued before it except a body still waiting behind another), `RequestsHonest`
(the kernel does what was asked under the personality named; a walk stands only
on real entries, by the names of its path, whatever is planted, removed or
renamed meanwhile; racing creators all succeed), `ListingsComplete` (streams,
listings, queries and iterations lose and repeat nothing), `CopiesWhole` (copies
and atomic writes are whole or reported, crashes included; nothing of a `.zfs`
control directory or of the destination itself is copied), `AclsExact`
(conversions never widen what is granted on the object, the way to NFSv4 and back
keeps every right, a failed write puts back the lists the file had and is
reported), `ConfigKept` (what is written reads back, interpolation ends within
its cap), `ConfigReadWhole` (a read that fails changed nothing of its own).

What these do not say, because the code does not do it: the confinement of a path
walk is each open's own, so a directory renamed out of the anchor while a walk
stands on it takes the walk with it. An open whose timer found no room in the ring
is already staged and is retracted; the cancel may find no room either, so
`OpensGuarded` promises a timer or a retraction. An unknown `dir_dev` (the `fstat` of the
directory failed) leaves `same_device_only` nothing to compare, and entries are
kept. `read_secret_path` makes the configuration raw for good once its image is
staged, also when the text then fails to parse.

**`wire`.** `StorageExact` (rings agree across wraps; a buffer has one owner; a
framer is handed the stream that was sent), `ListenersSound` (every accepted
connection attended or closed, a failed construction releases what it made once,
the broker's child finds its rings), `ClientSound` (one event ends each request; a
wait returns what it waited for), `CodecsExact` (HTTP and WebSocket messages cut
where the peer cut them, the Date that of the calendar), `ApiSound` and
`ApiQuiet` (each call ends once, slots counted, nothing new owed while closing),
`SystemSound` (unmounts, kernel records, journal, audit, secrets, signals),
`LeaseValid` (a lease names a personality registered for its user, and one
nobody can reach is retired), `SnapshotExact` (a personality has the credentials
asked for, and the child is itself again between requests).

Two exceptions are stated in the properties. A hand-off answered `-EOVERFLOW` has
delivered the file to the other ring without a completion there, so a copy stays
in that ring's table until the table is freed, as the comment of `on_handoff`
accepts; `ConnsAttended` asks that nobody ever acts on that slot and that the
connection is served once. And `statmount` carries the mount point as bytes but every other
string as text, with U+FFFD for what is not UTF-8; `RecordsExact` asks that what
is text arrives unchanged and that what is not shows it.

## Bounds

Every bound is a constant of a cfg or of an MC module. `host`: a lost wake-up
needs one item, one poker and the loop; two clients and a worker give two pokers
racing for the one eventfd write. `pool`: the races are between the loop's flush
and a submitter's, and between a claim and a worker's time-out; three jobs
against two workers leave one queued behind two that block. `calls`: a slot is
revoked while being minted, a second caller joins it, a third slot replaces it; a
late reply needs one request that gave up and one that follows. `net_safety`:
reuse needs two connections; three bytes are one message whose body arrives in
two parts, so that the clock can cut it; a worker holds the request while the
connection closes; `Redeliver` runs the handler a second time. A message and a
byte more (`MaxBytes = 4`, 13.4 M states) also held, and puts a redelivery inside
the next message's body read; it is too long to keep as a run.

In `files` and `wire` each instance has two of what competes (connections,
threads, writers, rings, buffers), limits that are reached (two table slots, two
ring entries, indices that wrap at 4, heads of three tokens) and one of what
disturbs (an entry that vanishes, a crash, a foreign writer, a failing call
anywhere). Pure functions run over every input of a bounded domain: lists of up
to three ACEs against all subjects, every day of two centuries for the Date,
documents of a few lines for the configuration reader.

Some bounds are there for one case each: `AnswerBounds` gives a file server two
answers on one connection and one on the other, or three on one, so that a
farewell can stand behind two bodies; the accept modes spend their one fault on
an error of the accept, passing or fatal, or on a hand-off that overflows;
`UnmountWays` has `MNT_EXPIRE` on mounts none, some or all of which are marked,
`MNT_FORCE` and `MNT_DETACH`; `MAX_RECORD_LEN` is 16, which the longest audit
event exceeds; the configuration documents reach the interpolation cap exactly
and step over it.

For the components with proofs the bounds matter only to what is not proved.

## Fairness

* Loop threads, workers, callers and submitters are weakly fair: a runnable
  thread runs.
* Strong fairness stands for queues that serve in turn while the resource keeps
  being released: the exchange of a poke (retried only when another thread
  changed the word), the gate of a single-flight slot, the broker's mutex, a
  worker's time-out on the pool's condition variable, and the completions of
  `NetConn` (the loop reaps its queue in order, so a completion is dispatched
  however busy the loop is).
* A thread spawn that the loop's flush keeps retrying succeeds in the end
  (`SF(LoopGrows)`).
* Kernel operations complete once cancelled; the READ of a readable eventfd
  completes. In `NetConn` a send and a read inside a message end because
  `send_timeout` and `request_timeout` are set; a read between messages is under
  no fairness until it is cancelled, so `DrainEnds` rests on the drain's cancel
  and not on `idle_timeout`.
* Jobs may block for ever; `PoolReturns` states the assumption that they return
  as a premise (`JobsReturn`).
* `CallsReturn` excludes mints that fail for ever. Broker requests return whether
  or not the child runs, since `RECV_TIMEOUT` ends the wait: nothing is assumed
  of the child.
* Deferred and Detached handles are answered or dropped (their `Drop` answers).
  The peer, the request to drain and its deadline are under no fairness.

## Proofs

`tlapm <module>` checks every step of a module's proofs; those of `CredWindow` and
`HttpDate` end the module itself. A theorem holds for every value of the constants; each
component's assumptions on them are named.

| Module | Theorems | Assumptions |
|---|---|---|
| `FsHostProofs` | `WakeupsKept`, `TypeCorrect` | `HostAssumption`: the pokers are the clients, the workers and the stopper, all different; finitely many clients |
| `FsCallsProofs` | `HostInvariant`, `InflightCounted`, `ReadOnce`, `CleanReturn`, `CallsRefined` | `HostAssumption`; `CleanReturn` also: the ring does not fail |
| `OffloadPoolProofs`, with the lemmas of `OffloadPoolWorkers` | `PoolInvariant`, `CountersExact`, `JobsKept` | `PoolAssumption`: 1 <= floor <= ceiling, as many worker identities as the ceiling, finitely many submitters |
| `SingleFlightProofs` | `FlightInvariant`, `MintsOnce`, `RevocationKept` | `FlightAssumption`: the null values are outside their sets |
| `CredBrokerProofs` | `BrokerInvariant`, `RepliesAttributed`, `NothingLeaks` | `Known`: personalities count from 1, the null values are outside their sets |
| `CredWindow` | `WindowInvariant`, `SnapshotsExact`, `WindowsClose` | `Known`: -1 is not root, a list of groups is a sequence |
| `HttpDate` | `DateInRange` | none |

`Known` is a hypothesis of its theorems and not an ASSUME, because the runs take
those two modules in with INSTANCE.

**No lost wake-up, for any clients and workers** (`WakeupsKept`). `NoLostWakeup`
only speaks of a loop that is asleep, so it is not inductive. The invariant
`WakeInv` adds: where the loop is determines the word (`PlaceState`); a READ is
owed whenever the loop may sleep (`ReadArmed`); a poker about to exchange saw an
opted-in word (`SeenOK`); nobody pokes before publishing (`PokerIdle`); and every
item owed is *covered* (`Covered`): a wake-up token exists (eventfd readable, READ
completed, or a poker about to write), or the loop is awake with the word
NOTIFIED, or it has yet to drain that source before it can park. One lemma per
conjunct, one step per action under it.

**The host's calls and its count** (`HostInvariant`, `InflightCounted`,
`ReadOnce`, `CleanReturn`). `HostInv` adds to `WakeInv` that a call is in one
place at a time - queue, ring or reply channel - and in one of them for as long
as its caller waits (`OnePlace`), that it is queued once (`QueuedOnce`), that only
a ring failure lets the teardown leak (`TornDown`), and that the count is what the
ring owes (`InflightExact`). The count is a cardinality: the proof is about how
each step changes the set of operations the ring has. `CleanReturn` carries the
assumption that the ring does not fail; the run `host_leak` shows that it cannot
be dropped.

**The host implements FsCalls** (`CallsRefined`). Under the mapping `callMap` (a
call is open from the push of its message until its reply channel is filled) every
step of the host is a step of `FsCalls` or leaves the mapped state alone, so a
call is answered exactly once. This is the safety half; that an open call is
answered once the reactor closes is checked by `host_live`.

**The pool's counters and the reach of its claims, for any number of threads and
jobs** (`CountersExact`, `JobsKept`). `PoolInv` is the two invariants of the run
with two facts that make them inductive: a pool not yet built has no threads and
no jobs (`Unbuilt`), and only a flusher past its critical section owes
notifications (`TodoOwned`). The counters are cardinalities of sets of workers,
and the notifications still owed the size of a set of pairs (`Coming`); the lemmas
of `OffloadPoolWorkers` say how one worker's move changes those sizes.

**Single flight, for any callers, keys and slots** (`MintsOnce`,
`RevocationKept`). `FlightInv` adds: the holder of a gate is who it should be and
its cell is empty (`Owned`); a slot serves one key (`OneKey`); recorded epochs are
past (`Past`); what the map holds was minted in the current epoch (`Current`); a
caller's slot is no older than its call (`NotStale`).

**The broker's socket, for any threads and identities, whatever the child does**
(`RepliesAttributed`, `NothingLeaks`). A reply names no request, so that it
reaches the right thread rests on what is on the socket. `BrokerInv` says: a round
trip has the mutex and a spent socket is left alone (`Mutex`); at most one request
is under way - sent, being answered, or answered - and on a socket in step it is
its holder's (`OneOut`); a personality in a thread's hands, or in a reply on its
way, is registered as whom it was asked for and has one owner (`Owned`); one that
is being retired is owned by nobody and retired by one request, though it may be
the request a thread gave up on (`RetiredOnce`); and while the socket is in step
and the child lives every registered personality is owned or being retired
(`Accounted`). `desynced` is what makes it inductive: a receive that gives up
leaves a reply to come, and only because every later request is refused can that
reply not be taken for another's.

**The window, for any lists of groups** (`SnapshotsExact`, `WindowsClose`).
`WindowInv` records what each step of `register_as` has established (`Progress`):
the window opens only from root with the authority to set ids, which stays in the
permitted set; leaving root empties the effective set; the capabilities asked for
come last; and outside the window the child is `Home`. Two lemmas about the
comparison of group lists (`Differs`) say that lists it finds alike have the same
members in whatever order, which is what the code relies on when it registers
without opening a window.

**Dates** (`DateInRange`). For every integer day and second of the day, month,
day, weekday and time are in range, so the tables that `Display` indexes are never
indexed outside. The lemmas bound the quotients of the civil-from-days algorithm.

## Only model-checked

* Liveness (`Delivered`, `JobTaken`, `PoolReturns`, `CallsReturn`, `SlotFreed`,
  `DrainEnds`, the liveness half of `ImplementsCalls`): liveness under fairness
  and `ENABLED` are outside this prover.
* That the Date is the calendar's, what the codecs, the ACL conversions, the
  configuration reader, the tree walks and the copies compute: induction over
  data (sequences, trees, recursive definitions).
* `NetConn` and the components of `files` and `wire` other than the broker, the
  window and the dates: their states are records with many fields, and their
  inductive invariants have not been worked out.
* `NothingKept`'s half about single flight (no empty slot is left behind).

## Findings

* `host_leak` - when the ring fails during the teardown, `drain_or_leak` forgets
  the operation table with its reply senders, and callers of those operations
  stay blocked, although `UringFs::run` says parked callers are unblocked
  (`uring_fs/host.rs:292`).
* `identity_maplock` - `invalidate` and `clear` drop entries with the map's mutex
  held, and such a drop may be a broker round trip, although `acquire` says the
  mutex is never held across one (`uring_fs/broker.rs:713`).
* `net_stash` - a short header read waits for its clock's completion
  (`recv_close_stash`); if a redelivery dispatched between the two is answered by
  `Detach`, the clock is dropped because the slot is not Serving, and after the
  resume the pump refuses the connection for ever. The test for a settled
  connection in `deliver_one` does not look at the stash
  (`net/server/io.rs:350`).
* `spread_count` - a connection that the spread has counted and that is refused
  before it is served (peer look-up or TLS stage) is never counted off, because
  its slot is already empty when `free_slot` looks
  (`net/core/reactor/mod.rs:306`): the server looks fuller for the rest of its
  life.

Met while modelling, without a run of their own; the models follow the code:

* A job still running when the loop stops is never delivered (`FsConn::offload`:
  "its delivery always fires"). `Delivered` and `DeliveredOnce` speak of the jobs
  that had ended by the last pass; a job that ends after it is outside both.
* `ServerConfig::idle_timeout` "does not interrupt a message already in
  progress", while `short_recv_reason` closes an idle peer that has begun its
  next message.
* A file body parked for want of an operation slot is taken up one entry per file
  completion (`redrive_parked_tail`), so the last one may wait with a slot free
  until some other file operation completes (`net/server/io.rs:778`: "a completing
  fs op frees a slot and re-drives us"; `FileReply!ParkedServed`). A second
  `ReplyFile` while one is active is queued behind it, where
  `net/server/protocol.rs:91` says it closes the connection.
* `Response::ReplyClose` closes "once it - and everything queued before it - has
  flushed" (`net/server/protocol.rs:32`). With a `ReplyFile` waiting behind a body
  that is being streamed, a `ReplyClose` arms the close at once, and at the end of
  the streamed body `drop_queued_file_reply` drops the waiting body and the
  farewell with it (`net/server/io.rs:992`). `FileReply!FarewellKept`, which
  `RepliesWhole` checks, sets that case aside.
* `on_transport` says that its parse of a frame's header "cannot fail"
  (`truenas_api_client/src/lib.rs:938`). A session closed (`close`) while the reply
  to its upgrade is already queued takes that HTTP head for a frame and reaches
  the `unreachable!` (`ApiSession!HeaderParses` states the comment; the model ends
  there, and no run checks it).
* `same_device_only` is said to keep an entry whose own `statx` failed
  (`uring_fs/query_dir.rs:143`); such an entry is left out, or fails the listing
  (`uring_fs/query_dir.rs:779`).
* A child that another thread forks between the `mmap` and the `madvise` of
  `SecretMem::with_capacity` keeps the mapping; the module's doc speaks only of
  regions built before the fork, and so does `SecretsHeld`.
* `IdmapCache` runs its helper "at most once per distinct map set"; racing callers
  may both run it, and one result is kept.
* `descendants_deepest_first` says that a mount whose parent chain breaks is
  ordered "no later than its own descendants"; sorted deepest first, it comes no
  earlier. A mount hidden under another makes a recursive unmount end with EINVAL.
* A directory created between `atomic_write`'s probe and its `RENAME_EXCHANGE`
  ends up under the staging name.
* `ApiEvent::ServerError` says "every call in flight is unaffected"; `on_answer`
  ends them all with `fail_outstanding`. An echo of `core.set_options` that arrives
  while the session closes puts it in `Phase::Open` again, which is the one case
  `ApiQuiet` sets aside (`ApiSession!QuietAfterClose` is the wider statement).
* `block_strict` says a thread created during its scan "inherited the mask this
  call has already set"; one that another, uncovered thread creates did not
  (`ProcessServices!StrictCovers`).

## Not modelled

* **System-call bindings** (`sync_fs` apart from `atomic`, `dir`, `shutil`,
  `iter`, `acl`, `fanotify` and `fhandle`; `fd`, `errno`, `clone3`): argument
  marshalling around one call, no state.
* **Mount construction** (`fsopen`, `fsmount`, `mount_setattr`): one call each.
* **Paths**: predicates on byte strings, without state.
* **Scrubbing** of released memory and the capture of panics by the log: not
  visible to any other part.
* **The text** of HTTP heads, JSON, audit records and log lines beyond the
  fields that decisions are made on.
* **In `NetConn`**: splice bodies, kTLS records and file replies (`FileReply`),
  accept limits, hand-off and handshakes (`Accept`); the closes for a message too
  large (`pump_gate`) and for a `Defer` whose permit is stale (`deliver_one`), which
  end in `close_conn` like the others; 64-bit generations do not wrap and are not
  bounded.
* **In `FsHost`**: the inject that removes an extended attribute
  (`uring_fs/host.rs:487`): a pool job that answers the caller from its worker,
  without the loop.
* **In `NetClient`**: the linked timeouts of reads and sends, and the refusal of a
  send over the backlog (`net/client/io.rs:279`), which changes nothing.
* **In the codecs**: malformed upgrade heads, and the overflow of a chunk size
  (the sizes of the instances are small).
* **In `Acl`**: rights below the first level of inheritance. `NeverWider` speaks of
  the object and of its children's creation mode; a POSIX default list is handed on
  for ever, so a converted `NO_PROPAGATE_INHERIT` grants at depth two what the source
  stopped at depth one, as `lossy.rs` says.
* **The kernel**: its side of rings, credentials, mounts and files is external and
  modelled from what the code relies on.
* **Weak memory**: the atomics of `wake.rs` are checked as if sequentially
  consistent.
