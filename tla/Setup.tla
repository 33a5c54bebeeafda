------------------------------- MODULE Setup --------------------------------
(***************************************************************************)
(* Building a server or a client: the rules a configuration must pass      *)
(* (ServerConfig::validate, ClientConfig::validate), the ring it sizes and *)
(* maps (RingFd::setup, Ring::from_setup), the kernel features it probes,  *)
(* the listeners it opens, the buffer pools it asks for, and the release   *)
(* of all of it when a step fails or the value is dropped.                 *)
(*                                                                         *)
(* Sizes are scaled: the constants below keep the order of the code's      *)
(* limits, not their magnitude.  A duration is -1 if unset.                 *)
(***************************************************************************)
EXTENDS Integers, Sequences, FiniteSets, SequencesExt

CONSTANTS MAX_POOL, MAX_RING_ENTRIES, MAX_IN_FLIGHT, MAX_SEND_COALESCE,
          MAX_LISTENERS, MAX_OFFLOAD_THREADS, MIN_CHUNK, MAX_CHUNK, I32Max,
          RECV_CHUNK, FILE_TAIL_BUFS, TokenSlots,
          Overrides,      \* sets of [field, value] laid over the defaults
          ListenSets      \* sequences of [kind, tls] to listen on

VARIABLE su

Unset == -1
Range01(n, lo, hi) == lo <= n /\ n <= hi
Least(a, b) == IF a < b THEN a ELSE b

\* ServerConfig::default, scaled
ServerDefault ==
  [pool_size |-> 2, fs_ops |-> 0, fs_offload_floor |-> 1, fs_offload_ceiling |-> 2,
   lookup_offload_floor |-> 1, lookup_offload_ceiling |-> 2, fs_body_chunk |-> MIN_CHUNK + 1,
   fs_body_pool |-> TRUE, max_request_bytes |-> MAX_CHUNK, recv_pool |-> TRUE,
   recv_lease_depth |-> 1, recv_buffer_bytes |-> MIN_CHUNK + 1, buf_pool_max_step_bytes |-> 1,
   buf_pool_max_bytes |-> Unset, recv_shortage_retry |-> 1, backlog |-> 1, idle_timeout |-> Unset,
   request_timeout |-> Unset, max_receipt_time |-> Unset, receipt_window_bytes |-> 1,
   max_in_flight_requests |-> 1, send_timeout |-> Unset, tls_handshake_timeout |-> Unset,
   keepalive |-> Unset, tcp_user_timeout |-> Unset, unix_peercred |-> FALSE,
   max_send_backlog |-> FILE_TAIL_BUFS * (MIN_CHUNK + 1), max_send_coalesce |-> 1,
   body_placement_threshold |-> MIN_CHUNK]

\* ClientConfig::default, scaled
ClientDefault ==
  [pool_size |-> 2, max_reply_bytes |-> MAX_CHUNK, max_in_flight |-> 1,
   body_placement_threshold |-> MIN_CHUNK, max_send_backlog |-> 1, max_send_coalesce |-> 1,
   keepalive |-> Unset, tcp_user_timeout |-> Unset, connect_timeout |-> Unset,
   response_timeout |-> Unset, send_timeout |-> Unset, idle_timeout |-> Unset,
   tls_handshake_timeout |-> Unset, expect_server_push |-> FALSE]

\* ApiConfig::to_client
ApiClient ==
  [ClientDefault EXCEPT !.pool_size = 2, !.max_in_flight = MAX_IN_FLIGHT - 1,
                        !.connect_timeout = 1, !.expect_server_push = TRUE]

\* The listeners and the fixed sizes of ServerConfig::validate
TableRules(c, l) ==
  /\ Range01(Len(l), 1, MAX_LISTENERS)
  /\ \A i \in DOMAIN l : l[i].tls => l[i].kind \in {"tcp", "tcp6"}
  /\ Range01(c.pool_size, 1, MAX_POOL)
  /\ c.fs_ops > 0 => c.fs_ops + c.pool_size <= MAX_POOL
  /\ 1 <= c.fs_offload_floor /\ c.fs_offload_floor <= c.fs_offload_ceiling
  /\ c.fs_offload_ceiling <= MAX_OFFLOAD_THREADS
  /\ 1 <= c.lookup_offload_floor /\ c.lookup_offload_floor <= c.lookup_offload_ceiling
  /\ c.lookup_offload_ceiling <= MAX_OFFLOAD_THREADS

BufferRulesNoTail(c) ==
  /\ Range01(c.fs_body_chunk, MIN_CHUNK, MAX_CHUNK)
  /\ Range01(c.max_request_bytes, 1, I32Max)
  /\ Range01(c.recv_buffer_bytes, MIN_CHUNK, MAX_CHUNK)
  /\ c.buf_pool_max_step_bytes # 0 /\ c.buf_pool_max_bytes # 0
  /\ c.receipt_window_bytes # 0 /\ c.idle_timeout # 0

\* The buffers: a tail's chunks fit the send backlog, and a pooled receive
\* buffer holds every body that is not placed
BufferRules(c) ==
  /\ Range01(c.fs_body_chunk, MIN_CHUNK, MAX_CHUNK)
  /\ c.fs_ops > 0 => FILE_TAIL_BUFS * c.fs_body_chunk <= c.max_send_backlog
  /\ Range01(c.max_request_bytes, 1, I32Max)
  /\ Range01(c.recv_buffer_bytes, MIN_CHUNK, MAX_CHUNK)
  /\ (c.recv_pool /\ c.body_placement_threshold # Unset) =>
       Least(c.recv_buffer_bytes, c.max_request_bytes)
         >= Least(c.body_placement_threshold, c.max_request_bytes)
  /\ c.buf_pool_max_step_bytes # 0 /\ c.buf_pool_max_bytes # 0
  /\ c.receipt_window_bytes # 0 /\ c.idle_timeout # 0

\* The queues and the timers
FlowRules(c) ==
  /\ c.backlog > 0 /\ c.max_send_backlog # 0
  /\ Range01(c.max_send_coalesce, 1, MAX_SEND_COALESCE)
  /\ Range01(c.max_in_flight_requests, 1, MAX_IN_FLIGHT)
  /\ \A d \in {c.send_timeout, c.request_timeout, c.max_receipt_time, c.tls_handshake_timeout,
               c.recv_shortage_retry, c.keepalive, c.tcp_user_timeout} : d # 0
  /\ (c.max_receipt_time # Unset /\ c.request_timeout # Unset)
        => c.max_receipt_time > c.request_timeout

\* ServerConfig::validate and ClientConfig::validate
ValidateServer(c, l) == TableRules(c, l) /\ BufferRules(c) /\ FlowRules(c)
ValidateClient(c) ==
  /\ Range01(c.pool_size, 1, MAX_POOL) /\ Range01(c.max_reply_bytes, 1, I32Max)
  /\ Range01(c.max_in_flight, 1, MAX_IN_FLIGHT) /\ c.max_send_backlog # 0
  /\ Range01(c.max_send_coalesce, 1, MAX_SEND_COALESCE)
  /\ \A d \in {c.connect_timeout, c.response_timeout, c.send_timeout, c.idle_timeout,
               c.tls_handshake_timeout, c.keepalive, c.tcp_user_timeout} : d # 0

\* What the engine reads of either (to_core)
ServerCore(c) ==
  [max_request |-> c.max_request_bytes, threshold |-> c.body_placement_threshold,
   backlog |-> c.max_send_backlog, in_flight |-> c.max_in_flight_requests,
   idle |-> c.idle_timeout, request |-> c.request_timeout, receipt |-> c.max_receipt_time,
   send |-> c.send_timeout, shake |-> c.tls_handshake_timeout, retry |-> c.recv_shortage_retry]
ClientCore(c) ==
  [max_request |-> c.max_reply_bytes, threshold |-> c.body_placement_threshold,
   backlog |-> c.max_send_backlog, in_flight |-> c.max_in_flight,
   idle |-> c.idle_timeout, request |-> c.response_timeout, receipt |-> Unset,
   send |-> c.send_timeout, shake |-> c.tls_handshake_timeout, retry |-> Unset]
-----------------------------------------------------------------------------
(* The ring's size *)

NextPow2(n) == CHOOSE p \in {2^k : k \in 0 .. 12} : n <= p /\ (p = 1 \/ p \div 2 < n)
One(b) == IF b THEN 1 ELSE 0

\* fs_op_slots
FsOpSlots(c) == IF c.fs_ops > 0 THEN c.fs_ops + c.pool_size ELSE 0

\* ring_entries of the server, and of the client
ServerEntries(c, l) ==
  LET perConn == (IF c.max_in_flight_requests > 1 THEN 2 ELSE 1)
                 + One(c.idle_timeout # Unset \/ c.request_timeout # Unset)
                 + One(c.send_timeout # Unset) + One(c.tls_handshake_timeout # Unset)
  IN  Least(NextPow2(c.pool_size * perConn + 1 + Len(l) + FsOpSlots(c)), MAX_RING_ENTRIES)
ClientEntries(c) ==
  LET perConn == (IF c.max_in_flight > 1 THEN 2 ELSE 1)
                 + One(c.idle_timeout # Unset \/ c.response_timeout # Unset)
                 + One(c.send_timeout # Unset) + One(c.connect_timeout # Unset)
                 + One(c.tls_handshake_timeout # Unset)
  IN  Least(NextPow2(c.pool_size * perConn + 2), MAX_RING_ENTRIES)
Entries(w) == IF w.role = "server" THEN ServerEntries(w.cfg, w.listen) ELSE ClientEntries(w.cfg)

\* recv_pool_buf_len
RecvPoolBufLen(c) == Least(c.recv_buffer_bytes, c.max_request_bytes) + RECV_CHUNK
-----------------------------------------------------------------------------
(* What the process holds, and its release *)

\* kern is what an operation in flight may still write to; bad records a
\* release of something not held, or still in kern
Hold(w, r) == [w EXCEPT !.live = @ \cup {r}]
Free(w, r) == [w EXCEPT !.live = @ \ {r}, !.bad = @ \/ r \notin w.live \/ r \in w.kern]
FreeAll(w, rs) == FoldSet(LAMBDA r, v : Free(v, r), w, rs)
Forget(w, rs) == [w EXCEPT !.live = @ \ rs, !.lost = @ \cup (rs \cap w.live)]

\* Drop for RingFd (its RingMemory, its descriptor)
DropRingFd(w) == FreeAll(w, {"fd"} \cup (IF w.own THEN {"sqes", "rings"} ELSE {}))

\* Drop for Ring: three mappings, or two when the CQ shares the SQ's
DropRing(w) ==
  FreeAll(w, IF w.own THEN {"sqes", "rings", "fd"}
             ELSE {"sqes", "rings", "fd"} \cup (IF w.single THEN {} ELSE {"cq"}))

Fail(w) == [w EXCEPT !.step = "failed"]
Goto(w, st) == [w EXCEPT !.step = st]
\* The engine and what was built on it are dropped on the way out
FailBuild(w) == Fail(DropRing(FreeAll(w, w.live \cap {"wake", "listen1", "listen2"})))
-----------------------------------------------------------------------------
(* The steps *)

SetupInit ==
  \E role \in {"server", "client", "api"}, over \in Overrides, l \in ListenSets,
     given \in {0, 1, MAX_RING_ENTRIES} :
     LET base == CASE role = "server" -> ServerDefault
                   [] role = "client" -> ClientDefault
                   [] role = "api"    -> ApiClient
     IN  /\ role # "server" => l = << >>
         /\ role = "server" => l # << >> \/ over = {}
         /\ given # 0 => Cardinality(over) <= 1
         /\ su = [role |-> IF role = "server" THEN "server" ELSE "client", listen |-> l,
                  cfg |-> [f \in DOMAIN base |->
                             IF \E o \in over : o.field = f
                             THEN (CHOOSE o \in over : o.field = f).value ELSE base[f]],
                  given |-> given, entries |-> 0, step |-> "validate",
                  own |-> FALSE, single |-> FALSE, install |-> FALSE, shakes |-> FALSE, detaches |-> FALSE,
                  live |-> {}, kern |-> {}, lost |-> {}, bad |-> FALSE, opened |-> 0,
                  recv |-> FALSE, body |-> FALSE, refused |-> 0, core |-> [none |-> 0]]

\* with_config, with_ring and the client's new, with_ring up to the ring.  A
\* ring given by the caller was set up beforehand; one too small is refused.
ValidateConfig ==
  /\ su.step = "validate"
  /\ LET valid == IF su.role = "server" THEN ValidateServer(su.cfg, su.listen) ELSE ValidateClient(su.cfg)
     IN  su' = IF ~valid THEN Fail(su)
               ELSE IF su.given = 0 THEN Goto([su EXCEPT !.entries = Entries(su)], "ring")
               ELSE IF su.given < Entries(su) THEN Fail(DropRingFd(Hold(su, "fd")))
               ELSE Goto(Hold([su EXCEPT !.entries = su.given], "fd"), "map")

\* RingFd::setup: kernel memory, and on ENOMEM memory of our own, which an
\* error gives back
RingSetup ==
  /\ su.step = "ring"
  /\ \/ su' = Goto(Hold(su, "fd"), "map")
     \/ su' = Fail(su)
     \/ \E failsAt \in {"rings", "sqes", "setup", "none"} :
          LET one == Hold(su, "rings")
              two == Hold(one, "sqes")
          IN  su' = CASE failsAt = "rings" -> Fail(su)
                      [] failsAt = "sqes"  -> Fail(Free(one, "rings"))
                      [] failsAt = "setup" -> Fail(FreeAll(two, {"sqes", "rings"}))
                      [] failsAt = "none"  -> Goto([Hold(two, "fd") EXCEPT !.own = TRUE], "map")

\* Ring::from_setup: adopt_own_memory takes the memory over, map_from_fd
\* maps the two or three regions and undoes the ones before a failure
RingMapped ==
  /\ su.step = "map"
  /\ IF su.own THEN su' = Goto(su, "assemble")
     ELSE \E single \in BOOLEAN, failsAt \in {"sq", "cq", "sqes", "none"} :
          LET w == [su EXCEPT !.single = single]
              sq == Hold(w, "rings")
              cq == IF single THEN sq ELSE Hold(sq, "cq")
          IN  /\ failsAt = "cq" => ~single
              /\ su' = CASE failsAt = "sq"   -> Fail(Free(w, "fd"))
                         [] failsAt = "cq"   -> Fail(FreeAll(sq, {"rings", "fd"}))
                         [] failsAt = "sqes" ->
                              Fail(FreeAll(cq, {"rings", "fd"} \cup (IF single THEN {} ELSE {"cq"})))
                         [] failsAt = "none" -> Goto(Hold(cq, "sqes"), "assemble")

\* Engine::assemble: the fixed-file pool, the probe of FIXED_FD_INSTALL, the
\* wake eventfd
Assemble ==
  /\ su.step = "assemble"
  /\ \E works, install \in BOOLEAN :
       su' = IF ~works THEN Fail(DropRing(su))
             ELSE Goto(Hold([su EXCEPT !.install = install], "wake"),
                       IF su.role = "server" THEN "probe" ELSE "build_client")

Asks(l, kinds) == \E i \in DOMAIN l : l[i].kind \in kinds
Tls(l) == \E i \in DOMAIN l : l[i].tls

\* probe_unix_peercred and probe_tcp_cmd, by what the kernel answers: a wait
\* that fails leaves the command in flight, and the pad it writes is
\* forgotten, not freed
ProbeCmd(w, answer) ==
  CASE answer = "ok"     -> w
    [] answer = "no"     -> FailBuild(w)
    [] answer = "broken" ->
         FailBuild(Forget([Hold(w, "pad") EXCEPT !.kern = @ \cup {"pad"}], {"pad"}))
Probes ==
  /\ su.step = "probe"
  /\ \E answer \in {"ok", "no", "broken"}, ktls \in BOOLEAN :
       LET asks == \/ su.cfg.unix_peercred /\ Asks(su.listen, {"unix"})
                   \/ Asks(su.listen, {"tcp", "tcp6"})
           probed == IF asks THEN ProbeCmd(su, answer) ELSE su
       IN  su' = IF probed.step = "failed" THEN probed
                 ELSE IF Tls(su.listen) /\ (~ktls \/ ~su.install) THEN FailBuild(su)
                 ELSE Goto(su, "listen")

\* One listen_socket: its descriptor closes with any step that fails, and
\* the ones opened before it with the build
ListenSocket ==
  /\ su.step = "listen"
  /\ IF su.opened = Len(su.listen) THEN su' = Goto(su, "pools")
     ELSE \E works \in BOOLEAN :
            LET name == IF su.opened = 0 THEN "listen1" ELSE "listen2"
            IN  su' = IF works THEN [Hold(su, name) EXCEPT !.opened = @ + 1] ELSE FailBuild(su)

\* count_memlock_refusal: a refusal for want of locked memory is counted
CountRefusal(asked, answer) == One(asked /\ answer = "ENOMEM")

\* The rest of build: the pools are asked for and one refused is left out
Pools ==
  /\ su.step = "pools"
  /\ \E r, b \in {"ok", "ENOMEM", "other"} :
       LET asksBody == su.cfg.fs_ops > 0 /\ su.cfg.fs_body_pool
           recv == su.cfg.recv_pool /\ r = "ok"
           body == asksBody /\ b = "ok"
           held == {"table"} \cup (IF recv THEN {"recv_bufs"} ELSE {})
                    \cup (IF body THEN {"body_bufs"} ELSE {})
                    \cup (IF su.cfg.fs_ops > 0 THEN {"fs"} ELSE {})
       IN  su' = Goto([su EXCEPT !.live = @ \cup held, !.recv = recv, !.body = body,
                                 !.refused = CountRefusal(su.cfg.recv_pool, r) + CountRefusal(asksBody, b),
                                 !.core = ServerCore(su.cfg)], "built")
ClientBuilt ==
  /\ su.step = "build_client"
  /\ su' = Goto([Hold(su, "table") EXCEPT !.core = ClientCore(su.cfg)], "built")

SetTlsHandshake ==
  /\ su.step = "built" /\ su.role = "server" /\ ~su.shakes
  /\ su' = [su EXCEPT !.shakes = TRUE]
SetDetachHandler ==
  /\ su.step = "built" /\ su.role = "server" /\ ~su.detaches
  /\ su' = [su EXCEPT !.detaches = TRUE]

\* serve_forever's own checks, then operations go out that write to the
\* connections' buffers, the pools, the fs table and the wake buffer
ServeOrRefuse ==
  /\ su.step = "built"
  /\ su' = IF (Tls(su.listen) /\ ~su.shakes) \/ (su.detaches /\ ~su.install) THEN Goto(su, "refused")
           ELSE Goto([su EXCEPT !.kern = su.live \cap {"table", "recv_bufs", "body_bufs", "fs", "wake"}],
                     "serving")

\* drain_or_leak: what an operation that could not be reaped may write to is
\* leaked, the fs table by the server after it
DrainOrLeakTable(w, drained) ==
  IF drained THEN [w EXCEPT !.kern = {}] ELSE Forget(w, {"table", "wake"})
DrainOrLeak(w, drained) ==
  IF drained THEN [w EXCEPT !.kern = {}]
  ELSE Forget(w, {"table", "recv_bufs", "body_bufs", "wake", "fs"})

DropValue ==
  /\ su.step \in {"built", "serving", "refused"}
  /\ \E drained \in BOOLEAN :
       LET w == DrainOrLeak(su, drained)
       IN  /\ su.kern = {} => drained
           /\ su' = Goto(DropRing(FreeAll(w, w.live \ {"sqes", "rings", "cq", "fd"})), "dropped")

SetupNext ==
  \/ ValidateConfig \/ RingSetup \/ RingMapped \/ Assemble \/ Probes \/ ListenSocket
  \/ Pools \/ ClientBuilt \/ SetTlsHandshake \/ SetDetachHandler \/ ServeOrRefuse \/ DropValue

SetupSpec == SetupInit /\ [][SetupNext]_su
-----------------------------------------------------------------------------
\* Whatever step of the build fails, and however the value ends, every
\* mapping, descriptor and buffer is released exactly once, none of them
\* while an operation in flight may write to it, and nothing is kept but
\* what had to be leaked for that reason.
ReleasedOnce ==
  /\ ~su.bad
  /\ su.step \in {"failed", "dropped"} => su.live = {}
  /\ su.lost \subseteq su.kern

\* A server that serves can do what its configuration asks: every slot of
\* its two tables fits a completion token; its ring holds, or is the largest
\* there is for, one operation of each kind per connection; a tail's chunks
\* fit the send backlog it is bounded by; a body that is not placed fits the
\* pooled buffer it arrives in, with room for one more read; every timer it
\* set runs for some time; a TLS listener has a handshake handler and the
\* kernel's two features for it; and a connection can be detached if a
\* handler is there for it.
ServesAsConfigured ==
  (su.step = "serving" /\ su.role = "server") =>
     LET c == su.cfg
     IN  /\ c.pool_size <= TokenSlots /\ FsOpSlots(c) <= TokenSlots
         /\ \/ su.entries >= MAX_RING_ENTRIES
            \/ su.entries >= c.pool_size + Len(su.listen) + 1 + c.fs_ops
         /\ (c.fs_ops > 0) => FILE_TAIL_BUFS * c.fs_body_chunk <= su.core.backlog
         /\ (su.recv /\ su.core.threshold # Unset) =>
              \A body \in 1 .. Least(su.core.max_request, su.core.threshold) :
                 body + RECV_CHUNK <= RecvPoolBufLen(c)
         /\ 0 \notin {su.core.idle, su.core.request, su.core.receipt, su.core.send,
                      su.core.shake, su.core.retry}
         /\ Tls(su.listen) => su.shakes /\ su.install
         /\ su.detaches => su.install
=============================================================================
