------------------------------- MODULE MCWire -------------------------------
(***************************************************************************)
(* The network side of the crate and what its processes rely on, each      *)
(* component on a small instance: rings, receive storage, listeners, the   *)
(* broker's start, the identity cache and the broker's credential window,  *)
(* the codecs, the two clients, mounts and the system's records.  They     *)
(* meet only in the interfaces each module states, so a behaviour is of    *)
(* one of them: `part` says which.  Its state is s, with r the second      *)
(* variable of the leases; the identity cache and the window have their    *)
(* own.                                                                    *)
(***************************************************************************)
EXTENDS Integers, Sequences, SequencesExt, FiniteSets

CONSTANTS None, t1, t2, u1, u2, w1, c1, c2

VARIABLES part, s, r,
          sock, desynced, toChild, fromChild, child, answer, reg, req, held,
          map, live, cell, gate, pc, key, slot, todo,
          root, allowed, permitted, base, cred, minted

wide   == <<sock, desynced, toChild, fromChild, child, answer, reg, held,
            map, live, cell, gate, key, slot, todo>>
both   == <<req, pc>>
win    == <<root, allowed, permitted, base, cred, minted>>

-----------------------------------------------------------------------------
(* Rings and receive storage: submission and completion rings of two       *)
(* entries whose counters wrap at 4, two receive buffers of two frames     *)
(* under a 2-bit tail, and bodies of three sizes.                          *)
Ring == INSTANCE SqCqRing WITH rg <- s, SqEntries <- 2, CqEntries <- 2, Wrap <- 4, MaxOps <- 5, Shots <- {2}

Pool == INSTANCE RecvPool WITH bp <- s, rl <- r, bo <- s, Entries <- 2, Limit <- 2, Initial <- 1, MaxStep <- 1,
          TailMod <- 4, ShrinkAfter <- 2, Cap <- 2, Writes <- {w1}, MaxLoose <- 1,
          Sizes <- 1..3, BodyBudget <- 5, OversizeServe <- 2, OversizeFloor <- 1, BodyShrink <- 2, MaxOut <- 2

(* Streams of messages under each framer, with and without the pool, kTLS  *)
(* and placed bodies, cut anywhere.                                        *)
Framer(kind, width, big, self) == [kind |-> kind, width |-> width, big |-> big, self |-> self]
StoreMode(framer, stream, threshold, pool, ktls, legal) ==
  [framer |-> framer, stream |-> stream, threshold |-> threshold, pool |-> pool, ktls |-> ktls,
   faults |-> 2, legal |-> legal]
Narrow == Framer("prefix", 1, TRUE, FALSE)
Big    == Framer("prefix", 2, TRUE, FALSE)
Little == Framer("prefix", 2, FALSE, TRUE)
StoreModes ==
  {StoreMode(Narrow, <<2, 11, 12, 0, 3, 13, 14, 15, 1, 16>>, t, p, k, TRUE) :
     t \in {2, 3, 9}, p \in {0, 2, 4, 6}, k \in BOOLEAN}
  \cup {StoreMode(Big, <<0, 2, 11, 12, 1, 0, 13, 14, 15, 16, 0, 1, 17>>, t, p, FALSE, TRUE) :
          t \in {2, 9}, p \in {0, 3, 6}}
  \cup {StoreMode(Little, <<4, 0, 11, 12, 0, 1, 13, 14, 2, 0>>, t, p, FALSE, TRUE) : t \in {2, 9}, p \in {0, 3, 6}}
  \cup {StoreMode(Little, q, 2, 3, FALSE, FALSE) : q \in {<<1, 0, 1, 1>>, <<3, 1, 11, 12>>}}
  \cup {StoreMode(Framer("scan", 1, TRUE, FALSE), <<2, 5, 4, 11, 12, 0, 4, 3, 4, 13, 14, 15>>, t, p, k, FALSE) :
          t \in {2, 3, 9}, p \in {0, 2, 4, 7}, k \in BOOLEAN}
  \cup {StoreMode(Framer("fixed", 2, TRUE, FALSE), <<11, 12, 13, 14, 15, 16>>, t, p, k, TRUE) :
          t \in {2, 9}, p \in {0, 1, 4}, k \in BOOLEAN}

Store == INSTANCE RecvStore WITH st <- s, Junk <- None, Radix <- 4, MaxRequest <- 6, Chunk <- 5

-----------------------------------------------------------------------------
(* Listeners of two servers that join one spread, and a server's build.    *)
Join(server, place, addrs) == [s |-> server, place |-> place, addrs |-> addrs]
AcceptMode(kind, timeout, plan, pool, faults, drains) ==
  [kind |-> kind, timeout |-> timeout, plan |-> plan, pool |-> pool, clients |-> {c1, c2},
   faults |-> faults, drains |-> drains]
Joins == <<Join(1, 1, "x"), Join(2, 1, "x"), Join(2, 2, "y"), Join(2, 3, "x"), Join(2, 2, "x")>>
AcceptModes ==
  {AcceptMode("tcp", FALSE, Joins, 2, 1, {}), AcceptMode("tcp", FALSE, Joins, 1, 0, {2}),
   AcceptMode("tls", TRUE, <<Join(1, 1, "x")>>, 1, 1, {}), AcceptMode("tls", TRUE, <<Join(1, 1, "x")>>, 1, 0, {1}),
   AcceptMode("unix", FALSE, <<>>, 1, 0, {1}), AcceptMode("cred", FALSE, <<Join(1, 2, "x")>>, 1, 0, {})}

Listen == INSTANCE Accept WITH ac <- s, Servers <- {1, 2}, TableSlots <- {1, 2}, NoConn <- None

MaxPool == 15
MinChunk == 4
MaxChunk == 8
Set(field, values) == {[field |-> field, value |-> v] : v \in values}
Fields ==
  Set("pool_size", {0, MaxPool, MaxPool + 1}) \cup Set("fs_ops", {1, MaxPool - 1})
  \cup Set("fs_body_chunk", {MinChunk - 1, MaxChunk}) \cup Set("max_request_bytes", {0, 3})
  \cup Set("recv_buffer_bytes", {MinChunk, MaxChunk + 1}) \cup Set("body_placement_threshold", {MaxChunk, -1})
  \cup Set("max_in_flight_requests", {2}) \cup Set("idle_timeout", {0, 1}) \cup Set("send_timeout", {1})
  \cup Set("tls_handshake_timeout", {0, 1}) \cup Set("request_timeout", {1}) \cup Set("max_receipt_time", {1, 2})
  \cup Set("fs_offload_floor", {3}) \cup Set("lookup_offload_ceiling", {5}) \cup Set("backlog", {0})
  \cup Set("max_send_backlog", {1}) \cup Set("max_send_coalesce", {5}) \cup Set("connect_timeout", {0, 1})
  \cup Set("response_timeout", {1}) \cup Set("max_in_flight", {2, 5})
Switches == Set("recv_pool", {FALSE}) \cup Set("fs_body_pool", {FALSE}) \cup Set("unix_peercred", {TRUE})
SetupOverrides ==
  {{}} \cup {{a} : a \in Fields} \cup {{a} : a \in Switches}
  \cup {Set("fs_ops", {1}) \cup a : a \in {Set("pool_size", {MaxPool}), Set("fs_body_chunk", {MaxChunk}),
                                           Set("max_send_backlog", {1}), Set("fs_body_pool", {FALSE})}}
  \cup {Set("request_timeout", {1}) \cup Set("max_receipt_time", {v}) : v \in {1, 2}}
On(kind, tls) == [kind |-> kind, tls |-> tls]
SetupListens ==
  {<<>>, <<On("tcp", FALSE)>>, <<On("tcp", TRUE)>>, <<On("unix", FALSE), On("tcp6", FALSE)>>, <<On("unix", TRUE)>>,
   <<On("tcp", FALSE), On("tcp", FALSE), On("tcp", FALSE)>>}

Build == INSTANCE Setup WITH su <- s, MAX_POOL <- MaxPool, MAX_RING_ENTRIES <- 32, MAX_IN_FLIGHT <- 4,
           MAX_SEND_COALESCE <- 4, MAX_LISTENERS <- 2, MAX_OFFLOAD_THREADS <- 4, MIN_CHUNK <- MinChunk,
           MAX_CHUNK <- MaxChunk, I32Max <- 16, RECV_CHUNK <- 2, FILE_TAIL_BUFS <- 2, TokenSlots <- 15,
           Overrides <- SetupOverrides, ListenSets <- SetupListens

(* The broker's child: rings whose descriptors lie where the child wants   *)
(* others, few or many descriptors left.                                   *)
Spawning(rings, open, lim, start, limit, caps, rootCaps) ==
  [rings |-> rings, open |-> open, lim |-> lim, root |-> start, limit |-> limit, caps |-> caps, rootCaps |-> rootCaps]
RingFds == {<<a>> : a \in {0, 4, 6}} \cup {q \in {0, 3, 4, 5} \X {0, 3, 4, 5} : q[1] # q[2]}
SpawnCases ==
  {Spawning(fds, o \ {fds[i] : i \in DOMAIN fds}, l, 0 \in o, "plain", 1, {}) :
     fds \in RingFds, o \in {{}, {0, 1, 2}}, l \in {8, 11}}
  \cup {Spawning(<<2, 5>>, {}, 16, TRUE, "root_only", 0, {0}), Spawning(<<2, 5>>, {}, 16, TRUE, "plain", 0, {1}),
        Spawning(<<1, 2, 3>>, {}, 16, TRUE, "plain", 0, {0})}
SpawnUsers ==
  {[uid |-> 0, gid |-> 1, groups |-> <<>>, caps |-> 1], [uid |-> 2, gid |-> 1, groups |-> <<5, 7>>, caps |-> 0],
   [uid |-> 2, gid |-> 1, groups |-> <<>>, caps |-> 1]}

Spawn == INSTANCE BrokerSpawn WITH bs <- s, SOCK_FD <- 3, RING_FD_BASE <- 4, MAX_RINGS <- 2, MAX_GROUPS <- 2,
           HDR_LEN <- 6, TopFd <- 12, Shut <- None, Spawns <- SpawnCases, Users <- SpawnUsers

(* Two threads and two identities on a ring with one personality to give.  *)
Cache == INSTANCE IdentityCache WITH Threads <- {t1, t2}, Users <- {u1, u2}, Ids <- {1}, NoUser <- None,
           NoThread <- None, Slots <- 1..2, NoSlot <- 0

(* Every request for a user or for root, with up to two groups.            *)
GroupLists == {<<>>, <<10>>, <<10, 10>>, <<10, 11>>, <<11, 10>>}

Window == INSTANCE CredWindow WITH Own <- 1, User <- 2, Lists <- GroupLists, NoChange <- 9

-----------------------------------------------------------------------------
(* The uses of the framed client: one connection or two, with TLS, pushes  *)
(* or splices, bounded by what it is asked.                                *)
Use(tls, push, splice, timeout, slots, conns, reqs, faults, calls) ==
  [tls |-> tls, push |-> push, splice |-> splice, timeout |-> timeout, slots |-> slots, conns |-> conns,
   reqs |-> reqs, faults |-> faults, calls |-> calls]
ClientUses ==
  {Use(FALSE, FALSE, FALSE, FALSE, {1, 2}, 2, 1, 0, {}), Use(FALSE, FALSE, FALSE, FALSE, {1}, 2, 2, 0, {"close"}),
   Use(FALSE, TRUE, FALSE, FALSE, {1}, 1, 2, 0, {"close"}), Use(TRUE, FALSE, FALSE, FALSE, {1, 2}, 2, 0, 0, {}),
   Use(TRUE, FALSE, TRUE, TRUE, {1}, 2, 1, 0, {"close"}), Use(TRUE, FALSE, TRUE, TRUE, {1}, 1, 2, 0, {"timed"}),
   Use(FALSE, FALSE, TRUE, FALSE, {1}, 1, 1, 1, {"timed", "close"})}

Client == INSTANCE NetClient WITH nc <- s, Slots <- {1, 2}, MaxInFlight <- 2, Configs <- ClientUses

(* Two requests on one connection: every kind of head and body first, a    *)
(* well-formed one after it.                                               *)
HttpHead(method, te, cl, expect, extra) ==
  [version |-> 11, method |-> method, host |-> <<TRUE>>, te |-> te, cl |-> cl, expect |-> expect, conn |-> {},
   extra |-> extra]
Token(kind, q)  == [k |-> kind, r |-> q]
Size(q, n)      == [k |-> "size", n |-> n, r |-> q]
HeadOf(q, head) ==
  [i \in 1 .. head.extra |-> Token("part", q)] \o <<[k |-> "head", r |-> q, head |-> head]>>
Request(q, head, body, good) == [head |-> head, toks |-> HeadOf(q, head) \o body, good |-> good]
Data(q, n)      == [i \in 1 .. n |-> Token("data", q)]
End(q)          == <<Size(q, 0), Token("crlf", q)>>
Requests(q) ==
  <<Request(q, HttpHead("GET", <<>>, <<>>, FALSE, 0), <<>>, TRUE),
    Request(q, HttpHead("PUT", <<"chunked">>, <<>>, TRUE, 0),
            <<Size(q, 2)>> \o Data(q, 2) \o <<Token("crlf", q), Size(q, 0), Token("field", q), Token("crlf", q)>>, TRUE),
    Request(q, HttpHead("PUT", <<>>, <<2>>, FALSE, 1), Data(q, 2), TRUE),
    Request(q, HttpHead("HEAD", <<>>, <<>>, FALSE, 1), <<>>, TRUE),
    Request(q, HttpHead("PUT", <<>>, <<3>>, TRUE, 1), Data(q, 3), TRUE),
    Request(q, HttpHead("PUT", <<"chunked">>, <<>>, FALSE, 0),
            <<Size(q, 3)>> \o Data(q, 3) \o <<Token("crlf", q)>> \o End(q), TRUE),
    Request(q, HttpHead("PUT", <<"chunked">>, <<>>, FALSE, 0), <<Size(q, 1)>> \o Data(q, 1) \o <<Token("junk", q)>>, FALSE),
    Request(q, HttpHead("PUT", <<"chunked", "gzip">>, <<>>, FALSE, 0), End(q), FALSE),
    Request(q, HttpHead("PUT", <<"chunked">>, <<1>>, FALSE, 0), End(q), TRUE),
    Request(q, HttpHead("PUT", <<>>, <<9>>, FALSE, 0), Data(q, 1), FALSE),
    Request(q, HttpHead("GET", <<>>, <<>>, FALSE, 5), <<>>, FALSE)>>
HttpScripts == [p \in ((1 .. 11) \X {2}) \cup {<<2, 1>>, <<1, 3>>} |-> <<Requests(1)[p[1]], Requests(2)[p[2]]>>]

Http == INSTANCE HttpCodec WITH ht <- s, Scripts <- HttpScripts, MaxHead <- 3, MaxBody <- 4, ChunkOverhead <- 5,
          TrailerMax <- 2, StreamWindow <- 1, StreamCap <- {0, 4}, MaxDefers <- 1

(* Two full cycles of the Gregorian calendar around the epoch.             *)
Date == INSTANCE HttpDate WITH hd <- s, FirstDay <- -27000, LastDay <- 48000, AskDays <- -1 .. 1

(* A frame of every kind and length, then one that closes, continues,      *)
(* interrupts or is not text.                                              *)
Field(name, value) == [name |-> name, value |-> value]
GoodHead ==
  <<Field("method", "GET"), Field("upgrade", "websocket"), Field("connection", "upgrade"), Field("version", "13"),
    Field("key", "k")>>
WsHeads == {GoodHead, Append(GoodHead, Field("key", "k")), SubSeq(GoodHead, 1, 4), GoodHead \o GoodHead}
WsFrame(op, fin, payload) == [op |-> op, fin |-> fin, payload |-> payload]
Zeros(n) == [i \in 1 .. n |-> 0]
WsFirst ==
  {WsFrame("text", TRUE, Zeros(n)) : n \in 0 .. 5}
  \cup {WsFrame("text", FALSE, Zeros(1)), WsFrame("text", FALSE, <<1>>), WsFrame("cont", TRUE, Zeros(2)),
        WsFrame("cont", FALSE, Zeros(1)), WsFrame("text", TRUE, <<0, 1>>),
        WsFrame("ping", TRUE, Zeros(1)), WsFrame("close", TRUE, <<>>),
        WsFrame("pong", TRUE, <<>>), WsFrame("close", TRUE, Zeros(1)), WsFrame("close", FALSE, <<>>),
        WsFrame("binary", TRUE, <<>>), WsFrame("reserved", TRUE, <<>>)}
WsSecond ==
  {WsFrame("close", TRUE, Zeros(1)), WsFrame("cont", TRUE, Zeros(2)), WsFrame("ping", TRUE, Zeros(1)),
   WsFrame("text", TRUE, <<0, 1>>)}

Socket == INSTANCE WsWire WITH ws <- s, Sent <- {<<a, b>> : a \in WsFirst, b \in WsSecond}, Heads <- WsHeads,
            MaxHeadLen <- 7, WsInbound <- 4

(* Two calls and a bulk ticket of a session, with and without its modes,   *)
(* and a wait among five events.                                           *)
Api == INSTANCE ApiSession WITH ap <- s, wt <- s, MaxCalls <- 2, CallBudget <- 1, MaxCallRetries <- 1, MaxQueued <- 1,
         MaxQueuedBytes <- 2, MaxOutbound <- 1, UploadCap <- 2, MaxInbound <- 2, ChunkItems <- 1, Fabricates <- FALSE,
         MaxTickets <- 1, Modes <- {<<FALSE, TRUE>>, <<TRUE, FALSE>>}, MaxWaiting <- 1, MaxEvents <- 5

-----------------------------------------------------------------------------
(* Unmounting: four mount trees below 3, alone or with everything under    *)
(* it; id maps: three callers that want namespaces.                        *)
MountAt(parent, point) == [parent |-> parent, point |-> point, snap |-> FALSE]
NoMount == [parent |-> 0, point |-> <<"-">>, snap |-> FALSE]
MountTrees ==
  {<<MountAt(2, <<"a", "b">>), MountAt(3, <<"a">>), MountAt(9, <<>>), MountAt(1, <<"a", "b", "c">>), NoMount>>,
   <<MountAt(3, <<"a">>), MountAt(3, <<"b">>), MountAt(9, <<>>), MountAt(1, <<"a", "b">>), NoMount>>,
   <<MountAt(2, <<"a">>), MountAt(3, <<"a">>), MountAt(9, <<>>), [MountAt(1, <<"a">>) EXCEPT !.snap = TRUE], NoMount>>,
   <<MountAt(4, <<"a", "b">>), MountAt(3, <<"b">>), MountAt(9, <<>>), MountAt(3, <<"a">>), MountAt(9, <<"..", "x">>)>>}
UnmountWays ==
  [recursive : BOOLEAN, detach : BOOLEAN, force : {FALSE}, expire : {FALSE}, follow : {FALSE},
   names : {"mountpoint", "symlink"}, busy : {{}, {2}}, marked : {{}}, oldKernel : {FALSE}]
  \cup [recursive : {TRUE}, detach : {FALSE}, force : {TRUE}, expire : {FALSE}, follow : {TRUE},
        names : {"symlink", "dir"}, busy : {{}}, marked : {{}}, oldKernel : {TRUE}]
  \cup [recursive : {TRUE}, detach : {FALSE}, force : BOOLEAN, expire : {TRUE}, follow : {FALSE},
        names : {"mountpoint"}, busy : {{}}, marked : {{}, {1, 2}, 1 .. 5}, oldKernel : {FALSE}]

Mount == INSTANCE Mounts WITH mo <- s, im <- s, MountIds <- 1 .. 5, Target <- 3, Trees <- MountTrees,
           UmountModes <- UnmountWays, Batch <- 2, MaxForeign <- 2, Getters <- {"g1", "g2", "g3"}, MaxNs <- 5,
           MaxClears <- 1

(* Addresses, handles and mount records in bytes of two bits, and reads of *)
(* an fanotify descriptor: what the kernel encodes, and other bytes.       *)
Addr(family, ip, port, flow, scope, path) ==
  [family |-> family, ip |-> ip, port |-> port, flow |-> flow, scope |-> scope, path |-> path]
SockAddrs ==
  {Addr("inet", <<1>>, p, 0, 0, <<>>) : p \in {0, 1, 4, 9}}
  \cup {Addr("inet6", <<2>>, p, 1, c, <<>>) : p \in {0, 5}, c \in {0, 3}}
  \cup {Addr("unix", <<>>, 0, 0, 0, [i \in 1 .. n |-> 1]) : n \in 0 .. 5}
  \cup {Addr("unix", <<>>, 0, 0, 0, <<1, 0, 1>>)}
MountDescriptions ==
  [mask : {{"mnt_root", "mnt_point", "fs_type", "opt_array"}, {"mnt_point", "opt_array"}, {"mnt_root"}, {}},
   strs : {[mnt_root |-> <<1>>, mnt_point |-> <<2, 3>>, fs_type |-> <<4>>],
           [mnt_root |-> <<>>, mnt_point |-> <<2>>, fs_type |-> <<4>>],
           [mnt_root |-> <<1, 8>>, mnt_point |-> <<8, 2>>, fs_type |-> <<4>>]},
   opts : {<<>>, <<<<5>>>>, <<<<5, 6>>, <<>>, <<7>>>>, <<<<8, 6>>, <<7>>>>}]

FidOf(handle)        == <<1, <<Len(handle)>> \o handle>>
NameOf(handle, name) == <<2, <<Len(handle)>> \o handle, name>>
PidfdOf(fd)          == <<4, fd>>
MntOf(id)            == <<7, id>>
OtherOf(bytes)       == <<9, bytes>>
InfoCells(info) ==
  LET body == CASE info[1] \in {1, 9} -> info[2]
                [] info[1] = 2 -> info[2] \o info[3] \o <<0, 0>>
                [] OTHER -> <<info[2]>>
  IN <<info[1], 2 + Len(body)>> \o body
EventCells(e) ==
  LET infos == FlattenSeq([k \in DOMAIN e.infos |-> InfoCells(e.infos[k])])
  IN <<4 + Len(infos), 3, 4, e.fd>> \o infos
FanEvent(fd, infos, pidfd) == [fd |-> fd, infos |-> infos \o (IF pidfd = -1 THEN <<>> ELSE <<PidfdOf(pidfd)>>)]
FanInfos ==
  {<<>>, <<MntOf(8)>>, <<NameOf(<<5>>, <<6, 7>>), NameOf(<<>>, <<6>>)>>, <<FidOf(<<0, 5>>), OtherOf(<<4, 3>>)>>}
FanQueues ==
  {<<FanEvent(f, i, 20), FanEvent(g, j, p)>> : f \in {-1, 10}, i \in FanInfos, g \in {-1, 11}, j \in FanInfos, p \in {-1, 21}}
  \cup {<<>>, <<FanEvent(10, <<>>, 20), FanEvent(-1, <<MntOf(8)>>, -1), FanEvent(12, <<OtherOf(<<>>)>>, 22)>>}
FanReads ==
  {[cells |-> FlattenSeq([k \in DOMAIN es |-> EventCells(es[k])]), events |-> es] : es \in FanQueues}
  \cup {[cells |-> <<n, 3, m, 10>> \o b, events |-> None] :
          n \in 3 .. 8, m \in 3 .. 6, b \in UNION {[1 .. k -> 0 .. 4] : k \in 0 .. 3}}
  \cup {[cells |-> SubSeq(<<9, 2, 4, 10, 4, 2>>, 1, k), events |-> None] : k \in 1 .. 6}

Kernel == INSTANCE KernelRecords WITH kr <- s, fe <- s, Radix <- 4, SunPath <- 4, NotText <- {8},
             Addrs <- SockAddrs, HandleSz <- 2, Objects <- {<<>>, <<3>>, <<1, 2>>},
             MountDescs <- MountDescriptions, FirstBuf <- 3, Growth <- 4,
             MaxChanges <- 2, NoFd <- -1, Reads <- FanReads

(* Two threads that log, an audit socket whose sequence number wraps at 8, *)
(* secrets of up to two pages, signals of three threads.  In a logged      *)
(* value 0 is a newline, 9 a character of several bytes; in an audit value *)
(* 2 is a space, 3 and 4 are quotes, 6 is the equals sign, 7 a colon.      *)
LogRecords ==
  {<<<<20, <<<<1>>, <<1, 1>>>>>>>>, <<<<20, <<<<1, 9, 9>>>>>>, <<21, <<<<0, 1>>>>>>>>,
   <<<<20, <<<<1, 1, 1, 0, 1>>, <<1>>>>>>, <<22, <<<<>>>>>>>>}
AuditFields == {<<>>} \cup {<<<<<<1, 6>>, v>>>> : v \in {<<>>, <<1, 5>>, <<1, 2, 1>>, <<4>>, <<3, 1>>, <<6, 7>>}}
AuditRecords ==
  [service : {<<1>>}, verb : {<<1>>}, user : {None}, fields : AuditFields, success : {TRUE}]
  \cup [service : {<<1>>}, verb : {<<2>>}, user : {<<1>>}, fields : {<<>>}, success : {TRUE}]

Process == INSTANCE ProcessServices WITH jl <- s, au <- s, se <- s, sg <- s, Emitters <- {"e1", "e2"},
             Records <- LogRecords, MaxEmits <- 2, MAX_VALUE <- 5, AuditEvents <- AuditRecords, MaxSends <- 2,
             MAX_RECORD_LEN <- 16,
             AckScanLimit <- 2, SeqWrap <- 8, MaxStray <- 1, PageSize <- 2, Lens <- {0, 2, 3}, Limits <- {1, 3, 9},
             Unlimited <- 9, MaxOther <- 2, MaxRegions <- 2, Tids <- 0 .. 2, Main <- 0, Early <- {{}, {1}},
             Strict <- BOOLEAN, MaxRaised <- 2

-----------------------------------------------------------------------------
NoCache  ==
  /\ sock = None /\ desynced = None /\ toChild = None /\ fromChild = None /\ child = None
  /\ answer = None /\ reg = None /\ held = None /\ map = None /\ live = None
  /\ cell = None /\ gate = None /\ key = None /\ slot = None /\ todo = None
NoWindow == root = None /\ allowed = None /\ permitted = None /\ base = None /\ cred = None /\ minted = None
Alone    == r = None /\ NoCache /\ NoWindow /\ req = None /\ pc = None

WireInit ==
  \/ /\ Alone
     /\ \/ part = "ring" /\ Ring!RingInit
        \/ part = "body" /\ Pool!BodyInit
        \/ part = "store" /\ Store!StoreInit
        \/ part = "accept" /\ Listen!AcceptInit
        \/ part = "setup" /\ Build!SetupInit
        \/ part = "spawn" /\ Spawn!SpawnInit
        \/ part = "client" /\ Client!ClientInit
        \/ part = "http" /\ Http!HttpInit
        \/ part = "date" /\ Date!DateInit
        \/ part = "ws" /\ Socket!WsInit
        \/ part = "api" /\ Api!ApiInit
        \/ part = "wait" /\ Api!WaitInit
        \/ part = "umount" /\ Mount!UmountInit
        \/ part = "idmap" /\ Mount!IdmapInit
        \/ part = "record" /\ Kernel!KernelInit
        \/ part = "fan" /\ Kernel!FanInit
        \/ part = "journal" /\ Process!JournalInit
        \/ part = "audit" /\ Process!AuditInit
        \/ part = "secret" /\ Process!SecretInit
        \/ part = "signal" /\ Process!SigInit
  \/ part = "lease" /\ Pool!LeaseInit /\ NoCache /\ NoWindow /\ req = None /\ pc = None
  \/ part = "cache" /\ Cache!CacheInit /\ s = None /\ r = None /\ NoWindow
  \/ part = "window" /\ Window!Init /\ s = None /\ r = None /\ NoCache

WireNext ==
  /\ part' = part
  /\ \/ /\ UNCHANGED <<r, wide, both, win>>
        /\ \/ part = "ring" /\ Ring!RingNext
           \/ part = "body" /\ Pool!BodyNext
           \/ part = "store" /\ Store!StoreNext
           \/ part = "accept" /\ Listen!AcceptNext
           \/ part = "setup" /\ Build!SetupNext
           \/ part = "spawn" /\ Spawn!SpawnNext
           \/ part = "client" /\ Client!ClientNext
           \/ part = "http" /\ Http!HttpNext
           \/ part = "date" /\ Date!DateNext
           \/ part = "ws" /\ Socket!WsNext
           \/ part = "api" /\ Api!ApiNext
           \/ part = "wait" /\ Api!WaitNext
           \/ part = "umount" /\ Mount!UmountNext
           \/ part = "idmap" /\ Mount!IdmapNext
           \/ part = "record" /\ Kernel!KernelNext
           \/ part = "fan" /\ Kernel!FanNext
           \/ part = "journal" /\ Process!JournalNext
           \/ part = "audit" /\ Process!AuditNext
           \/ part = "secret" /\ Process!SecretNext
           \/ part = "signal" /\ Process!SigNext
     \/ part = "lease" /\ Pool!LeaseNext /\ UNCHANGED <<wide, both, win>>
     \/ part = "cache" /\ Cache!CacheNext /\ UNCHANGED <<s, r, win>>
     \/ part = "window" /\ Window!Next /\ UNCHANGED <<s, r, wide>>

wire == <<part, s, r, wide, both, win>>
WireSpec == WireInit /\ [][WireNext]_wire

-----------------------------------------------------------------------------
\* Rings and receive storage: the kernel and the program agree on every
\* submission and completion entry across wraps (ring.rs); a receive buffer has
\* one owner, is never posted under a lease, and the pools stay within their
\* budgets and give every buffer back (bufring.rs, bodypool.rs); what a framer
\* is handed is the stream the peer sent (net/core/conn.rs).
StorageExact ==
  /\ part = "ring" => Ring!RingExact /\ Ring!WaitReturnsOwed
  /\ part = "lease" => Pool!RingIntact /\ Pool!WithinBudget /\ Pool!OneOwner /\ Pool!NoRecvUnderLease
  /\ part = "body" => Pool!BodiesBounded
  /\ part = "store" => Store!StreamExact

\* Starting to serve: every accepted connection is attended or closed and an
\* open listener is not left unarmed (accept.rs); a build that fails releases
\* what it made, once, and one that succeeds serves what was configured
\* (server/mod.rs); the broker's child finds its rings where it looks for them, and
\* no child outlives a failed spawn (broker.rs).
ListenersSound ==
  /\ part = "accept" => Listen!ConnsAttended /\ Listen!NeverDeaf
  /\ part = "setup" => Build!ReleasedOnce /\ Build!ServesAsConfigured
  /\ part = "spawn" => Spawn!LayoutExact /\ Spawn!SpawnSettles

\* The framed client: every request ends in exactly one event of its
\* connection, and a wait returns only what it waited for (net/client/).
ClientSound == part = "client" => Client!EventsExact /\ Client!WaitsSound

\* The codecs: requests and bodies are cut where the peer cut them and answered
\* in order (http/), the Date is the calendar's (http/date.rs), and a WebSocket
\* endpoint delivers the messages sent and closes once (ws/).
CodecsExact ==
  /\ part = "http" => Http!InStep /\ Http!EntityExact /\ Http!AnswersInOrder
  /\ part = "date" => Date!DateExact
  /\ part = "ws" => Socket!FramesExact /\ Socket!ClosesOnce

\* The API client: every call and every deferred item ends once, slots are
\* counted, a full queue wakes its caller, and a wait keeps what it sets aside
\* in order (truenas_api_client, session.rs and lib.rs).
ApiSound ==
  /\ part = "api" => Api!CallsEndOnce /\ Api!SlotsExact /\ Api!ItemsEndOnce /\ Api!QueueWakes
  /\ part = "wait" => Api!WaitKeeps

\* While a session closes it takes on nothing it would owe an end
\* (session.rs).
ApiQuiet == [][part = "api" => (s.phase = "closing" /\ s'.phase = "closing" => s'.owed \subseteq s.owed)]_wire

\* What a process shares with its system: recursive unmounts take the mounts
\* they may and in order, a user namespace serves one map set (mount/); records
\* the kernel writes are read as written and their descriptors owned
\* (fanotify.rs, statmount.rs, sock.rs); lost log records are accounted for,
\* an audit verdict answers its own event, secret pages are locked while they
\* hold a secret, and a blocked signal is taken (log/journal.rs, audit/,
\* secrets.rs, signal.rs).
SystemSound ==
  /\ part = "umount" => Mount!UmountExact
  /\ part = "idmap" => Mount!NamespaceShared
  /\ part = "record" => Kernel!RecordsExact
  /\ part = "fan" => Kernel!EventsOwned
  /\ part = "journal" => Process!LossAccounted
  /\ part = "audit" => Process!VerdictOwn
  /\ part = "secret" => Process!SecretsHeld
  /\ part = "signal" => Process!SignalsTaken

\* The identity cache: a lease names a personality that is registered for its
\* user, and one nobody can reach is unregistered or marked (broker.rs).
LeaseValid == part = "cache" => Cache!LeaseValid /\ Cache!NoneStranded

\* The broker child's window: a personality has the credentials asked for, and
\* the child is itself again between requests (broker.rs).
SnapshotExact == part = "window" => Window!SnapshotExact /\ Window!WindowClosed

-----------------------------------------------------------------------------
\* The listeners alone, for the count of the spread.
SpreadSpec == part = "accept" /\ Listen!AcceptInit /\ Alone /\ [][part = "accept" /\ WireNext]_wire

\* The spread counts the connections a server holds and no other
\* (reactor/mod.rs, spread.rs).
CountExact == Listen!CountExact

\* The cache alone, for how long its map is locked.
CacheSpec == part = "cache" /\ Cache!CacheInit /\ s = None /\ r = None /\ NoWindow /\ [][part = "cache" /\ WireNext]_wire

\* The lock of the map is not held across a broker call (broker.rs).
MapLockBrief == Cache!MapLockBrief
=============================================================================
