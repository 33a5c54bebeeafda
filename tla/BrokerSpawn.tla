---------------------------- MODULE BrokerSpawn ----------------------------
(***************************************************************************)
(* The birth and the end of the credential broker (uring_fs/broker.rs):    *)
(* spawn_policy, the child's renumbering of the descriptors it inherits,   *)
(* its ready datagram, the requests' wire form, and BrokerInner's drop.    *)
(*                                                                         *)
(* A process is its descriptor table, a function from Fds to the name of   *)
(* the open file, Shut where there is none.  The files are the rings, the  *)
(* two ends of the socket pair ("near" is the parent's, "far" the child's) *)
(* and one more the daemon had open.  A capability set is abstracted to    *)
(* whether it has CAP_SETUID and CAP_SETGID, in the process's own sets and *)
(* in its bounding set.                                                    *)
(***************************************************************************)
EXTENDS Integers, Sequences, FiniteSets, SequencesExt

CONSTANTS SOCK_FD, RING_FD_BASE, MAX_RINGS, MAX_GROUPS, HDR_LEN,
          TopFd,          \* descriptors are 0..TopFd
          Shut,
          Spawns,         \* [rings : fds in order, open : fds the daemon holds, lim, root, limit]
          Users           \* [uid, gid, groups, caps] a caller asks for

VARIABLE bs

Fds  == 0..TopFd
OP_REGISTER   == 1
OP_UNREGISTER == 2
Ring(i) == <<"ring", i>>
NoFds   == [f \in Fds |-> Shut]

\* Every process before spawn: the rings exist, and perhaps something else.
TableOf(c) ==
  [f \in Fds |-> IF \E i \in DOMAIN c.rings : c.rings[i] = f
                 THEN Ring(CHOOSE i \in DOMAIN c.rings : c.rings[i] = f)
                 ELSE IF f \in c.open THEN <<"other", 0>> ELSE Shut]

SpawnInit ==
  \E c \in Spawns :
    bs = [cfg |-> c, pc |-> "check", fds |-> TableOf(c), near |-> 0, far |-> 0,
          setid |-> TRUE, bound |-> TRUE, ret |-> "none", held |-> FALSE, checked |-> FALSE,
          child |-> "none", cfds |-> NoFds, csetid |-> FALSE, reaped |-> FALSE, code |-> 0,
          down |-> <<>>, up |-> <<>>, asked |-> <<>>, done |-> <<>>]

(***************************************************************************)
(* The kernel.                                                             *)
(***************************************************************************)
LowestFree(t) == CHOOSE f \in Fds : t[f] = Shut /\ \A g \in 0..(f - 1) : t[g] # Shut
Dup2(t, from, to) == [t EXCEPT ![to] = t[from]]
CloseRange(t, first, last) == [f \in Fds |-> IF f \in first..last THEN Shut ELSE t[f]]
Holds(t, x) == \E f \in Fds : t[f] = <<x, 0>>
Alive == bs.child \notin {"none", "gone"}
FarHeld  == Holds(bs.fds, "far") \/ (Alive /\ Holds(bs.cfds, "far"))
NearHeld == Holds(bs.fds, "near") \/ (Alive /\ Holds(bs.cfds, "near"))

(***************************************************************************)
(* spawn_policy, in the parent.                                            *)
(***************************************************************************)
Return(s, r) == [s EXCEPT !.ret = r, !.pc = "returned"]

\* The two ends are OwnedFds: an early return closes them.
CloseEnds(s) == [s EXCEPT !.fds = [f \in Fds |-> IF s.fds[f] \in {<<"near", 0>>, <<"far", 0>>} THEN Shut ELSE s.fds[f]]]

CheckPolicy ==
  /\ bs.pc = "check"
  /\ bs' = IF bs.cfg.limit = "root_only" \/ Len(bs.cfg.rings) \notin 1..MAX_RINGS
           THEN Return(bs, "validation") ELSE [bs EXCEPT !.pc = "pair"]

SocketPair ==
  /\ bs.pc = "pair"
  /\ \/ LET n == LowestFree(bs.fds)
            t == [bs.fds EXCEPT ![n] = <<"near", 0>>]
            f == LowestFree(t)
        IN bs' = [bs EXCEPT !.near = n, !.far = f, !.fds = [t EXCEPT ![f] = <<"far", 0>>], !.pc = "headroom"]
     \/ bs' = Return(bs, "errno")

Highest(from, fds) == CHOOSE x \in {from} \cup ToSet(fds) : \A y \in {from} \cup ToSet(fds) : y =< x
ScratchBase(src, n) == (IF src >= RING_FD_BASE + n THEN src ELSE RING_FD_BASE + n) + 1

ChildFdHighWater(src, n) == ScratchBase(src, n) + n

\* getrlimit that fails skips the check.
Headroom ==
  /\ bs.pc = "headroom"
  /\ \/ bs' = IF ChildFdHighWater(Highest(bs.far, bs.cfg.rings), Len(bs.cfg.rings)) >= bs.cfg.lim
              THEN Return(CloseEnds(bs), "validation") ELSE [bs EXCEPT !.pc = "timeouts", !.checked = TRUE]
     \/ bs' = [bs EXCEPT !.pc = "timeouts"]

SetTimeouts ==
  /\ bs.pc = "timeouts"
  /\ bs' \in {[bs EXCEPT !.pc = "fork"], Return(CloseEnds(bs), "errno")}

\* drop_setid_caps: capget, capset, then the two PR_CAPBSET_DROP.  EPERM of
\* the last is passed over in a process that is not root.
DropSetidCaps(s) ==
  {<<s, "errno">>,
   <<[s EXCEPT !.setid = FALSE, !.bound = FALSE], "ok">>,
   <<[s EXCEPT !.setid = FALSE], IF s.cfg.root THEN "errno" ELSE "ok">>,
   <<[s EXCEPT !.setid = FALSE], "errno">>}

\* clone3_fork: the child has a copy of the table, the capabilities and the
\* sockets.  When it fails, what drop_setid_caps answers is not looked at.
Fork ==
  /\ bs.pc = "fork"
  /\ \/ bs' = [bs EXCEPT !.pc = "drop", !.child = "tidy", !.cfds = bs.fds, !.csetid = bs.setid,
                         !.fds = [f \in Fds |-> IF f = bs.far THEN Shut ELSE bs.fds[f]]]
     \/ \E d \in DropSetidCaps(bs) : bs' = Return(CloseEnds(d[1]), "fork_failed")

\* No BrokerInner exists yet when this fails: the ends are closed, nothing is
\* killed or reaped.
ParentDrops ==
  /\ bs.pc = "drop"
  /\ \E d \in DropSetidCaps(bs) :
       bs' = IF d[2] = "ok" THEN [d[1] EXCEPT !.pc = "hello", !.held = TRUE]
             ELSE Return(CloseEnds(d[1]), "caps")

\* Mutant: the child is left running.
KillAndReapForgets(s) == [CloseEnds(s) EXCEPT !.held = FALSE]

\* BrokerInner::drop: SIGKILL through the pidfd, waitpid, and the descriptors.
KillAndReap(s) == [CloseEnds(s) EXCEPT !.held = FALSE, !.child = "gone", !.reaped = TRUE]

\* recv_reply of the ready datagram: an end of file and a timeout both fail,
\* and the CredBroker just made is dropped.
TakeHello ==
  /\ bs.pc = "hello"
  /\ \/ bs.up # <<>> /\ bs' = [Return(bs, "ok") EXCEPT !.up = Tail(bs.up)]
     \/ bs.up = <<>> /\ bs' = Return(KillAndReap(bs), "no_hello")

(***************************************************************************)
(* The child: broker_main.                                                 *)
(***************************************************************************)
Exit(s, code) == [s EXCEPT !.child = "gone", !.code = code, !.cfds = NoFds]

\* A run of dup2_or_die: Shut for a child that exited.
RECURSIVE Dups(_, _, _)
Dups(t, moves, lim) ==
  IF moves = <<>> THEN t
  ELSE LET mv == Head(moves)
       IN IF mv[2] >= lim \/ t[mv[1]] = Shut THEN NoFds ELSE Dups(Dup2(t, mv[1], mv[2]), Tail(moves), lim)

\* Mutant: straight to the final places.
MovesDirect(sock, rings) ==
  <<<<sock, SOCK_FD>>>> \o [i \in DOMAIN rings |-> <<rings[i], RING_FD_BASE + i - 1>>]

\* tidy_child_fds: up to the scratch range, then down to the final places.
Moves(sock, rings) ==
  LET n    == Len(rings)
      base == ScratchBase(Highest(sock, rings), n)
  IN <<<<sock, base>>>> \o [i \in 1..n |-> <<rings[i], base + i>>]
     \o <<<<base, SOCK_FD>>>> \o [i \in 1..n |-> <<base + i, RING_FD_BASE + i - 1>>]

Scrub(t, n) == CloseRange(CloseRange(t, 0, SOCK_FD - 1), RING_FD_BASE + n, TopFd)

TidyChildFds ==
  /\ bs.child = "tidy"
  /\ LET t == Dups(bs.cfds, Moves(bs.far, bs.cfg.rings), bs.cfg.lim)
     IN bs' = IF t = NoFds THEN Exit(bs, 3)
              ELSE [bs EXCEPT !.child = "hello", !.cfds = Scrub(t, Len(bs.cfg.rings))]

\* reply(SOCK_FD, ..): fails, and the child ends, once nobody has the other end.
Reply(b, value, code) ==
  IF NearHeld THEN [b EXCEPT !.up = Append(@, value)] ELSE Exit(b, code)

SayHello ==
  /\ bs.child = "hello"
  /\ bs' = IF bs.cfds[SOCK_FD] = <<"far", 0>>
           THEN Reply([bs EXCEPT !.child = "serving"], 0, 4) ELSE Exit(bs, 4)

\* decode_request and decode_groups: a header cell per field, a cell per group.
WellFormed(q, n) == Len(q) >= HDR_LEN /\ q[2] < n /\ q[3] =< MAX_GROUPS /\ Len(q) = HDR_LEN + q[3]
DecodeGroups(q)  == [i \in 1..q[3] |-> q[HDR_LEN + i]]
Decode(q) == [op |-> q[1], ring |-> q[2], uid |-> q[4], gid |-> q[5], caps |-> q[6], groups |-> DecodeGroups(q)]

\* Whether caps is within the ceiling of the request: uid 0 has its own.
Within(r, cfg) ==
  LET ceiling == IF r.op = OP_REGISTER /\ r.uid = 0 THEN cfg.rootCaps ELSE {cfg.caps}
  IN \E c \in ceiling : r.caps =< c

\* One turn of broker_loop: what it does is recorded with the file it does it on.
BrokerLoop ==
  /\ bs.child = "serving" /\ bs.down # <<>>
  /\ LET q   == Head(bs.down)
         s   == [bs EXCEPT !.down = Tail(bs.down)]
         r   == Decode(q)
         ans == IF ~WellFormed(q, Len(bs.cfg.rings)) THEN "einval"
                ELSE IF ~Within(r, bs.cfg) THEN "eperm"
                ELSE IF r.op \in {OP_REGISTER, OP_UNREGISTER} THEN "done" ELSE "einval"
         on  == IF ans = "done" THEN bs.cfds[RING_FD_BASE + r.ring] ELSE Shut
         t   == [s EXCEPT !.done = Append(@, [ans |-> ans, on |-> on,
                    op |-> IF ans = "done" THEN r.op ELSE 0, uid |-> IF ans = "done" THEN r.uid ELSE 0,
                    groups |-> IF ans = "done" THEN r.groups ELSE <<>>])]
     IN bs' = Reply(t, 1, 0)

\* recv_request answers 0 when nobody has the parent's end any more.
BrokerEof ==
  /\ bs.child = "serving" /\ bs.down = <<>> /\ ~NearHeld
  /\ bs' = Exit(bs, 0)

ChildKilled == Alive /\ bs' = Exit(bs, 9)

(***************************************************************************)
(* CredBroker, once spawned.                                               *)
(***************************************************************************)
\* CredBroker::request: the wire form of op, ring and who.
Encode(op, ring, who) ==
  <<op, ring, Len(who.groups), who.uid, who.gid, who.caps>> \o who.groups

\* handle_for: the position of the reactor's ring in the spawn slice.
HandleFor(fd) == {i - 1 : i \in {j \in DOMAIN bs.cfg.rings : bs.cfg.rings[j] = fd}}

\* One request at a time, the reply taken before the next (the module CredBroker
\* has the rest).  The reactor is named by its descriptor.
Ask(op, fd, who) ==
  /\ bs.pc = "returned" /\ bs.held /\ bs.down = <<>> /\ bs.up = <<>> /\ FarHeld /\ bs.asked = <<>>
  /\ op = OP_REGISTER => Len(who.groups) =< MAX_GROUPS /\ (who.uid = 0 => bs.cfg.rootCaps # {})
  /\ \E i \in HandleFor(fd) :
       bs' = [bs EXCEPT !.down = <<Encode(op, i, who)>>,
                        !.asked = Append(@, [on |-> bs.fds[fd], op |-> op, uid |-> who.uid, groups |-> who.groups])]

TakeReply == bs.held /\ bs.pc = "returned" /\ bs.up # <<>> /\ bs' = [bs EXCEPT !.up = Tail(@)]

\* is_alive: the pidfd reads as exited, whether or not it was reaped.
IsAlive == bs.held /\ Alive

DropBroker == bs.pc = "returned" /\ bs.held /\ bs' = KillAndReap(bs)

SpawnNext ==
  \/ CheckPolicy \/ SocketPair \/ Headroom \/ SetTimeouts \/ Fork \/ ParentDrops \/ TakeHello
  \/ TidyChildFds \/ SayHello \/ BrokerLoop \/ BrokerEof \/ ChildKilled
  \/ \E op \in {OP_REGISTER, OP_UNREGISTER}, fd \in Fds, who \in Users : Ask(op, fd, who)
  \/ TakeReply \/ DropBroker

(***************************************************************************)
(* Properties.                                                             *)
(***************************************************************************)
\* A child that answers requests has the socket and its rings at their fixed
\* places and nothing else, whatever numbers they had in the daemon; each
\* request done was done on the ring of the reactor the caller named, as the
\* identity it gave; and a child whose headroom was checked never dies
\* renumbering (tidy_child_fds, child_fd_high_water, decode_request).
LayoutExact ==
  /\ bs.child \in {"hello", "serving"} =>
       bs.cfds = [f \in Fds |-> IF f = SOCK_FD THEN <<"far", 0>>
                                ELSE IF f - RING_FD_BASE + 1 \in DOMAIN bs.cfg.rings
                                     THEN Ring(f - RING_FD_BASE + 1) ELSE Shut]
  /\ bs.checked => bs.code # 3
  /\ \A k \in DOMAIN bs.done :
       bs.done[k].ans = "done" =>
         [on |-> bs.done[k].on, op |-> bs.done[k].op, uid |-> bs.done[k].uid,
          groups |-> bs.done[k].groups] = bs.asked[k]

\* What spawn says is so: Ok means the capability to mint is gone from the
\* daemon and a child that said it is ready took it over; a refusal before the
\* fork leaves the daemon as it was; and a daemon without a CredBroker has no
\* child that could outlive it (it is reaped, or is about to read end of file).
SpawnSettles ==
  /\ bs.ret = "ok" => ~bs.setid /\ (bs.cfg.root => ~bs.bound) /\ bs.child \in {"serving", "gone"}
  /\ bs.ret = "validation" => bs.setid /\ bs.bound /\ bs.child = "none"
  /\ bs.ret \in {"validation", "errno", "fork_failed"} => bs.child = "none" /\ bs.fds = TableOf(bs.cfg)
  /\ bs.pc = "returned" /\ ~bs.held =>
       /\ bs.child \in {"hello", "serving"} => ~NearHeld
       /\ bs.ret # "caps" => ~Alive /\ (bs.child = "gone" => bs.reaped)
=============================================================================
