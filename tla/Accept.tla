------------------------------- MODULE Accept -------------------------------
(***************************************************************************)
(* How the servers of one port take connections: the multishot accept of   *)
(* net/server/accept.rs with its retry timer and its parking on a full     *)
(* pool, the peer lookup or the TLS handshake a new connection waits for,  *)
(* and the spread of net/server/spread.rs, through which a ring that       *)
(* accepts while another ring holds fewer sends the connection there.      *)
(*                                                                         *)
(* One record holds the system.  A server has its connection table (slots, *)
(* each a state and a generation), the kernel's fixed-file table behind it *)
(* (file), the operations in flight (ops) and the completions posted that  *)
(* the loop has not reaped (cq).  A completion whose posting time does not *)
(* matter is posted and reaped in one step.                                *)
(***************************************************************************)
EXTENDS Integers, Sequences, FiniteSets, SequencesExt

CONSTANTS Servers,        \* the servers, 1 .. n; server s asks for place s
          TableSlots,     \* the slots of a server's table
          AcceptModes,    \* [kind, timeout, plan, pool, clients, faults, drains]:
                          \* the listener, whether tls_handshake_timeout is set,
                          \* the joins, the pool's size, and the bounds: who
                          \* connects, how many accept errors, who may drain
          NoConn

VARIABLE ac

CLOSED == 99              \* u32::MAX: never fewer than any count

Op(o, slot, gen) == [op |-> o, slot |-> slot, gen |-> gen, to |-> 0]
\* who: the connection the server kept there, from accept to release (ghost)
EmptyEntry == [st |-> "Empty", gen |-> 0, who |-> NoConn]

NewServer ==
  [slots |-> [i \in TableSlots |-> EmptyEntry], file |-> [i \in TableSlots |-> NoConn],
   ops |-> {}, cq |-> << >>, awaiting |-> FALSE, in |-> FALSE, place |-> 0,
   taken |-> 0, closed |-> FALSE, draining |-> FALSE, phase |-> "built",
   shaking |-> {}, outcomes |-> << >>, freed |-> FALSE, stray |-> {}]

-----------------------------------------------------------------------------
(* spread.rs *)

\* Spread::join and Server::join_spread: out of range, other addresses than
\* the first joiner's, or a place taken are refused.  The addresses are set
\* before the place is claimed.
JoinSpread(w, j) ==
  IF \/ w.sv[j.s].in
     \/ j.place \notin Servers
     \/ w.addrs # "unset" /\ w.addrs # j.addrs
  THEN w
  ELSE LET first == [w EXCEPT !.addrs = j.addrs]
       IN  IF w.ring[j.place] # 0 THEN first
           ELSE [first EXCEPT !.ring[j.place] = j.s, !.pub[j.place] = 0,
                              !.sv[j.s].in = TRUE, !.sv[j.s].place = j.place]

\* Joined::publish
Publish(w, s) ==
  IF w.sv[s].in
  THEN [w EXCEPT !.pub[w.sv[s].place] = IF w.sv[s].closed THEN CLOSED ELSE w.sv[s].taken]
  ELSE w

\* Spread::fewer_than: the first place with the fewest, if fewer than mine
FewerThan(w, me) ==
  LET less == {p \in Servers : p # me /\ w.pub[p] < w.pub[me]}
      best == {p \in less : \A q \in less : w.pub[p] < w.pub[q] \/ (w.pub[p] = w.pub[q] /\ p <= q)}
  IN  IF less = {} THEN 0 ELSE w.ring[CHOOSE p \in best : TRUE]

\* Joined::target
Target(w, s) == IF ~w.sv[s].in \/ w.sv[s].closed THEN 0 ELSE FewerThan(w, w.sv[s].place)

\* Joined::took and Joined::gave; a server in no spread counts nothing
Took(w, s) == IF w.sv[s].in THEN Publish([w EXCEPT !.sv[s].taken = @ + 1], s) ELSE w
Gave(w, s) ==
  IF w.sv[s].in THEN Publish([w EXCEPT !.sv[s].taken = IF @ > 0 THEN @ - 1 ELSE 0], s) ELSE w
JoinedClose(w, s) == Publish([w EXCEPT !.sv[s].closed = w.sv[s].in], s)
-----------------------------------------------------------------------------
(* net/core/table.rs *)

Entry(w, s, i) == w.sv[s].slots[i]
SetState(w, s, i, st) == [w EXCEPT !.sv[s].slots[i].st = st]
HasFreeSlot(w, s) == \E i \in TableSlots : i <= w.mode.pool /\ Entry(w, s, i).st = "Empty"

\* take_peer_fetch, take_tls_installing, take_tls_parked: the slot is Empty
\* again and whoever took it holds what was there
TakeState(w, s, i) == SetState(w, s, i, "Empty")

\* twice records an operation submitted while its like is in flight (ghost)
Submit(w, s, o) == [w EXCEPT !.sv[s].ops = @ \cup {o}, !.twice = @ \/ o \in w.sv[s].ops]
SubmitTeardown(w, s, i, gen, shutdownFirst) ==
  Submit(w, s, Op(IF shutdownFirst THEN "Shutdown" ELSE "Close", i, gen))

\* Reactor::free_slot and ConnTable::free: only a slot that is not Empty
\* comes off the count
FreeSlot(w, s, i) ==
  LET counted == IF Entry(w, s, i).st # "Empty" THEN Gave(w, s) ELSE w
  IN  [counted EXCEPT !.sv[s].slots[i] = [EmptyEntry EXCEPT !.gen = w.sv[s].slots[i].gen + 1],
                      !.sv[s].freed = TRUE]

\* on_closed, for a slot no connection serves in or whose last op this was
OnClosed(w, s, i) == FreeSlot(w, s, i)
-----------------------------------------------------------------------------
(* accept.rs *)

Stopping(w, s) == w.sv[s].phase # "serving"
ArmAccept(w, s) == [Submit(w, s, Op("Accept", 0, 0)) EXCEPT !.sv[s].awaiting = FALSE]
SubmitAcceptRetry(w, s) == Submit(w, s, Op("AcceptRetry", 0, 0))

InstallConn(w, s, i) == SetState(w, s, i, "Serving")

\* finish_accept: ok is what the accept handler answers
FinishAccept(w, s, i, ok) ==
  IF ok THEN InstallConn(w, s, i) ELSE SubmitTeardown(w, s, i, 0, TRUE)

\* submit_peername and submit_cred; submit_fd_install
BeginPeerFetch(w, s, i) ==
  Submit(SetState(w, s, i, "PeerFetch"), s, Op("Peer", i, Entry(w, s, i).gen))
SubmitFdInstall(w, s, i) ==
  Submit(SetState(w, s, i, "TlsInstalling"), s, Op("FdInstall", i, Entry(w, s, i).gen))

\* The connection stays on this ring
Keep(w, s, i, c, ok) ==
  LET kept == Took([w EXCEPT !.sv[s].slots[i].who = c], s)
  IN  CASE w.mode.kind = "tls"  -> SubmitFdInstall(kept, s, i)
        [] w.mode.kind \in {"tcp", "cred"} -> BeginPeerFetch(kept, s, i)
        [] w.mode.kind = "unix" -> FinishAccept(kept, s, i, ok)

SubmitHandoff(w, s, i) ==
  Submit(w, s, [Op("Handoff", i, 0) EXCEPT !.to = Target(w, s)])

AcceptConnection(w, s, i, c, mayMove, ok) ==
  IF w.sv[s].draining THEN SubmitTeardown(w, s, i, 0, TRUE)
  ELSE IF mayMove /\ w.mode.kind \in {"tcp", "tls"} /\ Target(w, s) # 0
       THEN SubmitHandoff(w, s, i)
       ELSE Keep(w, s, i, c, ok)

\* The loop ends, for the stop or on an error: cancel_and_reap_all cancels and
\* reaps every operation, its completion dropped
Returned(w, s) == [w EXCEPT !.sv[s].phase = "stopped", !.sv[s].ops = {}, !.sv[s].cq = << >>]

AcceptErrorIsFatal(err) == err = "EBADF"

OnAcceptUnarmed(w, s, e, ok) ==
  LET taken == IF e.res # 0 THEN AcceptConnection(w, s, e.res, e.c, TRUE, ok) ELSE w
  IN  IF e.more \/ Stopping(w, s) \/ w.sv[s].draining \/ e.res # 0 THEN taken
      ELSE IF e.err = "ENFILE" /\ ~HasFreeSlot(w, s)
           THEN [taken EXCEPT !.sv[s].awaiting = TRUE]
           ELSE SubmitAcceptRetry(taken, s)

\* on_accept.  e is the completion: res a slot or an error, more the
\* kernel's promise that the accept stays armed.  A fatal error ends the loop.
OnAccept(w, s, e, ok) ==
  LET taken == IF e.res # 0 THEN AcceptConnection(w, s, e.res, e.c, TRUE, ok) ELSE w
  IN  IF e.more \/ Stopping(w, s) \/ w.sv[s].draining THEN taken
      ELSE IF e.res # 0 THEN ArmAccept(taken, s)
      ELSE IF AcceptErrorIsFatal(e.err) THEN Returned(taken, s)
      ELSE IF e.err = "ENFILE" /\ ~HasFreeSlot(w, s)
           THEN [taken EXCEPT !.sv[s].awaiting = TRUE]
           ELSE SubmitAcceptRetry(taken, s)

\* on_handoff: sent, this ring's copy closes; refused, it is served here
OnHandoff(w, s, e, ok) ==
  IF e.res # 0 THEN SubmitTeardown(w, s, e.slot, 0, FALSE)
  ELSE AcceptConnection(w, s, e.slot, e.c, FALSE, ok)

\* on_handed: taken as an accept that stays
OnHanded(w, s, e, ok) == AcceptConnection(w, s, e.res, e.c, FALSE, ok)

\* on_peer_fetch: known is whether the kernel's answer parsed as a peer
OnPeerFetch(w, s, o, known, ok) ==
  IF Entry(w, s, o.slot).gen # o.gen \/ Entry(w, s, o.slot).st # "PeerFetch" THEN w
  ELSE LET got == TakeState(w, s, o.slot)
       IN  IF ~known \/ w.sv[s].draining THEN SubmitTeardown(got, s, o.slot, 0, TRUE)
           ELSE FinishAccept(got, s, o.slot, ok)

ArmHandshakeTimeout(w, s, o) ==
  IF w.mode.timeout THEN Submit(w, s, Op("HandshakeTimeout", o.slot, o.gen)) ELSE w

\* on_fd_install: installed is whether every step up to the handler worked
\* (the descriptor, the peer's address, the duplicate).  The handler, if one
\* is set, owns the handshake from here.
OnFdInstall(w, s, o, installed) ==
  IF Entry(w, s, o.slot).gen # o.gen \/ Entry(w, s, o.slot).st # "TlsInstalling" THEN w
  ELSE IF ~installed \/ w.sv[s].draining
       THEN SubmitTeardown(TakeState(w, s, o.slot), s, o.slot, o.gen, TRUE)
       ELSE LET parked == SetState(w, s, o.slot, "TlsParked")
            IN  [ArmHandshakeTimeout(parked, s, o) EXCEPT !.sv[s].shaking = @ \cup {[slot |-> o.slot, gen |-> o.gen]}]

\* drain_handshake_outcomes, one outcome.  Cancelling the timeout only makes
\* it complete, which finds the slot no longer parked.
OnOutcome(w, s, out) ==
  LET e == Entry(w, s, out.slot)
  IN  IF e.gen # out.gen \/ e.st # "TlsParked" THEN w
      ELSE IF out.ok /\ ~w.sv[s].draining
           THEN InstallConn(TakeState(w, s, out.slot), s, out.slot)
           ELSE SubmitTeardown(TakeState(w, s, out.slot), s, out.slot, out.gen, TRUE)
DrainHandshakeOutcomes(w, s) ==
  FoldLeft(LAMBDA v, out : OnOutcome(v, s, out), [w EXCEPT !.sv[s].outcomes = << >>],
           w.sv[s].outcomes)

OnHandshakeTimeoutStale(w, s, o) ==
  SubmitTeardown(TakeState(w, s, o.slot), s, o.slot, o.gen, TRUE)
OnHandshakeTimeout(w, s, o) ==
  IF Entry(w, s, o.slot).gen # o.gen \/ Entry(w, s, o.slot).st # "TlsParked" THEN w
  ELSE SubmitTeardown(TakeState(w, s, o.slot), s, o.slot, o.gen, TRUE)

\* rearm_parked_accepts, run after each completion that freed a slot
RearmParkedAccepts(w, s) ==
  IF ~w.sv[s].freed THEN w
  ELSE LET took == [w EXCEPT !.sv[s].freed = FALSE]
       IN  IF w.sv[s].awaiting /\ ~Stopping(w, s) /\ ~w.sv[s].draining
           THEN ArmAccept(took, s) ELSE took

\* begin_drain: the spread is told first; idle is which serving connections
\* are idle and close now
BeginDrain(w, s, idle) ==
  LET told == JoinedClose([w EXCEPT !.sv[s].draining = TRUE], s)
      parked == {i \in TableSlots : Entry(w, s, i).st = "TlsParked"}
      shut(v, i) == SubmitTeardown(v, s, i, Entry(w, s, i).gen, TRUE)
      closing == FoldLeft(LAMBDA v, i : shut(SetState(v, s, i, "Closing"), i), told, SetToSeq(idle))
  IN  FoldLeft(LAMBDA v, i : shut(TakeState(v, s, i), i), closing, SetToSeq(parked))
-----------------------------------------------------------------------------
(* The kernel, the clients and the loop *)

Post(w, s, e) == [w EXCEPT !.sv[s].cq = Append(@, e)]
Without(w, s, o) == [w EXCEPT !.sv[s].ops = @ \ {o}]
Cqe(o, slot, res, c) ==
  [op |-> o, slot |-> slot, res |-> res, c |-> c, more |-> FALSE, err |-> "none"]
Room(w, s) == {i \in TableSlots : i <= w.mode.pool /\ w.sv[s].file[i] = NoConn}

AcceptInit ==
  \E m \in AcceptModes :
     ac = FoldLeft(JoinSpread,
            [mode |-> m, sv |-> [s \in Servers |-> NewServer], addrs |-> "unset",
             ring |-> [p \in Servers |-> 0], pub |-> [p \in Servers |-> CLOSED],
             new |-> m.clients, faults |-> 0, twice |-> FALSE], m.plan)

\* serve_forever up to the loop
ServeForever(s) ==
  /\ ac.sv[s].phase = "built"
  /\ ac' = ArmAccept([ac EXCEPT !.sv[s].phase = "serving"], s)

\* A client's connection reaches the armed accept of one of the listeners.
\* With no free file slot the kernel drops it and ends the accept.
KernelAccepts(s) ==
  /\ Op("Accept", 0, 0) \in ac.sv[s].ops
  /\ \E c \in ac.new :
       LET took == [ac EXCEPT !.new = @ \ {c}]
       IN  IF Room(ac, s) = {}
           THEN ac' = Post(Without(took, s, Op("Accept", 0, 0)), s,
                           [Cqe("Accept", 0, 0, NoConn) EXCEPT !.err = "ENFILE"])
           ELSE \E i \in Room(ac, s), more \in BOOLEAN :
                  LET held == [took EXCEPT !.sv[s].file[i] = c]
                      left == IF more THEN held ELSE Without(held, s, Op("Accept", 0, 0))
                  IN  ac' = Post(left, s, [Cqe("Accept", 0, i, c) EXCEPT !.more = more])

\* The accept ends with an error: a passing one or a fatal one, or, once the
\* listener is shut down by the drain, -EINVAL or the cancel
AcceptEnds(s) ==
  /\ Op("Accept", 0, 0) \in ac.sv[s].ops
  /\ ac.sv[s].draining \/ ac.faults < ac.mode.faults
  /\ \E err \in {"EMFILE", "EBADF"} :
       ac' = Post(Without([ac EXCEPT !.faults = IF ac.sv[s].draining THEN @ ELSE @ + 1],
                          s, Op("Accept", 0, 0)), s,
                  [Cqe("Accept", 0, 0, NoConn) EXCEPT !.err = err])

\* IORING_OP_MSG_RING: the file goes to a free slot of the other ring and
\* both rings get a completion, or the send is refused (a full table, no
\* ring there any more).  Or, -EOVERFLOW, the file arrives and the other
\* ring's completion cannot be posted: the sender hears of a refusal, and
\* that ring holds a copy it never learns of (stray).
KernelSends(s) ==
  \E o \in ac.sv[s].ops :
     /\ o.op = "Handoff"
     /\ LET c == ac.sv[s].file[o.slot]
            done == Without(ac, s, o)
        IN  IF Room(ac, o.to) = {} \/ ac.sv[o.to].phase = "gone"
            THEN ac' = Post(done, s, Cqe("Handoff", o.slot, 0, c))
            ELSE \E i \in Room(ac, o.to) :
                   LET there == [done EXCEPT !.sv[o.to].file[i] = c]
                   IN  \/ ac' = Post(Post(there, o.to, Cqe("Handed", 0, i, c)), s,
                                     Cqe("Handoff", o.slot, 1, c))
                       \/ /\ ac.faults < ac.mode.faults
                          /\ ac' = Post([there EXCEPT !.faults = @ + 1, !.sv[o.to].stray = @ \cup {i}],
                                        s, Cqe("Handoff", o.slot, 0, c))

KernelCloses(s) ==
  \E o \in ac.sv[s].ops :
     /\ o.op = "Close"
     /\ ac' = Post([Without(ac, s, o) EXCEPT !.sv[s].file[o.slot] = NoConn], s,
                   Cqe("Close", o.slot, 0, NoConn))

\* run_loop and dispatch: one completion, then the listeners parked on a
\* full pool
Reap(s) ==
  /\ ac.sv[s].phase = "serving" /\ ac.sv[s].cq # << >>
  /\ \E ok \in BOOLEAN :
       LET e == Head(ac.sv[s].cq)
           w == [ac EXCEPT !.sv[s].cq = Tail(@)]
       IN  ac' = RearmParkedAccepts(
                   CASE e.op = "Accept"  -> OnAccept(w, s, e, ok)
                     [] e.op = "Handed"  -> OnHanded(w, s, e, ok)
                     [] e.op = "Handoff" -> OnHandoff(w, s, e, ok)
                     [] e.op = "Close"   -> OnClosed(w, s, e.slot), s)
Complete(s) ==
  /\ ac.sv[s].phase = "serving"
  /\ \E o \in ac.sv[s].ops :
       LET w == Without(ac, s, o)
       IN  \/ o.op = "Peer" /\ \E good, ok \in BOOLEAN : ac' = OnPeerFetch(w, s, o, good, ok)
           \/ o.op = "FdInstall" /\ \E good \in BOOLEAN : ac' = OnFdInstall(w, s, o, good)
           \/ o.op = "HandshakeTimeout" /\ ac' = OnHandshakeTimeout(w, s, o)
           \/ o.op = "Shutdown" /\ ac' = Submit(w, s, Op("Close", o.slot, o.gen))
           \/ o.op = "AcceptRetry" /\ ac' = IF w.sv[s].draining THEN w ELSE ArmAccept(w, s)

\* The handshake thread resolves its AcceptDeferral, or drops it: only ready
\* on a socket the kernel holds the keys of (keyed) installs the connection
HandshakeEnds(s) ==
  \E h \in ac.sv[s].shaking, end \in {"ready", "reject", "drop"}, keyed \in BOOLEAN :
     ac' = [ac EXCEPT !.sv[s].shaking = @ \ {h},
                      !.sv[s].outcomes = Append(@, [slot |-> h.slot, gen |-> h.gen,
                                                    ok |-> end = "ready" /\ keyed])]
Wake(s) ==
  /\ ac.sv[s].phase = "serving" /\ ac.sv[s].outcomes # << >>
  /\ ac' = DrainHandshakeOutcomes(ac, s)

\* A served connection closes, for any of its reasons
CloseServed(s) ==
  \E i \in TableSlots :
     /\ ac.sv[s].phase = "serving" /\ Entry(ac, s, i).st = "Serving"
     /\ ac' = SubmitTeardown(SetState(ac, s, i, "Closing"), s, i, Entry(ac, s, i).gen, TRUE)

Drain(s) ==
  /\ s \in ac.mode.drains
  /\ ac.sv[s].phase = "serving" /\ ~ac.sv[s].draining
  /\ \E idle \in SUBSET {i \in TableSlots : Entry(ac, s, i).st = "Serving"} :
       ac' = BeginDrain(ac, s, idle)

\* The drain finished or its deadline passed.  Then the server is dropped.
Stop(s) ==
  /\ ac.sv[s].phase = "serving" /\ ac.sv[s].draining
  /\ ac' = Returned(ac, s)
DropServer(s) ==
  /\ ac.sv[s].phase = "stopped"
  /\ ac' = [JoinedClose(ac, s) EXCEPT !.sv[s].phase = "gone"]

AcceptNext ==
  \E s \in Servers :
     \/ ServeForever(s) \/ KernelAccepts(s) \/ AcceptEnds(s) \/ KernelSends(s)
     \/ KernelCloses(s) \/ Reap(s) \/ Complete(s) \/ HandshakeEnds(s) \/ Wake(s)
     \/ CloseServed(s) \/ Drain(s) \/ Stop(s) \/ DropServer(s)

AcceptSpec == AcceptInit /\ [][AcceptNext]_ac
-----------------------------------------------------------------------------
Serving == {s \in Servers : ac.sv[s].phase = "serving"}
Holds(s, i) == ac.sv[s].file[i]

\* What will act on slot i of server s: an operation or an unreaped
\* completion that names it
Owes(s, i) ==
  Cardinality({o \in ac.sv[s].ops : o.slot = i /\ o.op # "HandshakeTimeout"})
  + Cardinality({n \in DOMAIN ac.sv[s].cq :
       LET e == ac.sv[s].cq[n]
       IN  \/ e.op \in {"Accept", "Handed"} /\ e.res = i
           \/ e.op = "Handoff" /\ e.slot = i})

\* A parked handshake has someone to end it: its thread, its outcome, or
\* the timeout
Shaken(s, i) ==
  LET h == [slot |-> i, gen |-> Entry(ac, s, i).gen]
  IN  \/ h \in ac.sv[s].shaking
      \/ \E n \in DOMAIN ac.sv[s].outcomes :
           ac.sv[s].outcomes[n].slot = i /\ ac.sv[s].outcomes[n].gen = h.gen

\* No socket is stranded and none is torn down twice: every file a serving
\* ring holds is either served, or waits for a handshake someone will end,
\* or is named by exactly one operation or completion to come; a slot the
\* kernel freed is named by none.  The one exception is the copy of a send
\* that answered -EOVERFLOW, which on_handoff's comment gives up until the
\* table is freed: its ring does nothing with that slot, ever.  And no
\* connection is kept by two servers of the spread, whatever the order of the
\* hand-off's two completions, or if the second never comes.
ConnsAttended ==
  /\ ~ac.twice
  /\ \A s \in Serving, i \in TableSlots :
       LET st == Entry(ac, s, i).st
       IN  IF i \in ac.sv[s].stray THEN st = "Empty" /\ Holds(s, i) # NoConn /\ Owes(s, i) = 0
           ELSE IF Holds(s, i) = NoConn THEN Owes(s, i) = 0
           ELSE CASE \E n \in DOMAIN ac.sv[s].cq : ac.sv[s].cq[n].op = "Close" /\ ac.sv[s].cq[n].slot = i
                       -> Owes(s, i) = 1
                  [] st = "Serving"   -> Owes(s, i) = 0
                  [] st = "TlsParked" -> Owes(s, i) = 0 /\ Shaken(s, i)
                  [] OTHER            -> Owes(s, i) = 1
  /\ \A s, t \in Servers, i, j \in TableSlots :
       (Entry(ac, s, i).who # NoConn /\ Entry(ac, s, i).who = Entry(ac, t, j).who)
          => (s = t /\ i = j)

\* A serving listener never goes deaf: until the drain its accept is armed,
\* or has ended with the completion still to be reaped, or a retry timer
\* runs, or it is parked while some slot is still to be released, which
\* re-arms it.
NeverDeaf ==
  \A s \in Serving :
     ~ac.sv[s].draining =>
        \/ \E o \in ac.sv[s].ops : o.op \in {"Accept", "AcceptRetry"}
        \/ \E n \in DOMAIN ac.sv[s].cq : ac.sv[s].cq[n].op = "Accept" /\ ~ac.sv[s].cq[n].more
        \/ /\ ac.sv[s].awaiting
           /\ \/ \E i \in TableSlots : Holds(s, i) # NoConn
              \/ \E n \in DOMAIN ac.sv[s].cq : ac.sv[s].cq[n].op = "Close"

\* spread.rs, Joined: the count a server publishes is "every slot it holds a
\* connection in, from the accept it kept to the slot's release".
CountExact ==
  \A s \in Serving :
     (ac.sv[s].in /\ ~ac.sv[s].closed) =>
        ac.sv[s].taken = Cardinality({i \in TableSlots : Entry(ac, s, i).who # NoConn})
=============================================================================
