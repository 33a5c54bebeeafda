----------------------------- MODULE CredBroker -----------------------------
(***************************************************************************)
(* The credential broker (uring_fs/broker.rs): threads of the daemon ask a *)
(* forked child, over one SEQPACKET socket, to register identities on the  *)
(* ring as personalities and to retire them.  The socket's mutex spans a   *)
(* request's send and receive; a reply names no request; either may give   *)
(* up after RECV_TIMEOUT.  The child may be slow, frozen or dead.          *)
(*                                                                         *)
(* An answer is a personality, Done, or Failed for every negative reply.   *)
(* That the child registers exactly the identity asked for is the subject  *)
(* of CredWindow.                                                          *)
(***************************************************************************)
EXTENDS Integers, Sequences

CONSTANTS Threads, Users,
          Ids,           \* personalities, from 1
          NoUser, NoThread

VARIABLES
  sock, desynced,        \* BrokerInner::sock: its holder, BrokerSock::desynced
  toChild, fromChild,    \* the socket pair's two queues
  child, answer,         \* "idle", "answer" with the answer to send, or "dead"
  reg,                   \* the ring's personalities: the identity of each id
  req,                   \* each thread's request, with its place in it
  held                   \* the personalities each thread holds, by identity

wire  == <<sock, desynced, toChild, fromChild>>
kid   == <<child, answer, reg>>
vars  == <<wire, kid, req, held>>

Done   == 0
Failed == -1

NoReq == [st |-> "none", op |-> "register", who |-> NoUser, id |-> 0, res |-> 0]

Init ==
  /\ sock = NoThread /\ desynced = FALSE /\ toChild = <<>> /\ fromChild = <<>>
  /\ child = "idle" /\ answer = Done /\ reg = [i \in Ids |-> NoUser]
  /\ req = [t \in Threads |-> NoReq]
  /\ held = [t \in Threads |-> {}]

(***************************************************************************)
(* CredBroker::request and round_trip.                                     *)
(***************************************************************************)
Ask(t, op, who, id) ==
  /\ req[t].st = "none"
  /\ req' = [req EXCEPT ![t] = [st |-> "lock", op |-> op, who |-> who, id |-> id, res |-> 0]]

At(t, place)  == req[t].st = place
Goto(t, place) == req' = [req EXCEPT ![t].st = place]
Finish(t, r)  == req' = [req EXCEPT ![t].st = "done", ![t].res = r] /\ sock' = NoThread

\* The mutex, and a socket already out of step refused with EPROTO.
Lock(t) ==
  /\ At(t, "lock") /\ sock = NoThread
  /\ \/ /\ ~desynced /\ sock' = t /\ Goto(t, "send")
     \/ /\ desynced /\ Finish(t, Failed)
  /\ UNCHANGED <<desynced, toChild, fromChild, kid, held>>

Send(t) ==
  /\ At(t, "send") /\ child # "dead"
  /\ toChild' = Append(toChild, [op |-> req[t].op, who |-> req[t].who, id |-> req[t].id])
  /\ Goto(t, "recv")
  /\ UNCHANGED <<sock, desynced, fromChild, kid, held>>

\* EPIPE, or EAGAIN from a child that has stopped reading: nothing was queued.
SendFails(t) ==
  /\ At(t, "send") /\ (child = "dead" \/ toChild # <<>>)
  /\ Finish(t, Failed)
  /\ UNCHANGED <<desynced, toChild, fromChild, kid, held>>

Recv(t) ==
  /\ At(t, "recv") /\ fromChild # <<>>
  /\ fromChild' = Tail(fromChild) /\ Finish(t, Head(fromChild))
  /\ UNCHANGED <<desynced, toChild, kid, held>>

\* ECONNRESET: the child has gone and nothing more is coming.
RecvEof(t) ==
  /\ At(t, "recv") /\ fromChild = <<>> /\ child = "dead"
  /\ Finish(t, Failed)
  /\ UNCHANGED <<desynced, toChild, fromChild, kid, held>>

\* Mutant: a receive that gave up leaves the socket in use.
RecvTimeoutUnmarked(t) ==
  /\ At(t, "recv") /\ fromChild = <<>> /\ child # "dead"
  /\ Finish(t, Failed)
  /\ UNCHANGED <<desynced, toChild, fromChild, kid, held>>

\* Mutant: a receive waits for as long as it takes.
RecvTimeoutNever(t) == FALSE /\ UNCHANGED vars /\ At(t, "recv")

\* SO_RCVTIMEO: the answer may still come, so the socket is spent.
RecvTimeout(t) ==
  /\ At(t, "recv") /\ fromChild = <<>> /\ child # "dead"
  /\ desynced' = TRUE /\ Finish(t, Failed)
  /\ UNCHANGED <<toChild, fromChild, kid, held>>

Trip(t) == Lock(t) \/ Send(t) \/ SendFails(t) \/ Recv(t) \/ RecvEof(t) \/ RecvTimeout(t)

(***************************************************************************)
(* broker_loop.                                                            *)
(***************************************************************************)
\* What the child does with a request, and what it will answer.
Serve(r) ==
  \/ /\ r.op = "register"
     /\ \E i \in Ids : reg[i] = NoUser /\ reg' = [reg EXCEPT ![i] = r.who] /\ answer' = i
  \/ /\ r.op = "unregister" /\ reg[r.id] # NoUser
     /\ reg' = [reg EXCEPT ![r.id] = NoUser] /\ answer' = Done
  \/ /\ r.op = "unregister" => reg[r.id] = NoUser
     /\ answer' = Failed /\ UNCHANGED reg

\* Mutant: the child acknowledges a retirement it has not done.
ServeForgetful(r) ==
  \/ /\ r.op = "register"
     /\ \E i \in Ids : reg[i] = NoUser /\ reg' = [reg EXCEPT ![i] = r.who] /\ answer' = i
  \/ /\ r.op = "unregister" /\ answer' = Done /\ UNCHANGED reg
  \/ /\ r.op = "register" /\ answer' = Failed /\ UNCHANGED reg

\* Mutant of ChildServe: retirements are acknowledged and not done.
ChildServeForgetful ==
  /\ child = "idle" /\ toChild # <<>>
  /\ ServeForgetful(Head(toChild))
  /\ toChild' = Tail(toChild) /\ child' = "answer"
  /\ UNCHANGED <<sock, desynced, fromChild, req, held>>

ChildServe ==
  /\ child = "idle" /\ toChild # <<>>
  /\ Serve(Head(toChild))
  /\ toChild' = Tail(toChild) /\ child' = "answer"
  /\ UNCHANGED <<sock, desynced, fromChild, req, held>>

ChildReply ==
  /\ child = "answer"
  /\ fromChild' = Append(fromChild, answer) /\ child' = "idle" /\ answer' = Done
  /\ UNCHANGED <<sock, desynced, toChild, reg, req, held>>

\* Killed: requests it had not read go with it.
ChildDies ==
  /\ child # "dead"
  /\ child' = "dead" /\ answer' = Done /\ toChild' = <<>>
  /\ UNCHANGED <<sock, desynced, fromChild, reg, req, held>>

Child == ChildServe \/ ChildReply \/ ChildDies

(***************************************************************************)
(* CredHandle, used by threads that retire what they hold.                 *)
(***************************************************************************)
Register(t, u) == Ask(t, "register", u, 0) /\ UNCHANGED <<wire, kid, held>>

Unregister(t) ==
  \E p \in held[t] :
    /\ Ask(t, "unregister", NoUser, p.id)
    /\ held' = [held EXCEPT ![t] = @ \ {p}]
    /\ UNCHANGED <<wire, kid>>

\* Only an answer that is a personality is one: an answer of 0 is refused.
Return(t) ==
  /\ At(t, "done")
  /\ held' = IF req[t].op = "register" /\ req[t].res > 0
             THEN [held EXCEPT ![t] = @ \cup {[who |-> req[t].who, id |-> req[t].res]}]
             ELSE held
  /\ req' = [req EXCEPT ![t] = NoReq]
  /\ UNCHANGED <<wire, kid>>

Next ==
  \/ \E t \in Threads : Trip(t) \/ (\E u \in Users : Register(t, u)) \/ Unregister(t) \/ Return(t)
  \/ Child

Spec == Init /\ [][Next]_vars

\* Threads run, the timeouts fire and the mutex is handed out without
\* starvation.  Nothing is assumed of the child.
FairSpec ==
  Spec /\ \A t \in Threads : WF_vars(Trip(t)) /\ WF_vars(Return(t)) /\ SF_vars(Lock(t))

(***************************************************************************)
(* Properties.                                                             *)
(***************************************************************************)
\* What a thread holds is registered on the ring as the identity it asked for.
Attributed == \A t \in Threads : \A p \in held[t] : reg[p.id] = p.who

\* Everything a thread holds is registered on the ring as the identity it asked
\* for, and is held by nobody else: no reply reaches a request it does not answer.
Attribution ==
  /\ Attributed
  /\ \A t, u \in Threads : \A p \in held[t], q \in held[u] : p.id = q.id => t = u /\ p = q

\* While the socket is in step and the child alive, every personality on the
\* ring is held by a thread or is being registered or retired.
NoneLeaked ==
  ~desynced /\ child # "dead" =>
    \A i \in Ids : reg[i] # NoUser =>
      \/ \E t \in Threads : \E p \in held[t] : p.id = i
      \/ \E t \in Threads : ~At(t, "none") /\ (req[t].op = "register" \/ req[t].id = i)

(***************************************************************************)
(* The inductive strengthening of Attribution and NoneLeaked.              *)
(***************************************************************************)
Leases   == [who : Users, id : Ids]
Requests == [op : {"register"}, who : Users, id : {0}] \cup [op : {"unregister"}, who : {NoUser}, id : Ids]
Answers  == Ids \cup {Done, Failed}

Asked(t) == [op |-> req[t].op, who |-> req[t].who, id |-> req[t].id]

BrokerType ==
  /\ sock \in Threads \cup {NoThread} /\ desynced \in BOOLEAN
  /\ child \in {"idle", "answer", "dead"} /\ answer \in Answers
  /\ reg \in [Ids -> Users \cup {NoUser}]
  /\ req \in [Threads -> [st : {"none", "lock", "send", "recv", "done"}, op : {"register", "unregister"},
                          who : Users \cup {NoUser}, id : Ids \cup {0}, res : Answers]]
  /\ held \in [Threads -> SUBSET Leases]
  /\ \A t \in Threads : ~At(t, "none") => Asked(t) \in Requests

\* A round trip has the socket's mutex, and a socket that is spent is left alone.
Mutex ==
  /\ \A t \in Threads : sock = t <=> req[t].st \in {"send", "recv"}
  /\ desynced => sock = NoThread

\* Where the one request under way is.
Quiet       == toChild = <<>> /\ child # "answer" /\ fromChild = <<>>
Sent(r)     == toChild = <<r>> /\ child = "idle" /\ fromChild = <<>>
Answered(a) == /\ toChild = <<>>
               /\ \/ child = "answer" /\ answer = a /\ fromChild = <<>>
                  \/ child # "answer" /\ fromChild = <<a>>

\* There is one at most, and on a socket in step it is its holder's.
OneOut ==
  /\ Quiet \/ (\E r \in Requests : Sent(r)) \/ (\E a \in Answers : Answered(a))
  /\ ~desynced /\ (\A t \in Threads : ~At(t, "recv")) => Quiet
  /\ \A t \in Threads : At(t, "recv") => \/ Sent(Asked(t))
                                        \/ (\E a \in Answers : Answered(a))
                                        \/ (Quiet /\ child = "dead")

\* Thread t has the lease p, or will when its request returns.
Owns(t, p) ==
  \/ p \in held[t]
  \/ /\ req[t].op = "register" /\ req[t].who = p.who
     /\ \/ At(t, "done") /\ req[t].res = p.id
        \/ At(t, "recv") /\ Answered(p.id)

\* Personality i is about to be retired, by t or by the request given up on.
Retires(t, i) ==
  /\ req[t].op = "unregister" /\ req[t].id = i
  /\ At(t, "lock") \/ At(t, "send") \/ (At(t, "recv") /\ Sent(Asked(t)))
Orphan(i) == desynced /\ Sent([op |-> "unregister", who |-> NoUser, id |-> i])

Owned ==
  /\ \A t \in Threads, p \in Leases : Owns(t, p) => reg[p.id] = p.who
  /\ \A t, u \in Threads, p, q \in Leases : Owns(t, p) /\ Owns(u, q) /\ p.id = q.id => t = u

RetiredOnce ==
  \A i \in Ids :
    /\ \A t \in Threads : Retires(t, i) \/ Orphan(i) =>
         reg[i] # NoUser /\ \A u \in Threads, p \in Leases : Owns(u, p) => p.id # i
    /\ \A t, u \in Threads : Retires(t, i) => ~Orphan(i) /\ (Retires(u, i) => t = u)

Accounted ==
  ~desynced /\ child # "dead" =>
    \A i \in Ids : reg[i] # NoUser =>
      \E t \in Threads : Retires(t, i) \/ (\E p \in Leases : p.id = i /\ Owns(t, p))

BrokerInv == BrokerType /\ Mutex /\ OneOut /\ Owned /\ RetiredOnce /\ Accounted

\* Every request returns, whether or not the child ever runs: a stalled child
\* costs its callers a timeout and not the socket's mutex.
RequestReturns == \A t \in Threads : ~At(t, "none") ~> At(t, "none")
=============================================================================
