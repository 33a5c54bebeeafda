------------------------------- MODULE MCCalls -------------------------------
(***************************************************************************)
(* Two places where threads wait on one another, each on a small instance: *)
(* two callers racing for one key of a SingleFlight, and two threads at    *)
(* the credential broker's socket with two identities.  `part` says which  *)
(* one a behaviour is of; the other stays as it begins, where nothing its  *)
(* fairness speaks of is enabled.                                          *)
(***************************************************************************)
EXTENDS SingleFlight

CONSTANTS Users, Ids, NoUser

VARIABLES part, sock, desynced, toChild, fromChild, child, answer, reg, req, held

BrokerVars == <<sock, desynced, toChild, fromChild, child, answer, reg, req, held>>

Broker == INSTANCE CredBroker

CallsInit == part \in {"flight", "broker"} /\ Init /\ Broker!Init

CallsNext ==
  /\ part' = part
  /\ \/ part = "flight" /\ Next /\ UNCHANGED BrokerVars
     \/ part = "broker" /\ Broker!Next /\ UNCHANGED vars

\* A thread's own steps, and its taking of the lock that others contend for.
Runs(t) ==
  \/ part = "flight" /\ Step(t) /\ UNCHANGED BrokerVars
  \/ part = "broker" /\ (Broker!Trip(t) \/ Broker!Return(t)) /\ UNCHANGED vars

Takes(t) ==
  \/ part = "flight" /\ Gate(t) /\ UNCHANGED BrokerVars
  \/ part = "broker" /\ Broker!Lock(t) /\ UNCHANGED vars

\* The fairness of the two modules: `part` never changes, and a thread is at one
\* of its steps at a time.
CallsSpec ==
  /\ CallsInit /\ [][CallsNext]_<<part, vars, BrokerVars>>
  /\ \A t \in Threads : WF_<<vars, BrokerVars>>(Runs(t)) /\ SF_<<vars, BrokerVars>>(Takes(t))

-----------------------------------------------------------------------------

\* What a thread holds is registered as the identity it asked for and held by
\* nobody else, whatever late answers the socket still carries (CredBroker::
\* round_trip).
Attribution == Broker!Attribution

\* Nothing is left behind: with no call in progress every slot in the map holds
\* a value, and every personality on the ring is held or in transit while the
\* socket is in step (get_or_try_init, CredBroker::register).
NothingKept == NothingLeft /\ Broker!NoneLeaked

Idle(t) == IF part = "flight" THEN pc[t] = "idle" ELSE Broker!At(t, "none")

\* Every call returns: a get_or_try_init unless mints go on failing for ever, an
\* evicted or revoked slot sending its waiters back to the map and never round in
\* circles; a broker request whether or not the child ever runs, a stalled child
\* costing its callers a timeout and not the socket's mutex.
CallsReturn ==
  \/ []<>(part = "flight" /\ \E u \in Threads : pc[u] = "evict")
  \/ \A t \in Threads : ~Idle(t) ~> Idle(t)
=============================================================================
