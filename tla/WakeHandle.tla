----------------------------- MODULE WakeHandle -----------------------------
(***************************************************************************)
(* The wake-up protocol between a reactor loop and the threads that hand   *)
(* it work (uring/wake.rs).  One atomic word `state` says whether the loop *)
(* may be asleep in io_uring_enter; an eventfd counter `efd` is what an    *)
(* armed READ of the ring completes on.  A poker publishes its item first  *)
(* and then calls poke(); the loop drains every source before it parks.    *)
(*                                                                         *)
(* The module holds the shared word and the pokers' side.  The loop's side *)
(* (activate, park, unpark) is here as operators on `state` that the loops *)
(* extending this module put in their own control flow.                    *)
(***************************************************************************)
EXTENDS Naturals

CONSTANT Pokers          \* threads that may call WakeHandle::poke

VARIABLES state,         \* WakeHandle::state
          efd,           \* the eventfd's counter
          poke,          \* where each poker stands in poke()
          seen           \* poke()'s local `cur`

wakeVars == <<state, efd, poke, seen>>

LEGACY   == "LEGACY"     \* no loop claimed the protocol: every poke writes
ACTIVE   == "ACTIVE"     \* the loop runs and will drain before it blocks
PARKED   == "PARKED"     \* the loop is about to block, or blocked
NOTIFIED == "NOTIFIED"   \* a poke landed: the loop must drain first

States == {LEGACY, ACTIVE, PARKED, NOTIFIED}

WakeInit ==
  /\ state = LEGACY
  /\ efd = 0
  /\ poke = [p \in Pokers |-> "idle"]
  /\ seen = [p \in Pokers |-> LEGACY]

(***************************************************************************)
(* poke(), one atomic access per step.                                     *)
(***************************************************************************)
\* Mutant: poke() treats a loop that has not opted in like a notified one.
DecideSkipsLegacy(s) == IF s \in {LEGACY, NOTIFIED} THEN "idle" ELSE "cas"

\* The match at the head of poke()'s loop: what to do about a state just read.
Decide(s) == CASE s = LEGACY   -> "write"
               [] s = NOTIFIED -> "idle"
               [] OTHER        -> "cas"

\* poke() has read s: it keeps s in `cur` only when it goes on to exchange.
Observe(p, s) ==
  /\ poke' = [poke EXCEPT ![p] = Decide(s)]
  /\ seen' = [seen EXCEPT ![p] = IF Decide(s) = "cas" THEN s ELSE LEGACY]

PokeLoad(p) ==
  /\ poke[p] = "load"
  /\ Observe(p, state)
  /\ UNCHANGED <<state, efd>>

\* Mutant: the exchange never leads to a write.
PokeCasNoWrite(p) ==
  /\ poke[p] = "cas"
  /\ \/ /\ state = seen[p]
        /\ state' = NOTIFIED
        /\ poke' = [poke EXCEPT ![p] = "idle"]
        /\ seen' = [seen EXCEPT ![p] = LEGACY]
     \/ state # seen[p] /\ Observe(p, state) /\ UNCHANGED state
  /\ UNCHANGED efd

\* compare_exchange_weak(cur, NOTIFIED): an ACTIVE loop needs no write, a
\* PARKED one does.  A spurious failure re-reads the same state: a stutter.
PokeCas(p) ==
  /\ poke[p] = "cas"
  /\ \/ /\ state = seen[p]
        /\ state' = NOTIFIED
        /\ poke' = [poke EXCEPT ![p] = IF seen[p] = ACTIVE THEN "idle" ELSE "write"]
        /\ seen' = [seen EXCEPT ![p] = LEGACY]
     \/ state # seen[p] /\ Observe(p, state) /\ UNCHANGED state
  /\ UNCHANGED efd

PokeWrite(p) ==
  /\ poke[p] = "write"
  /\ efd' = efd + 1
  /\ poke' = [poke EXCEPT ![p] = "idle"]
  /\ UNCHANGED <<state, seen>>

Poke(p) == PokeLoad(p) \/ PokeCas(p) \/ PokeWrite(p)

(***************************************************************************)
(* The loop's accesses.                                                    *)
(***************************************************************************)
\* activate(): opt in, from LEGACY only.
Activated == IF state = LEGACY THEN ACTIVE ELSE state

\* park(): the compare-exchange, and whether it answers Park::Block.
ParkBlocks == state \in {ACTIVE, LEGACY}
Parked     == IF state = ACTIVE THEN PARKED ELSE state
=============================================================================
