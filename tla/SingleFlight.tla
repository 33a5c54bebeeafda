---------------------------- MODULE SingleFlight ----------------------------
(***************************************************************************)
(* The keyed cache behind IdentityCache (uring_fs/single_flight.rs): a map *)
(* from keys to slots, each slot a cell for the minted value and a gate    *)
(* its callers queue on.  Every critical section of the map's mutex is one *)
(* action; the mint runs between two of them with only the gate held.      *)
(*                                                                         *)
(* A slot stands for an Arc<Slot>: one nobody refers to is reused, blank.  *)
(* A value is the revocation epoch its mint began in.  epoch, born, began  *)
(* and minted are history, read by no guard but the bound on revocations.  *)
(***************************************************************************)
EXTENDS Integers

CONSTANTS Threads, Keys, Slots,
          NoSlot, NoThread,
          MaxEpoch       \* bound: revocations of each key

ASSUME FlightAssumption ==
  NoSlot \notin Slots /\ NoThread \notin Threads /\ MaxEpoch \in Nat

VARIABLES
  live,                  \* SingleFlight::live
  cell, gate,            \* Slot::cell (Empty until set); the gate's holder
  pc, key, slot, value,  \* each caller's place, argument, cloned slot, result
  epoch,                 \* revocations so far of each key
  born, began,           \* the epoch each call, and its mint, began in
  minted                 \* epochs of each key in which a mint succeeded

slots == <<cell, gate>>
call  == <<key, slot, value, born, began>>
vars  == <<live, slots, pc, call, epoch, minted>>

Empty == -1

Init ==
  /\ live = [k \in Keys |-> NoSlot]
  /\ cell = [s \in Slots |-> Empty] /\ gate = [s \in Slots |-> NoThread]
  /\ pc = [t \in Threads |-> "idle"] /\ slot = [t \in Threads |-> NoSlot]
  /\ key \in [Threads -> Keys] /\ value = [t \in Threads |-> 0]
  /\ epoch = [k \in Keys |-> 0] /\ minted = [k \in Keys |-> {}]
  /\ born = [t \in Threads |-> 0] /\ began = [t \in Threads |-> 0]

Goto(t, place) == pc' = [pc EXCEPT ![t] = place]
Release(t)     == gate' = [gate EXCEPT ![slot[t]] = NoThread]
Holds(t)       == live[key[t]] = slot[t]    \* the map still has this slot

(***************************************************************************)
(* get_or_try_init.                                                        *)
(***************************************************************************)
Call(t, k) ==
  /\ pc[t] = "idle"
  /\ key' = [key EXCEPT ![t] = k] /\ born' = [born EXCEPT ![t] = epoch[k]]
  /\ Goto(t, "lookup")
  /\ UNCHANGED <<live, slots, slot, value, began, epoch, minted>>

\* The map's slot for the key, or a blank one put there.
Lookup(t) ==
  /\ pc[t] = "lookup"
  /\ \/ /\ live[key[t]] # NoSlot
        /\ slot' = [slot EXCEPT ![t] = live[key[t]]]
        /\ UNCHANGED <<live, slots>>
     \/ /\ live[key[t]] = NoSlot
        /\ \E s \in Slots :
             /\ \A k \in Keys : live[k] # s
             /\ \A u \in Threads : slot[u] # s
             /\ live' = [live EXCEPT ![key[t]] = s]
             /\ slot' = [slot EXCEPT ![t] = s]
             /\ cell' = [cell EXCEPT ![s] = Empty] /\ gate' = [gate EXCEPT ![s] = NoThread]
  /\ Goto(t, "fast")
  /\ UNCHANGED <<key, value, born, began, epoch, minted>>

\* A cell already set is returned without the gate.
FastPath(t) ==
  /\ pc[t] = "fast"
  /\ \/ /\ cell[slot[t]] # Empty
        /\ value' = [value EXCEPT ![t] = cell[slot[t]]] /\ Goto(t, "ok")
     \/ /\ cell[slot[t]] = Empty
        /\ Goto(t, "gate") /\ UNCHANGED value
  /\ UNCHANGED <<live, slots, key, slot, born, began, epoch, minted>>

Gate(t) ==
  /\ pc[t] = "gate" /\ gate[slot[t]] = NoThread
  /\ gate' = [gate EXCEPT ![slot[t]] = t]
  /\ Goto(t, "recheck")
  /\ UNCHANGED <<live, cell, call, epoch, minted>>

\* A racing caller may have filled the cell while this one waited.
Recheck(t) ==
  /\ pc[t] = "recheck"
  /\ \/ /\ cell[slot[t]] # Empty
        /\ value' = [value EXCEPT ![t] = cell[slot[t]]]
        /\ Release(t) /\ Goto(t, "ok")
     \/ /\ cell[slot[t]] = Empty
        /\ Goto(t, "confirm") /\ UNCHANGED <<value, gate>>
  /\ UNCHANGED <<live, cell, key, slot, born, began, epoch, minted>>

\* Mutant: mint on the slot whether or not the map still holds it.
ConfirmSkipped(t) ==
  /\ pc[t] = "confirm"
  /\ began' = [began EXCEPT ![t] = epoch[key[t]]]
  /\ Goto(t, "mint")
  /\ UNCHANGED <<live, slots, key, slot, value, born, epoch, minted>>

\* Mutant: a caller whose slot is gone queues for the same slot again.
ConfirmSameSlot(t) ==
  /\ pc[t] = "confirm"
  /\ \/ /\ Holds(t)
        /\ began' = [began EXCEPT ![t] = epoch[key[t]]]
        /\ Goto(t, "mint") /\ UNCHANGED gate
     \/ /\ ~Holds(t)
        /\ Release(t) /\ Goto(t, "gate") /\ UNCHANGED began
  /\ UNCHANGED <<live, cell, key, slot, value, born, epoch, minted>>

\* Mint only on the slot the map holds; otherwise start over.
Confirm(t) ==
  /\ pc[t] = "confirm"
  /\ \/ /\ Holds(t)
        /\ began' = [began EXCEPT ![t] = epoch[key[t]]]
        /\ Goto(t, "mint") /\ UNCHANGED gate
     \/ /\ ~Holds(t)
        /\ Release(t) /\ Goto(t, "lookup") /\ UNCHANGED began
  /\ UNCHANGED <<live, cell, key, slot, value, born, epoch, minted>>

\* mint(), the gate held and the map's mutex free.
MintFails(t) ==
  /\ pc[t] = "mint" /\ Goto(t, "evict")
  /\ UNCHANGED <<live, slots, call, epoch, minted>>

MintSucceeds(t) ==
  /\ pc[t] = "mint" /\ Goto(t, "publish")
  /\ minted' = [minted EXCEPT ![key[t]] = @ \cup {began[t]}]
  /\ UNCHANGED <<live, slots, call, epoch>>

\* Mutant: a failed mint leaves its slot in the map.
EvictNothing(t) ==
  /\ pc[t] = "evict"
  /\ Release(t) /\ Goto(t, "err")
  /\ UNCHANGED <<live, cell, call, epoch, minted>>

\* A failed mint takes its slot out of the map, if it is still there.
Evict(t) ==
  /\ pc[t] = "evict"
  /\ live' = IF Holds(t) THEN [live EXCEPT ![key[t]] = NoSlot] ELSE live
  /\ Release(t) /\ Goto(t, "err")
  /\ UNCHANGED <<cell, call, epoch, minted>>

\* Mutant: the minted slot is put back into the map.
PublishReinstalls(t) ==
  /\ pc[t] = "publish"
  /\ cell' = [cell EXCEPT ![slot[t]] = began[t]]
  /\ live' = [live EXCEPT ![key[t]] = slot[t]]
  /\ value' = [value EXCEPT ![t] = began[t]]
  /\ Release(t) /\ Goto(t, "ok")
  /\ UNCHANGED <<key, slot, born, began, epoch, minted>>

\* cell.set, and nothing else: the map is not touched again.
Publish(t) ==
  /\ pc[t] = "publish"
  /\ cell' = [cell EXCEPT ![slot[t]] = began[t]]
  /\ value' = [value EXCEPT ![t] = began[t]]
  /\ Release(t) /\ Goto(t, "ok")
  /\ UNCHANGED <<live, key, slot, born, began, epoch, minted>>

\* The call returns and its clone of the slot goes.
Return(t) ==
  /\ pc[t] \in {"ok", "err"}
  /\ slot' = [slot EXCEPT ![t] = NoSlot]
  /\ value' = [value EXCEPT ![t] = 0]
  /\ born' = [born EXCEPT ![t] = 0] /\ began' = [began EXCEPT ![t] = 0]
  /\ Goto(t, "idle")
  /\ UNCHANGED <<live, slots, key, epoch, minted>>

(***************************************************************************)
(* Revocation.                                                             *)
(***************************************************************************)
Invalidate(k) ==
  /\ epoch[k] < MaxEpoch
  /\ live' = [live EXCEPT ![k] = NoSlot]
  /\ epoch' = [epoch EXCEPT ![k] = @ + 1]
  /\ UNCHANGED <<slots, pc, call, minted>>

Clear ==
  /\ \A k \in Keys : epoch[k] < MaxEpoch
  /\ live' = [k \in Keys |-> NoSlot]
  /\ epoch' = [k \in Keys |-> epoch[k] + 1]
  /\ UNCHANGED <<slots, pc, call, minted>>

Step(t) ==
  \/ Lookup(t) \/ FastPath(t) \/ Gate(t) \/ Recheck(t) \/ Confirm(t)
  \/ MintFails(t) \/ MintSucceeds(t) \/ Evict(t) \/ Publish(t) \/ Return(t)

Next ==
  \/ \E t \in Threads : (\E k \in Keys : Call(t, k)) \/ Step(t)
  \/ \E k \in Keys : Invalidate(k)
  \/ Clear

Spec == Init /\ [][Next]_vars

\* A mint returns; a gate that is free again and again is not for ever taken
\* by others (the mutex is handed out without starvation).
FairSpec == Spec /\ \A t \in Threads : WF_vars(Step(t)) /\ SF_vars(Gate(t))

(***************************************************************************)
(* Properties.                                                             *)
(***************************************************************************)
Places == {"idle", "lookup", "fast", "gate", "recheck", "confirm", "mint", "evict", "publish",
           "ok", "err"}

\* The type of the map, the slots and the callers.
TypeOK ==
  /\ live \in [Keys -> Slots \cup {NoSlot}]
  /\ cell \in [Slots -> Nat \cup {Empty}] /\ gate \in [Slots -> Threads \cup {NoThread}]
  /\ pc \in [Threads -> Places] /\ key \in [Threads -> Keys]
  /\ slot \in [Threads -> Slots \cup {NoSlot}] /\ value \in [Threads -> Nat]
  /\ epoch \in [Keys -> Nat] /\ born \in [Threads -> Nat] /\ began \in [Threads -> Nat]
  /\ minted \in [Keys -> SUBSET Nat]

\* However many callers race for an absent key, one mint runs at a time between
\* two revocations, and none once one has succeeded.
OneMint ==
  \A t \in Threads : pc[t] = "mint" =>
    /\ began[t] \notin minted[key[t]]
    /\ \A u \in Threads : pc[u] = "mint" /\ key[u] = key[t] /\ began[u] = began[t] => u = t

\* A call that begins after a revocation is never handed a value whose mint
\* began before it, even by a mint that was in flight across the revocation.
RevocationHolds == \A t \in Threads : pc[t] = "ok" => value[t] >= born[t]

\* A failed mint leaves nothing behind: with no call in progress, every slot in
\* the map holds a value.
NothingLeft ==
  (\A t \in Threads : pc[t] = "idle") =>
     \A k \in Keys : live[k] # NoSlot => cell[live[k]] # Empty

\* Unless mints go on failing for ever, every call returns: an evicted or revoked
\* slot sends its waiters back to the map, never round in circles.
CallReturns ==
  ([]<>(\E u \in Threads : pc[u] = "evict")) \/ \A t \in Threads : pc[t] # "idle" ~> pc[t] = "idle"

(***************************************************************************)
(* The inductive strengthening of OneMint and RevocationHolds.             *)
(***************************************************************************)
AtSlot(t)  == pc[t] \in {"fast", "gate", "recheck", "confirm", "mint", "evict", "publish"}
AtGate(t)  == pc[t] \in {"recheck", "confirm", "mint", "evict", "publish"}
Filling(t) == pc[t] \in {"confirm", "mint", "evict", "publish"}
Minting(t) == pc[t] \in {"mint", "publish"}

\* A caller past the gate is its holder, and past the re-check its cell is empty.
Owned ==
  \A t \in Threads :
    /\ pc[t] = "idle" => slot[t] = NoSlot
    /\ AtSlot(t) => slot[t] \in Slots
    /\ AtGate(t) => gate[slot[t]] = t
    /\ Filling(t) => cell[slot[t]] = Empty

\* A slot serves one key for as long as anything refers to it.
OneKey ==
  /\ \A k, j \in Keys : live[k] \in Slots /\ live[k] = live[j] => k = j
  /\ \A t \in Threads, k \in Keys : slot[t] \in Slots /\ live[k] = slot[t] => k = key[t]
  /\ \A t, u \in Threads : slot[t] \in Slots /\ slot[t] = slot[u] => key[t] = key[u]

\* No epoch on record is in the future.
Past ==
  /\ \A t \in Threads : pc[t] # "idle" => born[t] <= epoch[key[t]]
  /\ \A t \in Threads : Minting(t) => began[t] <= epoch[key[t]]
  /\ \A k \in Keys : \A e \in minted[k] : e <= epoch[k]

\* What the map holds belongs to the current epoch, and what was minted in the
\* current epoch is in the map.
Current ==
  /\ \A k \in Keys : live[k] \in Slots => cell[live[k]] \in {Empty, epoch[k]}
  /\ \A t \in Threads : Minting(t) => (Holds(t) <=> began[t] = epoch[key[t]])
  /\ \A k \in Keys : epoch[k] \in minted[k] =>
       /\ live[k] \in Slots
       /\ cell[live[k]] # Empty \/ \E u \in Threads : pc[u] = "publish" /\ slot[u] = live[k]

\* A caller only ever waits on a slot no older than its call.
NotStale ==
  \A t \in Threads : AtSlot(t) =>
    /\ cell[slot[t]] # Empty => cell[slot[t]] >= born[t]
    /\ \A u \in Threads : Minting(u) /\ slot[u] = slot[t] => began[u] >= born[t]

FlightInv ==
  TypeOK /\ Owned /\ OneKey /\ Past /\ Current /\ NotStale /\ OneMint /\ RevocationHolds
=============================================================================
