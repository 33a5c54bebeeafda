---------------------------- MODULE IdentityCache ----------------------------
(***************************************************************************)
(* IdentityCache over CredBroker: leases on personalities, one per         *)
(* identity, minted by a broker request and retired by another when the    *)
(* last reference to the entry goes.  The cache's protocol is that of      *)
(* SingleFlight; here the mint and the drop are the broker's round trips,  *)
(* and the map's mutex is a variable, because invalidate and clear drop    *)
(* entries, and so call the broker, with the mutex held.                   *)
(*                                                                         *)
(* An Arc<IdEntry> stands by its id; held is the leases.  Bound: a thread  *)
(* holds one lease at a time.                                              *)
(***************************************************************************)
EXTENDS CredBroker

CONSTANTS Slots, NoSlot  \* the slots of the map, numbers, and none of them

VARIABLES
  map, live,             \* the map's mutex and the map
  cell, gate,            \* Slot::cell (0 until set), the gate's holder
  pc, key, slot,         \* each thread's place and, in acquire, identity and slot
  todo                   \* entries an invalidation has yet to drop

cache == <<map, live, cell, gate, slot, todo>>
all   == <<vars, cache, pc, key>>

CacheInit ==
  /\ Init
  /\ map = NoThread /\ live = [u \in Users |-> NoSlot]
  /\ cell = [s \in Slots |-> 0] /\ gate = [s \in Slots |-> NoThread]
  /\ pc = [t \in Threads |-> "idle"] /\ key = [t \in Threads |-> NoUser]
  /\ slot = [t \in Threads |-> NoSlot] /\ todo = [t \in Threads |-> {}]

Step(t, from, to) == pc[t] = from /\ pc' = [pc EXCEPT ![t] = to]
Clone(t, id)      == held' = [held EXCEPT ![t] = @ \cup {[who |-> key[t], id |-> id]}]
Forget(t)         == slot' = [slot EXCEPT ![t] = NoSlot] /\ key' = [key EXCEPT ![t] = NoUser]
Leave(t)          == gate' = [gate EXCEPT ![slot[t]] = NoThread]
Holds(t)          == live[key[t]] = slot[t]

(***************************************************************************)
(* acquire: get_or_try_init with creds.register for its mint.              *)
(***************************************************************************)
Acquire(t, u) ==
  /\ held[t] = {} /\ Step(t, "idle", "lookup")
  /\ key' = [key EXCEPT ![t] = u]
  /\ UNCHANGED <<vars, cache>>

\* A slot that nothing refers to; which one does not matter.
FirstFree ==
  LET free == {s \in Slots : (\A u \in Users : live[u] # s) /\ (\A t \in Threads : slot[t] # s)}
  IN  {s \in free : \A r \in free : s <= r}

Lookup(t) ==
  /\ Step(t, "lookup", "fast") /\ map = NoThread
  /\ \/ /\ live[key[t]] # NoSlot
        /\ slot' = [slot EXCEPT ![t] = live[key[t]]] /\ UNCHANGED <<live, cell, gate>>
     \/ /\ live[key[t]] = NoSlot
        /\ \E s \in FirstFree :
             /\ live' = [live EXCEPT ![key[t]] = s] /\ slot' = [slot EXCEPT ![t] = s]
             /\ cell' = [cell EXCEPT ![s] = 0] /\ gate' = [gate EXCEPT ![s] = NoThread]
  /\ UNCHANGED <<vars, key, map, todo>>

Hit(t) ==
  /\ Step(t, "fast", "idle") /\ cell[slot[t]] # 0
  /\ Clone(t, cell[slot[t]]) /\ Forget(t)
  /\ UNCHANGED <<wire, kid, req, map, live, cell, gate, todo>>

Miss(t) ==
  /\ Step(t, "fast", "gate") /\ cell[slot[t]] = 0
  /\ UNCHANGED <<vars, key, cache>>

Gate(t) ==
  /\ Step(t, "gate", "recheck") /\ gate[slot[t]] = NoThread
  /\ gate' = [gate EXCEPT ![slot[t]] = t]
  /\ UNCHANGED <<vars, key, map, live, cell, slot, todo>>

JoinMint(t) ==
  /\ Step(t, "recheck", "idle") /\ cell[slot[t]] # 0
  /\ Clone(t, cell[slot[t]]) /\ Leave(t) /\ Forget(t)
  /\ UNCHANGED <<wire, kid, req, map, live, cell, todo>>

Confirm(t) ==
  /\ pc[t] = "recheck" /\ cell[slot[t]] = 0 /\ map = NoThread
  /\ \/ Step(t, "recheck", "mint") /\ Holds(t) /\ Ask(t, "register", key[t], 0) /\ UNCHANGED gate
     \/ Step(t, "recheck", "lookup") /\ ~Holds(t) /\ Leave(t) /\ UNCHANGED req
  /\ UNCHANGED <<wire, kid, held, key, map, live, cell, slot, todo>>

MintFails(t) ==
  /\ Step(t, "mint", "evict") /\ At(t, "done") /\ req[t].res <= 0
  /\ req' = [req EXCEPT ![t] = NoReq]
  /\ UNCHANGED <<wire, kid, held, key, cache>>

Evict(t) ==
  /\ Step(t, "evict", "idle") /\ map = NoThread
  /\ live' = IF Holds(t) THEN [live EXCEPT ![key[t]] = NoSlot] ELSE live
  /\ Leave(t) /\ Forget(t)
  /\ UNCHANGED <<vars, map, cell, todo>>

Publish(t) ==
  /\ Step(t, "mint", "idle") /\ At(t, "done") /\ req[t].res > 0
  /\ cell' = [cell EXCEPT ![slot[t]] = req[t].res]
  /\ req' = [req EXCEPT ![t] = NoReq]
  /\ Clone(t, req[t].res) /\ Leave(t) /\ Forget(t)
  /\ UNCHANGED <<wire, kid, map, live, todo>>

(***************************************************************************)
(* Dropping references.                                                    *)
(***************************************************************************)
\* Whether anything but what is being dropped still refers to entry i.
Referred(i, leases, entries) ==
  \/ \E t \in Threads : \E p \in leases[t] : p.id = i
  \/ \E s \in Slots : cell[s] = i /\ (\E u \in Users : entries[u] = s)
  \/ \E t \in Threads : slot[t] \in Slots /\ cell[slot[t]] = i

\* Mutant: the drop of a thread's lease retires the id, cached or not.
DropLeaseAlways(t) ==
  \E p \in held[t] :
    /\ held' = [held EXCEPT ![t] = @ \ {p}]
    /\ Step(t, "idle", "drop") /\ Ask(t, "unregister", NoUser, p.id)
    /\ UNCHANGED <<wire, kid, key, cache>>

\* A lease goes; the last reference takes the entry with it, and its id.
DropLease(t) ==
  \E p \in held[t] :
    /\ held' = [held EXCEPT ![t] = @ \ {p}]
    /\ \/ Referred(p.id, held', live) /\ Step(t, "idle", "idle") /\ UNCHANGED req
       \/ ~Referred(p.id, held', live) /\ Step(t, "idle", "drop") /\ Ask(t, "unregister", NoUser, p.id)
    /\ UNCHANGED <<wire, kid, key, cache>>

Dropped(t) ==
  /\ Step(t, "drop", "idle") /\ At(t, "done")
  /\ req' = [req EXCEPT ![t] = NoReq]
  /\ UNCHANGED <<wire, kid, held, key, cache>>

Entries(us) == {cell[live[u]] : u \in {v \in us : live[v] # NoSlot}} \ {0}

\* Mutant: what an invalidation removes is forgotten, and not dropped.
RemoveForgets(t, us) ==
  /\ pc[t] = "idle" /\ map = NoThread
  /\ live' = [u \in Users |-> IF u \in us THEN NoSlot ELSE live[u]]
  /\ UNCHANGED <<vars, key, pc, map, cell, gate, slot, todo>>

\* invalidate and clear: what they remove is dropped before the mutex is.
Remove(t, us) ==
  /\ pc[t] = "idle" /\ map = NoThread
  /\ live' = [u \in Users |-> IF u \in us THEN NoSlot ELSE live[u]]
  /\ LET last == {i \in Entries(us) : ~Referred(i, held, live')}
     IN IF last = {} THEN UNCHANGED <<pc, map, todo>>
        ELSE pc' = [pc EXCEPT ![t] = "remove"] /\ map' = t /\ todo' = [todo EXCEPT ![t] = last]
  /\ UNCHANGED <<vars, key, cell, gate, slot>>

Invalidate(t) == \E u \in Users : Remove(t, {u})
Clear(t)      == Remove(t, Users)

RemoveNext(t) ==
  /\ Step(t, "remove", "removing")
  /\ \E i \in todo[t] : Ask(t, "unregister", NoUser, i) /\ todo' = [todo EXCEPT ![t] = @ \ {i}]
  /\ UNCHANGED <<wire, kid, held, key, map, live, cell, gate, slot>>

Removed(t) ==
  /\ At(t, "done")
  /\ \/ Step(t, "removing", "remove") /\ todo[t] # {} /\ UNCHANGED map
     \/ Step(t, "removing", "idle") /\ todo[t] = {} /\ map' = NoThread
  /\ req' = [req EXCEPT ![t] = NoReq]
  /\ UNCHANGED <<wire, kid, held, key, live, cell, gate, slot, todo>>

Proceed(t) ==
  \/ Lookup(t) \/ Hit(t) \/ Miss(t) \/ Gate(t) \/ JoinMint(t) \/ Confirm(t) \/ MintFails(t)
  \/ Evict(t) \/ Publish(t) \/ Dropped(t) \/ RemoveNext(t) \/ Removed(t)
  \/ Trip(t) /\ UNCHANGED <<cache, pc, key>>

CacheNext ==
  \/ \E t \in Threads :
       (\E u \in Users : Acquire(t, u)) \/ DropLease(t) \/ Invalidate(t) \/ Clear(t) \/ Proceed(t)
  \/ Child /\ UNCHANGED <<cache, pc, key>>

CacheSpec == CacheInit /\ [][CacheNext]_all

(***************************************************************************)
(* Properties.                                                             *)
(***************************************************************************)
\* What acquire's documentation says of the map's mutex: held for a look at the
\* map, and never across a round trip to the broker.
MapLockBrief == map # NoThread => At(map, "none")

\* A lease's id stays registered, as the identity asked for, for as long as the
\* lease is held, whatever is invalidated and dropped meanwhile.
LeaseValid == Attributed

\* While the socket is in step and the child alive, every personality on the ring
\* is cached, leased, or being registered or retired: none is left behind.
NoneStranded ==
  ~desynced /\ child # "dead" =>
    \A i \in Ids : reg[i] # NoUser =>
      \/ Referred(i, held, live)
      \/ \E t \in Threads : i \in todo[t]
      \/ \E t \in Threads : ~At(t, "none") /\ (req[t].op = "register" \/ req[t].id = i)
=============================================================================
