------------------------- MODULE SingleFlightProofs -------------------------
(***************************************************************************)
(* Proofs about SingleFlight: one mint at a time, and no value from before *)
(* a revocation, for any number of callers, keys, slots and revocations.   *)
(***************************************************************************)
EXTENDS SingleFlight, TLAPS

\* The type invariant is inductive.
LEMMA TypeStep == ASSUME TypeOK, Owned, [Next]_vars PROVE TypeOK'
<1> USE FlightAssumption DEF slots, call, TypeOK, Owned, AtSlot, AtGate, Filling, Places, Empty
<1>1. ASSUME NEW t \in Threads, NEW k \in Keys, Call(t, k) PROVE TypeOK'
  BY <1>1 DEF Call, Goto
<1>2. ASSUME NEW t \in Threads, Step(t) PROVE TypeOK'
  <2>1. CASE Lookup(t) BY <2>1 DEF Lookup, Goto
  <2>2. CASE FastPath(t) BY <2>2 DEF FastPath, Goto
  <2>3. CASE Gate(t) BY <2>3 DEF Gate, Goto
  <2>4. CASE Recheck(t) BY <2>4 DEF Recheck, Goto, Release
  <2>5. CASE Confirm(t) BY <2>5 DEF Confirm, Goto, Release, Holds
  <2>6. CASE MintFails(t) BY <2>6 DEF MintFails, Goto
  <2>7. CASE MintSucceeds(t) BY <2>7 DEF MintSucceeds, Goto
  <2>8. CASE Evict(t) BY <2>8 DEF Evict, Goto, Release, Holds
  <2>9. CASE Publish(t) BY <2>9 DEF Publish, Goto, Release
  <2>10. CASE Return(t) BY <2>10 DEF Return, Goto
  <2> QED BY <1>2, <2>1, <2>2, <2>3, <2>4, <2>5, <2>6, <2>7, <2>8, <2>9, <2>10 DEF Step
<1>3. ASSUME NEW k \in Keys, Invalidate(k) PROVE TypeOK' BY <1>3 DEF Invalidate
<1>4. CASE Clear BY <1>4 DEF Clear
<1>5. CASE UNCHANGED vars BY <1>5 DEF vars
<1> QED BY <1>1, <1>2, <1>3, <1>4, <1>5 DEF Next

\* A slot in use is never blanked, and only the gate's holder fills its cell.
LEMMA OwnedStep == ASSUME TypeOK, Owned, [Next]_vars PROVE Owned'
<1> USE FlightAssumption DEF slots, call, TypeOK, Owned, AtSlot, AtGate, Filling, Empty
<1>1. ASSUME NEW t \in Threads, NEW k \in Keys, Call(t, k) PROVE Owned'
  BY <1>1 DEF Call, Goto
<1>2. ASSUME NEW t \in Threads, Step(t) PROVE Owned'
  <2>1. CASE Lookup(t) BY <2>1 DEF Lookup, Goto
  <2>2. CASE FastPath(t) BY <2>2 DEF FastPath, Goto
  <2>3. CASE Gate(t) BY <2>3 DEF Gate, Goto
  <2>4. CASE Recheck(t) BY <2>4 DEF Recheck, Goto, Release
  <2>5. CASE Confirm(t) BY <2>5 DEF Confirm, Goto, Release, Holds
  <2>6. CASE MintFails(t) BY <2>6 DEF MintFails, Goto
  <2>7. CASE MintSucceeds(t) BY <2>7 DEF MintSucceeds, Goto
  <2>8. CASE Evict(t) BY <2>8 DEF Evict, Goto, Release, Holds
  <2>9. CASE Publish(t) BY <2>9 DEF Publish, Goto, Release
  <2>10. CASE Return(t) BY <2>10 DEF Return, Goto
  <2> QED BY <1>2, <2>1, <2>2, <2>3, <2>4, <2>5, <2>6, <2>7, <2>8, <2>9, <2>10 DEF Step
<1>3. ASSUME NEW k \in Keys, Invalidate(k) PROVE Owned' BY <1>3 DEF Invalidate
<1>4. CASE Clear BY <1>4 DEF Clear
<1>5. CASE UNCHANGED vars BY <1>5 DEF vars
<1> QED BY <1>1, <1>2, <1>3, <1>4, <1>5 DEF Next

\* A slot is put into the map only when nothing refers to it.
LEMMA OneKeyStep == ASSUME TypeOK, Owned, OneKey, [Next]_vars PROVE OneKey'
<1> USE FlightAssumption DEF slots, call, TypeOK, Owned, OneKey
<1>1. ASSUME NEW t \in Threads, NEW k \in Keys, Call(t, k) PROVE OneKey'
  BY <1>1 DEF Call, Goto
<1>2. ASSUME NEW t \in Threads, Step(t) PROVE OneKey'
  <2>1. CASE Lookup(t)
    <3>1. CASE live[key[t]] # NoSlot
      <4>1. slot' = [slot EXCEPT ![t] = live[key[t]]] /\ live' = live /\ key' = key BY <2>1, <3>1 DEF Lookup
      <4>2. \A u \in Threads, k \in Keys : slot'[u] \in Slots /\ live[k] = slot'[u] => k = key[u] BY <4>1
      <4>3. \A u, v \in Threads : slot'[u] \in Slots /\ slot'[u] = slot'[v] => key[u] = key[v] BY <4>1
      <4> QED BY <4>1, <4>2, <4>3
    <3>2. CASE live[key[t]] = NoSlot
      <4>1. PICK s \in Slots :
              /\ \A k \in Keys : live[k] # s
              /\ \A u \in Threads : slot[u] # s
              /\ live' = [live EXCEPT ![key[t]] = s]
              /\ slot' = [slot EXCEPT ![t] = s]
        BY <2>1, <3>2 DEF Lookup
      <4>2. key' = key BY <2>1 DEF Lookup
      <4>3. \A k, j \in Keys : live'[k] \in Slots /\ live'[k] = live'[j] => k = j BY <4>1
      <4>4. \A u \in Threads, k \in Keys : slot'[u] \in Slots /\ live'[k] = slot'[u] => k = key[u] BY <4>1
      <4>5. \A u, v \in Threads : slot'[u] \in Slots /\ slot'[u] = slot'[v] => key[u] = key[v] BY <4>1
      <4> QED BY <4>2, <4>3, <4>4, <4>5
    <3> QED BY <3>1, <3>2
  <2>2. CASE FastPath(t) BY <2>2 DEF FastPath, Goto
  <2>3. CASE Gate(t) BY <2>3 DEF Gate, Goto
  <2>4. CASE Recheck(t) BY <2>4 DEF Recheck, Goto, Release
  <2>5. CASE Confirm(t) BY <2>5 DEF Confirm, Goto, Release, Holds
  <2>6. CASE MintFails(t) BY <2>6 DEF MintFails, Goto
  <2>7. CASE MintSucceeds(t) BY <2>7 DEF MintSucceeds, Goto
  <2>8. CASE Evict(t) BY <2>8 DEF Evict, Goto, Release, Holds
  <2>9. CASE Publish(t) BY <2>9 DEF Publish, Goto, Release
  <2>10. CASE Return(t) BY <2>10 DEF Return, Goto
  <2> QED BY <1>2, <2>1, <2>2, <2>3, <2>4, <2>5, <2>6, <2>7, <2>8, <2>9, <2>10 DEF Step
<1>3. ASSUME NEW k \in Keys, Invalidate(k) PROVE OneKey' BY <1>3 DEF Invalidate
<1>4. CASE Clear BY <1>4 DEF Clear
<1>5. CASE UNCHANGED vars BY <1>5 DEF vars
<1> QED BY <1>1, <1>2, <1>3, <1>4, <1>5 DEF Next

\* Epochs only grow, and are recorded from the current one.
LEMMA PastStep == ASSUME TypeOK, OneKey, Past, [Next]_vars PROVE Past'
<1> USE FlightAssumption DEF slots, call, TypeOK, Past, Minting
<1>1. ASSUME NEW t \in Threads, NEW k \in Keys, Call(t, k) PROVE Past'
  BY <1>1 DEF Call, Goto
<1>2. ASSUME NEW t \in Threads, Step(t) PROVE Past'
  <2>1. CASE Lookup(t) BY <2>1 DEF Lookup, Goto
  <2>2. CASE FastPath(t) BY <2>2 DEF FastPath, Goto
  <2>3. CASE Gate(t) BY <2>3 DEF Gate, Goto
  <2>4. CASE Recheck(t) BY <2>4 DEF Recheck, Goto, Release
  <2>5. CASE Confirm(t) BY <2>5 DEF Confirm, Goto, Release, Holds
  <2>6. CASE MintFails(t) BY <2>6 DEF MintFails, Goto
  <2>7. CASE MintSucceeds(t) BY <2>7 DEF MintSucceeds, Goto
  <2>8. CASE Evict(t) BY <2>8 DEF Evict, Goto, Release, Holds
  <2>9. CASE Publish(t) BY <2>9 DEF Publish, Goto, Release
  <2>10. CASE Return(t) BY <2>10 DEF Return, Goto
  <2> QED BY <1>2, <2>1, <2>2, <2>3, <2>4, <2>5, <2>6, <2>7, <2>8, <2>9, <2>10 DEF Step
<1>3. ASSUME NEW k \in Keys, Invalidate(k) PROVE Past' BY <1>3 DEF Invalidate
<1>4. CASE Clear BY <1>4 DEF Clear
<1>5. CASE UNCHANGED vars BY <1>5 DEF vars
<1> QED BY <1>1, <1>2, <1>3, <1>4, <1>5 DEF Next

\* Revoking empties the map, and minting takes a slot the map holds.
LEMMA CurrentStep == ASSUME TypeOK, Owned, OneKey, Past, Current, [Next]_vars PROVE Current'
<1> USE FlightAssumption DEF slots, call, TypeOK, Current, Minting, Holds, Empty
<1>1. ASSUME NEW t \in Threads, NEW k \in Keys, Call(t, k) PROVE Current'
  BY <1>1 DEF Call, Goto
<1>2. ASSUME NEW t \in Threads, Step(t) PROVE Current'
  <2>1. CASE Lookup(t)
    <3>1. CASE live[key[t]] # NoSlot BY <2>1, <3>1 DEF Lookup, Goto
    <3>2. CASE live[key[t]] = NoSlot
      <4>1. PICK s \in Slots :
              /\ \A k \in Keys : live[k] # s
              /\ \A u \in Threads : slot[u] # s
              /\ live' = [live EXCEPT ![key[t]] = s]
              /\ slot' = [slot EXCEPT ![t] = s]
              /\ cell' = [cell EXCEPT ![s] = -1]
        BY <2>1, <3>2 DEF Lookup
      <4>2. UNCHANGED <<key, began, epoch, minted>> BY <2>1 DEF Lookup
      <4>3. pc' = [pc EXCEPT ![t] = "fast"] /\ pc[t] = "lookup" BY <2>1 DEF Lookup, Goto
      <4>4. \A k \in Keys : live'[k] \in Slots => cell'[live'[k]] \in {-1, epoch'[k]}
        BY <4>1, <4>2
      <4>5. \A u \in Threads : Minting(u)' => (Holds(u)' <=> began'[u] = epoch'[key'[u]])
        BY <3>2, <4>1, <4>2, <4>3 DEF Owned, AtSlot
      <4>6. ASSUME NEW k \in Keys, epoch'[k] \in minted'[k]
            PROVE  /\ live'[k] \in Slots
                   /\ cell'[live'[k]] # -1 \/ \E u \in Threads : pc'[u] = "publish" /\ slot'[u] = live'[k]
        <5>1. k # key[t] BY <3>2, <4>2, <4>6
        <5>2. live'[k] = live[k] /\ live[k] # s BY <4>1, <5>1
        <5> QED BY <4>1, <4>2, <4>3, <4>6, <5>1, <5>2
      <4> QED BY <4>4, <4>5, <4>6
    <3> QED BY <3>1, <3>2
  <2>2. CASE FastPath(t) BY <2>2 DEF FastPath, Goto
  <2>3. CASE Gate(t) BY <2>3 DEF Gate, Goto
  <2>4. CASE Recheck(t) BY <2>4 DEF Recheck, Goto, Release
  <2>5. CASE Confirm(t) BY <2>5 DEF Confirm, Goto, Release
  <2>6. CASE MintFails(t) BY <2>6 DEF MintFails, Goto
  <2>7. CASE MintSucceeds(t) BY <2>7 DEF MintSucceeds, Goto, Owned, OneKey, AtSlot, AtGate, Filling
  <2>8. CASE Evict(t) BY <2>8 DEF Evict, Goto, Release, Owned, OneKey, AtSlot, AtGate, Filling
  <2>9. CASE Publish(t) BY <2>9 DEF Publish, Goto, Release, Owned, OneKey, AtSlot, AtGate, Filling
  <2>10. CASE Return(t) BY <2>10 DEF Return, Goto
  <2> QED BY <1>2, <2>1, <2>2, <2>3, <2>4, <2>5, <2>6, <2>7, <2>8, <2>9, <2>10 DEF Step
<1>3. ASSUME NEW k \in Keys, Invalidate(k) PROVE Current' BY <1>3 DEF Invalidate, Past, OneKey, Owned, AtSlot
<1>4. CASE Clear BY <1>4 DEF Clear, Past, OneKey, Owned, AtSlot
<1>5. CASE UNCHANGED vars BY <1>5 DEF vars
<1> QED BY <1>1, <1>2, <1>3, <1>4, <1>5 DEF Next

\* A slot found in the map is of the current epoch, which no call is ahead of.
LEMMA NotStaleStep == ASSUME TypeOK, Owned, OneKey, Past, Current, NotStale, [Next]_vars PROVE NotStale'
<1> USE FlightAssumption DEF slots, call, TypeOK, NotStale, AtSlot, Minting, Empty
<1>1. ASSUME NEW t \in Threads, NEW k \in Keys, Call(t, k) PROVE NotStale'
  BY <1>1 DEF Call, Goto
<1>2. ASSUME NEW t \in Threads, Step(t) PROVE NotStale'
  <2>1. CASE Lookup(t) BY <2>1 DEF Lookup, Goto, Owned, OneKey, Past, Current, Holds
  <2>2. CASE FastPath(t) BY <2>2 DEF FastPath, Goto
  <2>3. CASE Gate(t) BY <2>3 DEF Gate, Goto
  <2>4. CASE Recheck(t) BY <2>4 DEF Recheck, Goto, Release
  <2>5. CASE Confirm(t) BY <2>5 DEF Confirm, Goto, Release, Holds, Owned, OneKey, Past
  <2>6. CASE MintFails(t) BY <2>6 DEF MintFails, Goto
  <2>7. CASE MintSucceeds(t) BY <2>7 DEF MintSucceeds, Goto
  <2>8. CASE Evict(t) BY <2>8 DEF Evict, Goto, Release, Holds
  <2>9. CASE Publish(t) BY <2>9 DEF Publish, Goto, Release, Owned, AtGate, Filling
  <2>10. CASE Return(t) BY <2>10 DEF Return, Goto
  <2> QED BY <1>2, <2>1, <2>2, <2>3, <2>4, <2>5, <2>6, <2>7, <2>8, <2>9, <2>10 DEF Step
<1>3. ASSUME NEW k \in Keys, Invalidate(k) PROVE NotStale' BY <1>3 DEF Invalidate
<1>4. CASE Clear BY <1>4 DEF Clear
<1>5. CASE UNCHANGED vars BY <1>5 DEF vars
<1> QED BY <1>1, <1>2, <1>3, <1>4, <1>5 DEF Next

\* A mint that begins finds its slot in the map, empty, with the gate its own.
LEMMA OneMintStep == ASSUME TypeOK, Owned, OneKey, Past, Current, OneMint, [Next]_vars PROVE OneMint'
<1> USE FlightAssumption DEF slots, call, TypeOK, OneMint
<1>1. ASSUME NEW t \in Threads, NEW k \in Keys, Call(t, k) PROVE OneMint'
  BY <1>1 DEF Call, Goto
<1>2. ASSUME NEW t \in Threads, Step(t) PROVE OneMint'
  <2>1. CASE Lookup(t) BY <2>1 DEF Lookup, Goto
  <2>2. CASE FastPath(t) BY <2>2 DEF FastPath, Goto
  <2>3. CASE Gate(t) BY <2>3 DEF Gate, Goto
  <2>4. CASE Recheck(t) BY <2>4 DEF Recheck, Goto, Release
  <2>5. CASE Confirm(t) BY <2>5 DEF Confirm, Goto, Release, Holds, Owned, OneKey, Past, Current, AtSlot, AtGate, Filling, Minting, Empty
  <2>6. CASE MintFails(t) BY <2>6 DEF MintFails, Goto
  <2>7. CASE MintSucceeds(t) BY <2>7 DEF MintSucceeds, Goto
  <2>8. CASE Evict(t) BY <2>8 DEF Evict, Goto, Release, Holds
  <2>9. CASE Publish(t) BY <2>9 DEF Publish, Goto, Release
  <2>10. CASE Return(t) BY <2>10 DEF Return, Goto
  <2> QED BY <1>2, <2>1, <2>2, <2>3, <2>4, <2>5, <2>6, <2>7, <2>8, <2>9, <2>10 DEF Step
<1>3. ASSUME NEW k \in Keys, Invalidate(k) PROVE OneMint' BY <1>3 DEF Invalidate
<1>4. CASE Clear BY <1>4 DEF Clear
<1>5. CASE UNCHANGED vars BY <1>5 DEF vars
<1> QED BY <1>1, <1>2, <1>3, <1>4, <1>5 DEF Next

\* A value is returned from the caller's slot or the caller's own mint.
LEMMA RevocationStep == ASSUME TypeOK, Owned, NotStale, RevocationHolds, [Next]_vars PROVE RevocationHolds'
<1> USE FlightAssumption DEF slots, call, TypeOK, Owned, NotStale, RevocationHolds, AtSlot,
           AtGate, Filling, Minting, Empty
<1>1. ASSUME NEW t \in Threads, NEW k \in Keys, Call(t, k) PROVE RevocationHolds'
  BY <1>1 DEF Call, Goto
<1>2. ASSUME NEW t \in Threads, Step(t) PROVE RevocationHolds'
  <2>1. CASE Lookup(t) BY <2>1 DEF Lookup, Goto
  <2>2. CASE FastPath(t) BY <2>2 DEF FastPath, Goto
  <2>3. CASE Gate(t) BY <2>3 DEF Gate, Goto
  <2>4. CASE Recheck(t) BY <2>4 DEF Recheck, Goto, Release
  <2>5. CASE Confirm(t) BY <2>5 DEF Confirm, Goto, Release, Holds
  <2>6. CASE MintFails(t) BY <2>6 DEF MintFails, Goto
  <2>7. CASE MintSucceeds(t) BY <2>7 DEF MintSucceeds, Goto
  <2>8. CASE Evict(t) BY <2>8 DEF Evict, Goto, Release, Holds
  <2>9. CASE Publish(t) BY <2>9 DEF Publish, Goto, Release
  <2>10. CASE Return(t) BY <2>10 DEF Return, Goto
  <2> QED BY <1>2, <2>1, <2>2, <2>3, <2>4, <2>5, <2>6, <2>7, <2>8, <2>9, <2>10 DEF Step
<1>3. ASSUME NEW k \in Keys, Invalidate(k) PROVE RevocationHolds' BY <1>3 DEF Invalidate
<1>4. CASE Clear BY <1>4 DEF Clear
<1>5. CASE UNCHANGED vars BY <1>5 DEF vars
<1> QED BY <1>1, <1>2, <1>3, <1>4, <1>5 DEF Next


\* An empty map and idle callers satisfy every conjunct.
LEMMA InitInv == ASSUME Init PROVE FlightInv
<1> USE FlightAssumption DEF Init
<1>1. TypeOK BY DEF TypeOK, Places, Empty
<1>2. Owned BY DEF Owned, AtSlot, AtGate, Filling
<1>3. OneKey BY DEF OneKey
<1>4. Past BY DEF Past, Minting
<1>5. Current BY DEF Current, Minting
<1>6. NotStale BY DEF NotStale, AtSlot
<1>7. OneMint BY DEF OneMint
<1>8. RevocationHolds BY DEF RevocationHolds
<1> QED BY <1>1, <1>2, <1>3, <1>4, <1>5, <1>6, <1>7, <1>8 DEF FlightInv

\* The strengthened invariant holds in every state the cache reaches.
THEOREM FlightInvariant == Spec => []FlightInv
<1>1. ASSUME FlightInv, [Next]_vars PROVE FlightInv'
  <2> USE <1>1 DEF FlightInv
  <2>1. TypeOK' BY TypeStep
  <2>2. Owned' BY OwnedStep
  <2>3. OneKey' BY OneKeyStep
  <2>4. Past' BY PastStep
  <2>5. Current' BY CurrentStep
  <2>6. NotStale' BY NotStaleStep
  <2>7. OneMint' BY OneMintStep
  <2>8. RevocationHolds' BY RevocationStep
  <2> QED BY <2>1, <2>2, <2>3, <2>4, <2>5, <2>6, <2>7, <2>8
<1> QED BY <1>1, InitInv, PTL DEF Spec

\* Between two revocations of a key one mint runs at a time, and none once one
\* has succeeded (get_or_try_init's gate, re-check and confirmation).
THEOREM MintsOnce == Spec => []OneMint
BY FlightInvariant, PTL DEF FlightInv

\* A call begun after a revocation never returns a value minted before it, though
\* a mint may be in flight across the revocation (get_or_try_init, invalidate, clear).
THEOREM RevocationKept == Spec => []RevocationHolds
BY FlightInvariant, PTL DEF FlightInv
=============================================================================
