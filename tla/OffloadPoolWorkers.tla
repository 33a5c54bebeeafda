------------------------- MODULE OffloadPoolWorkers -------------------------
(***************************************************************************)
(* Lemmas about OffloadPool's workers, for any number of them: how they are*)
(* counted, and that a turn, a wait, a retirement and the drop keep the    *)
(* invariant.                                                              *)
(***************************************************************************)
EXTENDS OffloadPool, FiniteSetTheorems, TLAPS

WorkerStates == {"none", "start", "fresh", "stale", "wait", "timed", "woken", "expired"}
Living  == {"start", "fresh", "stale", "wait", "timed", "woken", "expired"}
InWait  == {"wait", "timed", "woken", "expired"}
Back    == {"woken", "expired"}

Count(f, S) == Cardinality({v \in Workers : f[v] \in S})
Num(S)    == Count(wst, S)
Has(x, S) == IF x \in S THEN 1 ELSE 0

(***************************************************************************)
(* Counting workers.                                                       *)
(***************************************************************************)
\* Workers are finitely many, in whatever place.
LEMMA NumType == ASSUME NEW S PROVE IsFiniteSet(In(S)) /\ Num(S) \in Nat /\ Num(S) <= Ceiling
<1>1. In(S) \in SUBSET Workers BY DEF In
<1>2. IsFiniteSet(In(S)) /\ Cardinality(In(S)) <= Cardinality(Workers)
  BY <1>1, PoolAssumption, FS_Subset
<1> QED BY <1>2, PoolAssumption, FS_CardinalityType DEF Num, Count, In

\* The model's sets in these terms.
LEMMA SetsAre == ASSUME TypeOK PROVE Waiting = In(InWait) /\ Alive = In(Living)
BY DEF Waiting, Alive, In, InWait, Living, TypeOK

\* A worker that moves leaves one place's count and joins another's.
LEMMA MoveOne ==
  ASSUME NEW S, NEW f, NEW g, NEW w \in Workers,
         \A v \in Workers : v # w => (g[v] \in S <=> f[v] \in S)
  PROVE  Count(g, S) = Count(f, S) - Has(f[w], S) + Has(g[w], S)
<1> DEFINE F == {v \in Workers : f[v] \in S}  G == {v \in Workers : g[v] \in S}
<1>1. IsFiniteSet(F)
  <2>1. F \in SUBSET Workers OBVIOUS
  <2> QED BY <2>1, PoolAssumption, FS_Subset
<1>2. Cardinality(F) \in Nat BY <1>1, FS_CardinalityType
<1>0. Count(f, S) = Cardinality(F) /\ Count(g, S) = Cardinality(G) BY DEF Count
<1> HIDE DEF F, G
<1>3. CASE f[w] \in S /\ g[w] \in S
  <2>1. F = G BY <1>3 DEF F, G
  <2>2. Cardinality(G) = Cardinality(F) BY <2>1
  <2> QED BY <1>0, <1>2, <1>3, <2>2 DEF Has
<1>4. CASE f[w] \notin S /\ g[w] \notin S
  <2>1. F = G BY <1>4 DEF F, G
  <2>2. Cardinality(G) = Cardinality(F) BY <2>1
  <2> QED BY <1>0, <1>2, <1>4, <2>2 DEF Has
<1>5. CASE f[w] \in S /\ g[w] \notin S
  <2>1. G = F \ {w} /\ w \in F BY <1>5 DEF F, G
  <2>2. Cardinality(G) = Cardinality(F) - 1 BY <1>1, <2>1, FS_RemoveElement
  <2> QED BY <1>0, <1>2, <1>5, <2>2 DEF Has
<1>6. CASE f[w] \notin S /\ g[w] \in S
  <2>1. G = F \cup {w} /\ w \notin F BY <1>6 DEF F, G
  <2>2. Cardinality(G) = Cardinality(F) + 1 BY <1>1, <2>1, FS_AddElement
  <2> QED BY <1>0, <1>2, <1>6, <2>2 DEF Has
<1> QED BY <1>3, <1>4, <1>5, <1>6

\* Nobody counted before is missed after.
LEMMA MoveNone ==
  ASSUME NEW S, NEW f, NEW g, \A v \in Workers : f[v] \in S => g[v] \in S
  PROVE  Count(f, S) <= Count(g, S)
<1> DEFINE F == {v \in Workers : f[v] \in S}  G == {v \in Workers : g[v] \in S}
<1>1. F \in SUBSET G /\ G \in SUBSET Workers OBVIOUS
<1>2. IsFiniteSet(G) BY <1>1, PoolAssumption, FS_Subset
<1> QED BY <1>1, <1>2, FS_Subset DEF Count

\* notify_all, pointwise.
LEMMA NotifyAllIs ==
  ASSUME NEW f \in [Workers -> WorkerStates]
  PROVE  /\ NotifyAll(f) \in [Workers -> WorkerStates]
         /\ \A v \in Workers : NotifyAll(f)[v] = IF f[v] \in {"wait", "timed"} THEN "woken" ELSE f[v]
BY DEF NotifyAll, WorkerStates

\* The counts and places after a worker's turn.
Turned(n) ==
  /\ idle' \in Nat /\ total' \in Nat /\ queue' \in Nat
  /\ wst' \in [Workers -> WorkerStates] /\ dropper' \in {"none", "wait", "woken", "returned"}
  /\ idle' + n = Count(wst', InWait)
  /\ total' = Count(wst', Living)

\* A worker that takes a turn with i others idle, n claims being left, keeps the
\* counters equal to what the workers are: it runs, leaves or parks.
LEMMA TurnCounts ==
  ASSUME TypeOK, NEW w \in Workers, wst[w] \in Living, NEW i \in Nat, NEW n \in Nat, Turn(w, i),
         total = Num(Living), i + n = Num(InWait) - Has(wst[w], InWait)
  PROVE  Turned(n)
<1>1. wst \in [Workers -> WorkerStates] /\ queue \in Nat /\ total \in Nat
  BY DEF TypeOK, WorkerStates
<1>2. Num(InWait) \in Nat /\ Num(Living) \in Nat BY NumType
<1>3. Num(InWait) = Count(wst, InWait)
  BY DEF Num
<1>4. Num(Living) = Count(wst, Living)
  BY DEF Num
<1>5. Has(wst[w], InWait) \in {0, 1} /\ Has(wst[w], Living) = 1 BY DEF Has
<1>6. dropper \in {"none", "wait", "woken", "returned"} BY DEF TypeOK
<1>7. CASE TurnRun(w, i)
  <2>1. /\ queue > 0 /\ queue' = queue - 1 /\ wst' = [wst EXCEPT ![w] = "fresh"] /\ idle' = i
        /\ UNCHANGED <<total, dropper>>
    BY <1>7 DEF TurnRun
  <2>2. /\ wst' \in [Workers -> WorkerStates] /\ wst'[w] = "fresh"
        /\ \A v \in Workers : v # w => wst'[v] = wst[v]
    BY <1>1, <2>1 DEF WorkerStates
  <2>3. Has(wst'[w], InWait) = 0 /\ Has(wst'[w], Living) = 1 BY <2>2 DEF Has, InWait, Living
  <2>4. Count(wst', InWait) = Num(InWait) - Has(wst[w], InWait)
    <3>1. Count(wst', InWait) = Count(wst, InWait) - Has(wst[w], InWait) + Has(wst'[w], InWait)
      BY <2>2, MoveOne
    <3> QED BY <1>2, <1>3, <1>5, <2>3, <3>1
  <2>5. Count(wst', Living) = Num(Living)
    BY <1>2, <1>4, <1>5, <2>2, <2>3, MoveOne
  <2> QED BY <1>1, <1>6, <2>1, <2>2, <2>4, <2>5 DEF Turned
<1>8. CASE TurnExit(w, i)
  <2> DEFINE f == [wst EXCEPT ![w] = "none"]
  <2>1. total' = total - 1 /\ wst' = NotifyAll(f) /\ idle' = i /\ UNCHANGED queue
    BY <1>8 DEF TurnExit
  <2>2. f \in [Workers -> WorkerStates] /\ f[w] = "none" /\ \A v \in Workers : v # w => f[v] = wst[v]
    BY <1>1 DEF WorkerStates
  <2>3. /\ wst' \in [Workers -> WorkerStates]
        /\ \A v \in Workers : wst'[v] = IF f[v] \in {"wait", "timed"} THEN "woken" ELSE f[v]
    BY <2>1, <2>2, NotifyAllIs
  <2>4. Has(wst'[w], InWait) = 0 /\ Has(wst'[w], Living) = 0 BY <2>2, <2>3 DEF Has, InWait, Living
  <2>5. \A v \in Workers : v # w => (wst'[v] \in InWait <=> wst[v] \in InWait)
    BY <2>2, <2>3 DEF InWait
  <2>6. \A v \in Workers : v # w => (wst'[v] \in Living <=> wst[v] \in Living)
    BY <2>2, <2>3 DEF Living
  <2>7. Count(wst', InWait) = Num(InWait) - Has(wst[w], InWait)
    <3>1. Count(wst', InWait) = Count(wst, InWait) - Has(wst[w], InWait) + Has(wst'[w], InWait)
      BY <2>5, MoveOne
    <3> QED BY <1>2, <1>3, <1>5, <2>4, <3>1
  <2>8. Count(wst', Living) = Num(Living) - 1
    BY <1>2, <1>4, <1>5, <2>4, <2>6, MoveOne
  <2>9. total > 0
    <3>1. w \in In(Living) BY DEF In
    <3>2. Cardinality(In(Living)) # 0 BY <3>1, NumType, FS_EmptySet
    <3>3. Num(Living) = Cardinality(In(Living)) BY DEF Num, Count, In
    <3> QED BY <1>2, <3>2, <3>3
  <2>10. dropper' \in {"none", "wait", "woken", "returned"}
    BY <1>6, <1>8 DEF TurnExit, DropperHears
  <2>11. /\ total' = total - 1 /\ idle' = i /\ queue' = queue
         /\ wst' \in [Workers -> WorkerStates]
    BY <2>1, <2>3
  <2> QED BY <1>1, <2>7, <2>8, <2>9, <2>10, <2>11 DEF Turned
<1>9. CASE TurnPark(w, i)
  <2>1. idle' = i + 1 /\ wst' = [wst EXCEPT ![w] = ParkAs] /\ UNCHANGED <<queue, total, dropper>>
    BY <1>9 DEF TurnPark
  <2>2. ParkAs \in {"wait", "timed"} BY DEF ParkAs
  <2>3. /\ wst' \in [Workers -> WorkerStates] /\ wst'[w] \in {"wait", "timed"}
        /\ \A v \in Workers : v # w => wst'[v] = wst[v]
    BY <1>1, <2>1, <2>2 DEF WorkerStates
  <2>4. Has(wst'[w], InWait) = 1 /\ Has(wst'[w], Living) = 1 BY <2>3 DEF Has, InWait, Living
  <2>5. Count(wst', InWait) = Num(InWait) - Has(wst[w], InWait) + 1
    BY <1>2, <1>3, <1>5, <2>3, <2>4, MoveOne
  <2>6. Count(wst', Living) = Num(Living)
    BY <1>2, <1>4, <1>5, <2>3, <2>4, MoveOne
  <2> QED BY <1>1, <1>2, <1>5, <1>6, <2>1, <2>3, <2>5, <2>6 DEF Turned
<1> QED BY <1>7, <1>8, <1>9 DEF Turn

\* How many workers there can be in some places.
LEMMA CountType == ASSUME NEW f, NEW S PROVE Count(f, S) \in Nat /\ Count(f, S) <= Ceiling
<1> DEFINE F == {v \in Workers : f[v] \in S}
<1>1. F \in SUBSET Workers OBVIOUS
<1>2. IsFiniteSet(F) /\ Cardinality(F) <= Cardinality(Workers) BY <1>1, PoolAssumption, FS_Subset
<1> QED BY <1>2, PoolAssumption, FS_CardinalityType DEF Count

\* A worker's turn takes nobody but itself from those back from the wait.
LEMMA TurnBack ==
  ASSUME TypeOK, NEW w \in Workers, NEW i, Turn(w, i)
  PROVE  Count(wst', Back) >= Num(Back) - Has(wst[w], Back)
<1>1. wst \in [Workers -> WorkerStates] BY DEF TypeOK, WorkerStates
<1>2. PICK x \in {"fresh", "none", "wait", "timed"} :
        \/ wst' = [wst EXCEPT ![w] = x]
        \/ wst' = NotifyAll([wst EXCEPT ![w] = x])
  BY DEF Turn, TurnRun, TurnExit, TurnPark, ParkAs
<1> DEFINE f == [wst EXCEPT ![w] = x]
<1>3. /\ f \in [Workers -> WorkerStates] /\ f[w] = x
      /\ \A v \in Workers : v # w => f[v] = wst[v]
  BY <1>1 DEF WorkerStates
<1>4. wst' = f \/ wst' = NotifyAll(f) BY <1>2
<1> HIDE DEF f
<1>5. Count(f, Back) = Num(Back) - Has(wst[w], Back) + Has(f[w], Back)
  BY <1>3, MoveOne DEF Num
<1>6. Has(f[w], Back) = 0 BY <1>3 DEF Has, Back
<1>7. Count(f, Back) <= Count(wst', Back)
  <2>1. \A v \in Workers : f[v] \in Back => wst'[v] \in Back
    BY <1>3, <1>4, NotifyAllIs DEF Back
  <2> QED BY <2>1, MoveNone
<1>8. Num(Back) \in Nat /\ Has(wst[w], Back) \in {0, 1} BY NumType DEF Has
<1>9. Count(f, Back) \in Nat /\ Count(wst', Back) \in Nat BY CountType
<1> QED BY <1>5, <1>6, <1>7, <1>8, <1>9

(***************************************************************************)
(* The notify_one calls to come.                                           *)
(***************************************************************************)
CallsOf(td) == UNION {{t} \X (1 .. td[t]) : t \in Flushers}

\* Coming, before and after a step.
LEMMA ComingIs == Coming = CallsOf(todo) /\ Coming' = CallsOf(todo')
BY DEF Coming, CallsOf

\* They are finitely many.
LEMMA CallsFinite ==
  ASSUME NEW td \in [Flushers -> Nat] PROVE IsFiniteSet(CallsOf(td)) /\ Cardinality(CallsOf(td)) \in Nat
<1> DEFINE F == {{t} \X (1 .. td[t]) : t \in Flushers}
           h == [t \in Flushers |-> {t} \X (1 .. td[t])]
<1>1. IsFiniteSet(Flushers) BY PoolAssumption, FS_AddElement DEF Flushers
<1>2. h \in Surjection(Flushers, F) BY DEF Surjection
<1>3. IsFiniteSet(F)
  <2> HIDE DEF h, F
  <2> QED BY <1>1, <1>2, FS_Surjection
<1>4. ASSUME NEW T \in F PROVE IsFiniteSet(T)
  <2>1. PICK t \in Flushers : T = {t} \X (1 .. td[t]) OBVIOUS
  <2>2. td[t] \in Nat OBVIOUS
  <2>3. IsFiniteSet(1 .. td[t]) BY <2>2, FS_Interval
  <2>4. IsFiniteSet({t}) BY FS_Singleton
  <2> QED BY <2>1, <2>3, <2>4, FS_Product
<1>5. IsFiniteSet(UNION F) BY <1>3, <1>4, FS_UNION
<1> QED BY <1>5, FS_CardinalityType DEF CallsOf

\* A call to come is one of a flusher's, and nothing else is.
LEMMA CallsHas ==
  ASSUME NEW td
  PROVE  /\ \A t, k : <<t, k>> \in CallsOf(td) <=> t \in Flushers /\ k \in 1 .. td[t]
         /\ \A e \in CallsOf(td) : \E t \in Flushers : \E k \in 1 .. td[t] : e = <<t, k>>
BY DEF CallsOf

\* A flusher that has n calls to make, and had none, adds n.
LEMMA CallsAdded ==
  ASSUME NEW td \in [Flushers -> Nat], NEW t \in Flushers, NEW n \in Nat, td[t] = 0
  PROVE  Cardinality(CallsOf([td EXCEPT ![t] = n])) = Cardinality(CallsOf(td)) + n
<1> DEFINE A == {t} \X (1 .. n)  C == CallsOf(td)  g == [td EXCEPT ![t] = n]  D == CallsOf(g)
<1>1. IsFiniteSet(A) /\ Cardinality(A) = n
  <2>0. ASSUME NEW a \in Int, a = 1 PROVE IsFiniteSet(a .. n) /\ Cardinality(a .. n) = n
    <3>1. n \in Int OBVIOUS
    <3>2. IsFiniteSet(a .. n) BY <3>1, FS_Interval
    <3>3. Cardinality(a .. n) = IF a > n THEN 0 ELSE n - a + 1 BY <3>1, FS_Interval
    <3> QED BY <2>0, <3>2, <3>3
  <2>1. IsFiniteSet(1 .. n) /\ Cardinality(1 .. n) = n BY <2>0
  <2>2. IsFiniteSet({t}) /\ Cardinality({t}) = 1 BY FS_Singleton
  <2>3. IsFiniteSet(A) /\ Cardinality(A) = 1 * n BY <2>1, <2>2, FS_Product
  <2> QED BY <2>3
<1>2. IsFiniteSet(C) /\ Cardinality(C) \in Nat BY CallsFinite
<1>0. g[t] = n /\ \A u \in Flushers : u # t => g[u] = td[u] OBVIOUS
<1> HIDE DEF g
<1>3. D = C \cup A
  <2>1. ASSUME NEW e \in D PROVE e \in C \cup A
    <3>0. PICK u \in Flushers : \E k \in 1 .. g[u] : e = <<u, k>> BY <2>1, CallsHas
    <3>1. PICK k \in 1 .. g[u] : e = <<u, k>> BY <3>0
    <3> QED BY <1>0, <3>1, CallsHas
  <2>2. ASSUME NEW e \in C PROVE e \in D
    <3>0. PICK u \in Flushers : \E k \in 1 .. td[u] : e = <<u, k>> BY <2>2, CallsHas
    <3>1. PICK k \in 1 .. td[u] : e = <<u, k>> BY <3>0
    <3>2. u # t BY <1>0, <3>1
    <3> QED BY <1>0, <3>1, <3>2, CallsHas
  <2>3. ASSUME NEW e \in A PROVE e \in D
    <3>1. PICK k \in 1 .. n : e = <<t, k>> BY <2>3
    <3> QED BY <1>0, <3>1, CallsHas
  <2> QED BY <2>1, <2>2, <2>3
<1>4. C \cap A = {}
  <2>1. ASSUME NEW e \in C, e \in A PROVE FALSE
    <3>1. PICK k \in 1 .. n : e = <<t, k>> BY <2>1
    <3>2. k \in 1 .. td[t] BY <2>1, <3>1, CallsHas
    <3> QED BY <3>2
  <2> QED BY <2>1
<1>5. Cardinality(C \cap A) = 0 BY <1>4, FS_EmptySet
<1> HIDE DEF A, C, D
<1>6. Cardinality(D) = Cardinality(C) + Cardinality(A) - Cardinality(C \cap A)
  BY <1>1, <1>2, <1>3, FS_Union
<1>7. Cardinality(D) = Cardinality(C) + n BY <1>1, <1>2, <1>5, <1>6
<1> QED BY <1>7 DEF C, D, g

\* A notify_one is one call less.
LEMMA CallsTaken ==
  ASSUME NEW td \in [Flushers -> Nat], NEW t \in Flushers, td[t] > 0
  PROVE  Cardinality(CallsOf([td EXCEPT ![t] = @ - 1])) = Cardinality(CallsOf(td)) - 1
<1> DEFINE e0 == <<t, td[t]>>  C == CallsOf(td)  g == [td EXCEPT ![t] = @ - 1]  D == CallsOf(g)
<1>1. IsFiniteSet(C) BY CallsFinite
<1>2. e0 \in C BY CallsHas
<1>0. g[t] = td[t] - 1 /\ \A u \in Flushers : u # t => g[u] = td[u] OBVIOUS
<1> HIDE DEF g
<1>3. D = C \ {e0}
  <2>1. ASSUME NEW e \in D PROVE e \in C \ {e0}
    <3>0. PICK u \in Flushers : \E k \in 1 .. g[u] : e = <<u, k>> BY <2>1, CallsHas
    <3>1. PICK k \in 1 .. g[u] : e = <<u, k>> BY <3>0
    <3>2. k \in 1 .. td[u] /\ (u = t => k # td[t]) BY <1>0, <3>1
    <3> QED BY <1>0, <3>1, <3>2, CallsHas
  <2>2. ASSUME NEW e \in C, e # e0 PROVE e \in D
    <3>0. PICK u \in Flushers : \E k \in 1 .. td[u] : e = <<u, k>> BY <2>2, CallsHas
    <3>1. PICK k \in 1 .. td[u] : e = <<u, k>> BY <3>0
    <3>2. k \in 1 .. g[u] BY <1>0, <2>2, <3>1
    <3> QED BY <1>0, <3>1, <3>2, CallsHas
  <2> QED BY <2>1, <2>2
<1> HIDE DEF C, D, e0
<1>4. Cardinality(D) = Cardinality(C) - 1 BY <1>1, <1>2, <1>3, FS_RemoveElement
<1> QED BY <1>4 DEF C, D, g

(***************************************************************************)
(* The invariant in these terms, before and after a step.                  *)
(***************************************************************************)
\* Accounting, by places.
LEMMA AccountIs == ASSUME TypeOK, Accounting PROVE idle + notify = Num(InWait) /\ total = Num(Living)
<1>1. Waiting = {v \in Workers : wst[v] \in InWait} /\ Alive = {v \in Workers : wst[v] \in Living}
  BY DEF Waiting, Alive, In, InWait, Living, TypeOK
<1> QED BY <1>1 DEF Accounting, Num, Count

\* Accounting after a step, by places.
LEMMA AccountNext ==
  ASSUME TypeOK', idle' + notify' = Count(wst', InWait), total' = Count(wst', Living)
  PROVE  Accounting'
<1>1. Waiting' = {v \in Workers : wst'[v] \in InWait} BY DEF Waiting, In, InWait
<1>2. Alive' = {v \in Workers : wst'[v] \in Living} BY DEF Alive, In, Living, TypeOK
<1> QED BY <1>1, <1>2 DEF Accounting, Count

\* ClaimsReach, by places.
LEMMA ClaimsIs == ClaimsReach => notify <= Num(Back) + Cardinality(CallsOf(todo))
BY ComingIs DEF ClaimsReach, Num, Count, Back, In

\* ClaimsReach after a step, by places.
LEMMA ClaimsNext ==
  ASSUME notify' <= Count(wst', Back) + Cardinality(CallsOf(todo')) PROVE ClaimsReach'
<1>1. In({"woken", "expired"})' = {v \in Workers : wst'[v] \in Back} BY DEF In, Back
<1> QED BY <1>1, ComingIs DEF ClaimsReach, Count

(***************************************************************************)
(* A worker's turn.                                                        *)
(***************************************************************************)
\* What is left for a turn to keep the invariant: its places add up, a claim it
\* took leaves enough workers back from the wait, and a job it leaves queued is
\* still looked after.
TurnFits(w, i) ==
  /\ notify' \in Nat
  /\ i + notify' = Num(InWait) - Has(wst[w], InWait)
  /\ notify' <= Num(Back) - Has(wst[w], Back) + Cardinality(CallsOf(todo))
  /\ Flushed /\ ~closed /\ queue > 0 =>
       queue - 1 <= notify' \/ recheck # "none" \/ (total = Ceiling /\ i = 0)

\* worker_loop's outer loop, wherever it is entered from.
LEMMA TurnKeeps ==
  ASSUME PoolInv, NEW w \in Workers, wst[w] \in Living, NEW i \in Nat, Turn(w, i), TurnFits(w, i),
         UNCHANGED outside
  PROVE  PoolInv'
<1>1. TypeOK /\ Accounting /\ WithinBounds /\ NotStranded /\ ClaimsReach /\ DrainedOnDrop
  BY DEF PoolInv, PoolExact, JobsReached
<1>2. total = Num(Living) BY <1>1, AccountIs
<1>3. Turned(notify') BY <1>1, <1>2, TurnCounts DEF TurnFits
<1>4. TypeOK' BY <1>1, <1>3 DEF TypeOK, Turned, TurnFits, WorkerStates, outside, flushVars, loopVars
<1>5. Accounting' BY <1>3, <1>4, AccountNext DEF Turned
<1>6. \/ queue > 0 /\ queue' = queue - 1 /\ total' = total /\ idle' = i
      \/ queue = 0 /\ closed /\ queue' = 0 /\ total' = total - 1
      \/ queue = 0 /\ ~closed /\ queue' = 0 /\ total' = total
  BY DEF Turn, TurnRun, TurnExit, TurnPark
<1>7. /\ UNCHANGED <<closed, built, recheck, pending, sub, todo, loop>>
  BY DEF outside, flushVars, loopVars
<1>8. total \in Nat /\ queue \in Nat /\ notify' \in Nat /\ total > 0
  <2>1. w \in In(Living) BY DEF In
  <2>2. Cardinality(In(Living)) # 0 BY <2>1, NumType, FS_EmptySet
  <2>3. Num(Living) = Cardinality(In(Living)) BY DEF Num, Count, In
  <2> QED BY <1>1, <1>2, <2>2, <2>3 DEF TypeOK, TurnFits
<1>9. WithinBounds' BY <1>1, <1>6, <1>7 DEF WithinBounds
<1>10. NotStranded'
  <2>1. SUFFICES ASSUME Flushed, ~closed, queue' > notify', recheck = "none"
                 PROVE  total' = Ceiling /\ idle' = 0
    <3>1. queue' \in Nat /\ notify' \in Nat BY <1>4 DEF TypeOK
    <3>2. Flushed' <=> Flushed BY <1>7 DEF Flushed
    <3> QED BY <1>7, <3>1, <3>2 DEF NotStranded
  <2>2. queue > 0 /\ queue' = queue - 1 /\ total' = total /\ idle' = i
    BY <1>6, <1>8, <2>1
  <2> QED BY <1>8, <2>1, <2>2 DEF TurnFits
<1>11. ClaimsReach'
  <2>1. Count(wst', Back) >= Num(Back) - Has(wst[w], Back) BY <1>1, TurnBack
  <2>2. Num(Back) \in Nat /\ Count(wst', Back) \in Nat /\ Has(wst[w], Back) \in {0, 1}
    BY NumType, CountType DEF Has
  <2>3. Cardinality(CallsOf(todo)) \in Nat BY <1>1, CallsFinite DEF TypeOK
  <2>4. notify' <= Num(Back) - Has(wst[w], Back) + Cardinality(CallsOf(todo)) BY DEF TurnFits
  <2>5. notify' <= Count(wst', Back) + Cardinality(CallsOf(todo))
    BY <1>8, <2>1, <2>2, <2>3, <2>4
  <2> QED BY <1>7, <2>5, ClaimsNext
<1>12. DrainedOnDrop' BY <1>1, <1>6, <1>7, <1>8 DEF DrainedOnDrop
<1>13. Unbuilt'
  <2>1. built BY DEF PoolInv, Unbuilt, Living
  <2> QED BY <1>7, <2>1 DEF Unbuilt
<1>14. TodoOwned' BY <1>7 DEF PoolInv, TodoOwned
<1> QED BY <1>4, <1>5, <1>9, <1>10, <1>11, <1>12, <1>13, <1>14 DEF PoolInv, PoolExact, JobsReached

\* A worker that starts, that comes out of a job, or that comes back claimed or
\* unclaimed, takes a turn that fits.
LEMMA TurnsStep ==
  ASSUME PoolInv, NEW w \in Workers, WorkerStart(w) \/ Finish(w) \/ Claimed(w) \/ Unclaimed(w)
  PROVE  PoolInv'
<1>1. TypeOK /\ Accounting /\ NotStranded /\ ClaimsReach BY DEF PoolInv, PoolExact, JobsReached
<1>2. idle + notify = Num(InWait) /\ total = Num(Living) BY <1>1, AccountIs
<1>3. notify <= Num(Back) + Cardinality(CallsOf(todo)) BY <1>1, ClaimsIs
<1>4. Num(InWait) \in Nat /\ Num(Back) \in Nat BY NumType
<1>5. Cardinality(CallsOf(todo)) \in Nat BY <1>1, CallsFinite DEF TypeOK
<1>6. idle \in Nat /\ notify \in Nat /\ queue \in Nat BY <1>1 DEF TypeOK
<1>7. Flushed /\ ~closed => queue <= notify \/ recheck # "none" \/ (total = Ceiling /\ idle = 0)
  BY <1>1 DEF NotStranded
<1>8. CASE WorkerStart(w) \/ Finish(w)
  <2>1. wst[w] \in {"start", "fresh", "stale"} /\ notify' = notify /\ Turn(w, idle) /\ UNCHANGED outside
    BY <1>8 DEF WorkerStart, Finish, Running, In
  <2>2. wst[w] \in Living /\ Has(wst[w], InWait) = 0 /\ Has(wst[w], Back) = 0
    BY <2>1 DEF Living, Has, InWait, Back
  <2>3. TurnFits(w, idle) BY <1>2, <1>3, <1>4, <1>5, <1>6, <1>7, <2>1, <2>2 DEF TurnFits
  <2> QED BY <1>6, <2>1, <2>2, <2>3, TurnKeeps
<1>9. CASE Claimed(w)
  <2>1. /\ wst[w] \in {"woken", "expired"} /\ notify > 0 /\ notify' = notify - 1 /\ Turn(w, idle)
        /\ UNCHANGED outside
    BY <1>9 DEF Claimed
  <2>2. wst[w] \in Living /\ Has(wst[w], InWait) = 1 /\ Has(wst[w], Back) = 1
    BY <2>1 DEF Living, Has, InWait, Back
  <2>3. TurnFits(w, idle) BY <1>2, <1>3, <1>4, <1>5, <1>6, <1>7, <2>1, <2>2 DEF TurnFits
  <2> QED BY <1>6, <2>1, <2>2, <2>3, TurnKeeps
<1>10. CASE Unclaimed(w)
  <2>1. /\ wst[w] \in {"woken", "expired"} /\ notify = 0 /\ notify' = 0 /\ (queue > 0 \/ closed)
        /\ Turn(w, idle - 1) /\ UNCHANGED outside
    BY <1>10 DEF Unclaimed
  <2>2. wst[w] \in Living /\ Has(wst[w], InWait) = 1 /\ Has(wst[w], Back) = 1
    BY <2>1 DEF Living, Has, InWait, Back
  <2>3. Num(InWait) > 0 /\ Num(Back) > 0
    <3>1. w \in In(InWait) /\ w \in In(Back) BY <2>1 DEF In, InWait, Back
    <3>2. Cardinality(In(InWait)) # 0 /\ Cardinality(In(Back)) # 0 BY <3>1, NumType, FS_EmptySet
    <3>3. Num(InWait) = Cardinality(In(InWait)) /\ Num(Back) = Cardinality(In(Back))
      BY DEF Num, Count, In
    <3> QED BY <1>4, <3>2, <3>3
  <2>4. idle - 1 \in Nat /\ idle # 0 BY <1>2, <1>4, <1>6, <2>1, <2>3
  <2>5. TurnFits(w, idle - 1)
    BY <1>2, <1>4, <1>5, <1>6, <1>7, <2>1, <2>2, <2>3, <2>4 DEF TurnFits
  <2> QED BY <2>1, <2>2, <2>4, <2>5, TurnKeeps
<1> QED BY <1>8, <1>9, <1>10

(***************************************************************************)
(* The wait.                                                               *)
(***************************************************************************)
\* What a step that leaves the jobs, the counters and the flushers alone keeps.
LEMMA QuietKeeps ==
  ASSUME PoolInv, UNCHANGED <<outside, inner>>, wst' \in [Workers -> WorkerStates],
         dropper' \in {"none", "wait", "woken", "returned"},
         Count(wst', InWait) = Num(InWait), Count(wst', Living) = Num(Living),
         notify <= Count(wst', Back) + Cardinality(CallsOf(todo)),
         built \/ UNCHANGED wst
  PROVE  PoolInv'
<1>1. TypeOK /\ Accounting BY DEF PoolInv, PoolExact
<1>2. UNCHANGED <<built, closed, queue, total, idle, notify, recheck, pending, sub, todo, loop>>
  BY DEF outside, inner, flushVars, loopVars
<1>3. TypeOK' BY <1>1 DEF TypeOK, WorkerStates, outside, inner, flushVars, loopVars
<1>4. Accounting' BY <1>1, <1>2, <1>3, AccountIs, AccountNext
<1>5. ClaimsReach' BY <1>2, ClaimsNext
<1>6. NotStranded' BY <1>2 DEF PoolInv, JobsReached, NotStranded, Flushed
<1>7. WithinBounds' /\ DrainedOnDrop' BY <1>2 DEF PoolInv, PoolExact, JobsReached, WithinBounds, DrainedOnDrop
<1>8. Unbuilt' BY <1>2 DEF PoolInv, Unbuilt
<1>9. TodoOwned' BY <1>2 DEF PoolInv, TodoOwned
<1> QED BY <1>3, <1>4, <1>5, <1>6, <1>7, <1>8, <1>9 DEF PoolInv, PoolExact, JobsReached

\* A job that ages, and a worker that leaves the wait or goes back to it.
LEMMA WaitStep ==
  ASSUME PoolInv, NEW w \in Workers, Age(w) \/ Spurious(w) \/ Timeout(w) \/ WaitAgain(w)
  PROVE  PoolInv'
<1>1. TypeOK /\ ClaimsReach BY DEF PoolInv, PoolExact, JobsReached
<1>2. wst \in [Workers -> WorkerStates] /\ dropper \in {"none", "wait", "woken", "returned"}
  BY <1>1 DEF TypeOK, WorkerStates
<1>3. PICK x \in WorkerStates :
        /\ wst' = [wst EXCEPT ![w] = x] /\ UNCHANGED <<outside, inner, dropper>>
        /\ wst[w] \in Living /\ x \in Living /\ (x \in InWait <=> wst[w] \in InWait)
        /\ notify = 0 \/ (wst[w] \in Back => x \in Back)
  <2>1. CASE Age(w) BY <2>1 DEF Age, WorkerStates, Living, InWait, Back
  <2>2. CASE Spurious(w) BY <2>2 DEF Spurious, Parked, In, WorkerStates, Living, InWait, Back
  <2>3. CASE Timeout(w) BY <2>3 DEF Timeout, WorkerStates, Living, InWait, Back
  <2>4. CASE WaitAgain(w)
    <3>1. ParkAs \in {"wait", "timed"} BY DEF ParkAs
    <3> QED BY <2>4, <3>1 DEF WaitAgain, WorkerStates, Living, InWait, Back
  <2> QED BY <2>1, <2>2, <2>3, <2>4
<1>4. /\ wst' \in [Workers -> WorkerStates] /\ wst'[w] = x
      /\ \A v \in Workers : v # w => wst'[v] = wst[v]
  BY <1>2, <1>3
<1>5. built BY <1>3 DEF PoolInv, Unbuilt, Living
<1>6. Num(InWait) \in Nat /\ Num(Living) \in Nat /\ Num(Back) \in Nat BY NumType
<1>7. Count(wst', InWait) = Num(InWait)
  <2>1. Count(wst', InWait) = Num(InWait) - Has(wst[w], InWait) + Has(wst'[w], InWait)
    BY <1>4, MoveOne DEF Num
  <2> QED BY <1>3, <1>4, <1>6, <2>1 DEF Has
<1>8. Count(wst', Living) = Num(Living)
  <2>1. Count(wst', Living) = Num(Living) - Has(wst[w], Living) + Has(wst'[w], Living)
    BY <1>4, MoveOne DEF Num
  <2> QED BY <1>3, <1>4, <1>6, <2>1 DEF Has
<1>9. notify <= Count(wst', Back) + Cardinality(CallsOf(todo))
  <2>1. Count(wst', Back) \in Nat /\ Cardinality(CallsOf(todo)) \in Nat /\ notify \in Nat
    BY <1>1, CountType, CallsFinite DEF TypeOK
  <2>2. CASE notify = 0 BY <2>1, <2>2
  <2>3. CASE wst[w] \in Back => x \in Back
    <3>1. \A v \in Workers : wst[v] \in Back => wst'[v] \in Back BY <1>4, <2>3
    <3>2. Num(Back) <= Count(wst', Back) BY <3>1, MoveNone DEF Num
    <3>3. notify <= Num(Back) + Cardinality(CallsOf(todo)) BY <1>1, ClaimsIs
    <3> QED BY <1>6, <2>1, <3>2, <3>3
  <2> QED BY <1>3, <2>2, <2>3
<1> QED BY <1>2, <1>3, <1>4, <1>5, <1>7, <1>8, <1>9, QuietKeeps

\* A worker that retires leaves at least the floor, no job and no claim behind.
LEMMA RetireStep == ASSUME PoolInv, NEW w \in Workers, Retire(w) PROVE PoolInv'
<1>1. TypeOK /\ Accounting BY DEF PoolInv, PoolExact
<1>2. /\ wst[w] = "expired" /\ notify = 0 /\ queue = 0 /\ ~closed /\ total > Floor
      /\ idle' = idle - 1 /\ total' = total - 1
      /\ wst' = NotifyAll([wst EXCEPT ![w] = "none"]) /\ dropper' = DropperHears
      /\ UNCHANGED <<outside, queue, notify>>
  BY DEF Retire
<1>3. idle + notify = Num(InWait) /\ total = Num(Living) BY <1>1, AccountIs
<1>4. /\ wst \in [Workers -> WorkerStates] /\ idle \in Nat /\ total \in Nat
      /\ dropper \in {"none", "wait", "woken", "returned"}
  BY <1>1 DEF TypeOK, WorkerStates
<1> DEFINE f == [wst EXCEPT ![w] = "none"]
<1>5. f \in [Workers -> WorkerStates] /\ f[w] = "none" /\ \A v \in Workers : v # w => f[v] = wst[v]
  BY <1>4 DEF WorkerStates
<1>6. wst' = NotifyAll(f) BY <1>2
<1> HIDE DEF f
<1>7. /\ wst' \in [Workers -> WorkerStates]
      /\ \A v \in Workers : wst'[v] = IF f[v] \in {"wait", "timed"} THEN "woken" ELSE f[v]
  BY <1>5, <1>6, NotifyAllIs
<1>8. Num(InWait) \in Nat /\ Num(Living) \in Nat BY NumType
<1>9. Count(wst', InWait) = Num(InWait) - 1
  <2>1. \A v \in Workers : v # w => (wst'[v] \in InWait <=> wst[v] \in InWait)
    BY <1>5, <1>7 DEF InWait
  <2>2. Has(wst'[w], InWait) = 0 /\ Has(wst[w], InWait) = 1 BY <1>2, <1>5, <1>7 DEF Has, InWait
  <2>3. Count(wst', InWait) = Num(InWait) - Has(wst[w], InWait) + Has(wst'[w], InWait)
    BY <2>1, MoveOne DEF Num
  <2> QED BY <1>8, <2>2, <2>3
<1>10. Count(wst', Living) = Num(Living) - 1
  <2>1. \A v \in Workers : v # w => (wst'[v] \in Living <=> wst[v] \in Living)
    BY <1>5, <1>7 DEF Living
  <2>2. Has(wst'[w], Living) = 0 /\ Has(wst[w], Living) = 1 BY <1>2, <1>5, <1>7 DEF Has, Living
  <2>3. Count(wst', Living) = Num(Living) - Has(wst[w], Living) + Has(wst'[w], Living)
    BY <2>1, MoveOne DEF Num
  <2> QED BY <1>8, <2>2, <2>3
<1>11. Count(wst', InWait) \in Nat /\ Count(wst', Living) \in Nat BY CountType
<1>12. idle' \in Nat /\ total' \in Nat BY <1>2, <1>3, <1>4, <1>8, <1>9, <1>10, <1>11
<1>13. /\ UNCHANGED <<built, closed, queue, notify, cool, made, next, poked, recheck, pending, sub, todo, loop>>
  BY <1>2 DEF outside, flushVars, loopVars
<1>14. dropper' \in {"none", "wait", "woken", "returned"} BY <1>2, <1>4 DEF DropperHears
<1>15. TypeOK' BY <1>1, <1>7, <1>12, <1>13, <1>14 DEF TypeOK, WorkerStates
<1>16. Accounting'
  <2>1. idle' + notify' = Count(wst', InWait) /\ total' = Count(wst', Living)
    BY <1>2, <1>3, <1>4, <1>8, <1>9, <1>10
  <2> QED BY <1>15, <2>1, AccountNext
<1>17. WithinBounds'
  <2>1. Floor \in Nat /\ Ceiling \in Nat BY PoolAssumption
  <2> QED BY <1>2, <1>4, <1>13, <2>1 DEF PoolInv, PoolExact, WithinBounds
<1>18. NotStranded' /\ DrainedOnDrop' BY <1>2, <1>13 DEF NotStranded, DrainedOnDrop
<1>19. ClaimsReach'
  <2>1. Count(wst', Back) \in Nat /\ Cardinality(CallsOf(todo')) \in Nat
    BY <1>15, CountType, CallsFinite DEF TypeOK
  <2> QED BY <1>2, <2>1, ClaimsNext
<1>20. Unbuilt'
  <2>1. built BY <1>2 DEF PoolInv, Unbuilt
  <2> QED BY <1>13, <2>1 DEF Unbuilt
<1>21. TodoOwned' BY <1>13 DEF PoolInv, TodoOwned
<1> QED BY <1>15, <1>16, <1>17, <1>18, <1>19, <1>20, <1>21 DEF PoolInv, PoolExact, JobsReached

(***************************************************************************)
(* WorkerPool::drop.                                                       *)
(***************************************************************************)
\* Waking every parked worker changes who is back from the wait, and nothing else.
LEMMA AllWoken ==
  ASSUME TypeOK, wst' = NotifyAll(wst)
  PROVE  /\ wst' \in [Workers -> WorkerStates]
         /\ Count(wst', InWait) = Num(InWait) /\ Count(wst', Living) = Num(Living)
         /\ Count(wst', Back) >= Num(Back)
<1>1. wst \in [Workers -> WorkerStates] BY DEF TypeOK, WorkerStates
<1>2. /\ wst' \in [Workers -> WorkerStates]
      /\ \A v \in Workers : wst'[v] = IF wst[v] \in {"wait", "timed"} THEN "woken" ELSE wst[v]
  BY <1>1, NotifyAllIs
<1>3. Num(InWait) \in Nat /\ Num(Living) \in Nat /\ Num(Back) \in Nat BY NumType
<1>4. Count(wst', InWait) \in Nat /\ Count(wst', Living) \in Nat /\ Count(wst', Back) \in Nat BY CountType
<1>5. \A v \in Workers : wst'[v] \in InWait <=> wst[v] \in InWait BY <1>2 DEF InWait
<1>6. \A v \in Workers : wst'[v] \in Living <=> wst[v] \in Living BY <1>2 DEF Living
<1>7. \A v \in Workers : wst[v] \in Back => wst'[v] \in Back BY <1>2 DEF Back
<1>8. Count(wst', InWait) <= Num(InWait) /\ Num(InWait) <= Count(wst', InWait) BY <1>5, MoveNone DEF Num
<1>9. Count(wst', Living) <= Num(Living) /\ Num(Living) <= Count(wst', Living) BY <1>6, MoveNone DEF Num
<1>10. Num(Back) <= Count(wst', Back) BY <1>7, MoveNone DEF Num
<1> QED BY <1>2, <1>3, <1>4, <1>8, <1>9, <1>10

\* A drop closes the pool over at least its floor of workers, or again.
LEMMA DropStep ==
  ASSUME PoolInv, Drop \/ \E w \in Workers : DropOnWorker(w)
  PROVE  PoolInv'
<1>1. TypeOK /\ Accounting /\ WithinBounds /\ ClaimsReach /\ DrainedOnDrop
  BY DEF PoolInv, PoolExact, JobsReached
<1>2. /\ built /\ closed' = TRUE /\ wst' = NotifyAll(wst) /\ dropper' \in {"wait", "returned"}
      /\ UNCHANGED <<built, queue, total, idle, notify, cool, recheck, made, sub, todo, next, loop, pending, poked>>
  BY DEF Drop, DropOnWorker, LastHandle, flushVars, loopVars
<1>3. wst' \in [Workers -> WorkerStates] BY <1>1, <1>2, AllWoken
<1>4. Count(wst', InWait) = Num(InWait) /\ Count(wst', Living) = Num(Living) BY <1>1, <1>2, AllWoken
<1>5. TypeOK' BY <1>1, <1>2, <1>3 DEF TypeOK, WorkerStates
<1>6. Accounting' BY <1>1, <1>2, <1>4, <1>5, AccountIs, AccountNext
<1>7. WithinBounds' /\ NotStranded' BY <1>2 DEF WithinBounds, NotStranded
<1>8. ClaimsReach'
  <2>1. Count(wst', Back) >= Num(Back) BY <1>1, <1>2, AllWoken
  <2>2. Count(wst', Back) \in Nat /\ Num(Back) \in Nat /\ Cardinality(CallsOf(todo)) \in Nat /\ notify \in Nat
    BY <1>1, CountType, NumType, CallsFinite DEF TypeOK
  <2>3. notify <= Num(Back) + Cardinality(CallsOf(todo)) BY <1>1, ClaimsIs
  <2>4. notify <= Count(wst', Back) + Cardinality(CallsOf(todo)) BY <2>1, <2>2, <2>3
  <2> QED BY <1>2, <2>4, ClaimsNext
<1>9. DrainedOnDrop'
  <2>1. CASE closed BY <1>1, <1>2, <2>1 DEF DrainedOnDrop
  <2>2. CASE ~closed
    <3>1. total # 0 BY <1>1, <1>2, <2>2, PoolAssumption DEF WithinBounds, TypeOK
    <3> QED BY <1>2, <3>1 DEF DrainedOnDrop
  <2> QED BY <2>1, <2>2
<1>10. Unbuilt' BY <1>2 DEF Unbuilt
<1>11. TodoOwned' BY <1>2 DEF PoolInv, TodoOwned
<1> QED BY <1>5, <1>6, <1>7, <1>8, <1>9, <1>10, <1>11 DEF PoolInv, PoolExact, JobsReached

\* A step that leaves the workers, the jobs and the flushers alone.
LEMMA SameKeeps ==
  ASSUME PoolInv, UNCHANGED <<outside, inner, wst>>, dropper' \in {"none", "wait", "woken", "returned"}
  PROVE  PoolInv'
<1>1. TypeOK /\ ClaimsReach BY DEF PoolInv, PoolExact, JobsReached
<1>2. wst' = wst /\ wst' \in [Workers -> WorkerStates] BY <1>1 DEF TypeOK, WorkerStates
<1>3. Count(wst', InWait) = Num(InWait) /\ Count(wst', Living) = Num(Living) BY <1>2 DEF Num
<1>4. notify <= Count(wst', Back) + Cardinality(CallsOf(todo)) BY <1>1, <1>2, ClaimsIs DEF Num
<1> QED BY <1>2, <1>3, <1>4, QuietKeeps
=============================================================================
