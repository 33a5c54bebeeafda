-------------------------- MODULE CredBrokerProofs --------------------------
(***************************************************************************)
(* Proofs about CredBroker: a reply reaches the request it answers, and no *)
(* personality is left behind on a socket in step, for any number of       *)
(* threads, identities and personalities, whatever the child does.         *)
(***************************************************************************)
EXTENDS CredBroker, TLAPS

\* What is known of the constants: personalities count from 1, and the values
\* that stand for nobody are nobody's.
Known == Ids \subseteq Nat \ {0} /\ NoUser \notin Users /\ NoThread \notin Threads

(***************************************************************************)
(* The socket pair, with one message at most.                              *)
(***************************************************************************)
\* Queues of no and of one message.
LEMMA OneMessage ==
  ASSUME NEW x
  PROVE  /\ Append(<<>>, x) = <<x>> /\ Head(<<x>>) = x /\ Tail(<<x>>) = <<>> /\ <<x>> # <<>>
         /\ \A y : <<x>> = <<y>> => x = y
OBVIOUS

\* A step that leaves the socket and the child alone.
pipe == <<toChild, fromChild, child, answer>>

\* Then the request under way is where it was.
LEMMA PipeSame ==
  ASSUME UNCHANGED pipe
  PROVE  /\ Quiet' <=> Quiet
         /\ \A r : (toChild' = <<r>> /\ child' = "idle" /\ fromChild' = <<>>) <=> Sent(r)
         /\ \A a : (/\ toChild' = <<>>
                    /\ \/ child' = "answer" /\ answer' = a /\ fromChild' = <<>>
                       \/ child' # "answer" /\ fromChild' = <<a>>) <=> Answered(a)
BY DEF pipe, Quiet, Sent, Answered

(***************************************************************************)
(* What a step has to show of leases and of retirements.                   *)
(***************************************************************************)
\* Nobody comes to own or to retire anything.
LEMMA KeepOwned ==
  ASSUME Owned, RetiredOnce, UNCHANGED reg,
         \A u \in Threads, p \in Leases : Owns(u, p)' => Owns(u, p),
         \A u \in Threads, i \in Ids : Retires(u, i)' => Retires(u, i),
         \A i \in Ids : Orphan(i)' => Orphan(i)
  PROVE  Owned' /\ RetiredOnce'
<1>1. Owned'
  <2>1. \A t \in Threads, p \in Leases : Owns(t, p)' => reg'[p.id] = p.who BY DEF Owned
  <2>2. \A t, u \in Threads, p, q \in Leases : Owns(t, p)' /\ Owns(u, q)' /\ p.id = q.id => t = u
    BY DEF Owned
  <2> QED BY <2>1, <2>2 DEF Owned, Leases
<1>2. RetiredOnce'
  <2>1. SUFFICES ASSUME NEW i \in Ids
        PROVE  /\ \A t \in Threads : Retires(t, i)' \/ Orphan(i)' =>
                    reg'[i] # NoUser /\ \A u \in Threads, p \in Leases : Owns(u, p)' => p.id # i
               /\ \A t, u \in Threads : Retires(t, i)' => ~Orphan(i)' /\ (Retires(u, i)' => t = u)
    BY DEF RetiredOnce, Leases
  <2>2. /\ \A t \in Threads : Retires(t, i) \/ Orphan(i) =>
             reg[i] # NoUser /\ \A u \in Threads, p \in Leases : Owns(u, p) => p.id # i
        /\ \A t, u \in Threads : Retires(t, i) => ~Orphan(i) /\ (Retires(u, i) => t = u)
    BY DEF RetiredOnce
  <2> QED BY <2>2
<1> QED BY <1>1, <1>2

\* Nobody gives anything up, or nothing is promised any more.
LEMMA KeepAccounted ==
  ASSUME Accounted, UNCHANGED reg,
         \/ desynced' \/ child' = "dead"
         \/ /\ ~desynced /\ child # "dead"
            /\ \A u \in Threads, p \in Leases : Owns(u, p) => Owns(u, p)'
            /\ \A u \in Threads, i \in Ids : Retires(u, i) => Retires(u, i)'
  PROVE  Accounted'
<1>1. SUFFICES ASSUME ~desynced', child' # "dead", NEW i \in Ids, reg'[i] # NoUser
               PROVE  \E t \in Threads : Retires(t, i)' \/ (\E p \in Leases : p.id = i /\ Owns(t, p)')
  BY DEF Accounted, Leases
<1>2. \E t \in Threads : Retires(t, i) \/ (\E p \in Leases : p.id = i /\ Owns(t, p))
  BY <1>1 DEF Accounted
<1> QED BY <1>1, <1>2

(***************************************************************************)
(* A thread's request.                                                     *)
(***************************************************************************)
Places == {"none", "lock", "send", "recv", "done"}
Calls  == [st : Places, op : {"register", "unregister"}, who : Users \cup {NoUser}, id : Ids \cup {0}, res : Answers]

\* Thread t goes to place st with the result res, with the same request.
Goes(t, st, res) ==
  /\ req' \in [Threads -> Calls] /\ \A u \in Threads : u # t => req'[u] = req[u]
  /\ req'[t].st = st /\ req'[t].res = res
  /\ req'[t].op = req[t].op /\ req'[t].who = req[t].who /\ req'[t].id = req[t].id

\* Goto and Finish are such moves.
LEMMA GotoIs ==
  ASSUME BrokerType, NEW t \in Threads, NEW place \in Places, Goto(t, place)
  PROVE  Goes(t, place, req[t].res)
<1>1. req \in [Threads -> Calls] BY DEF BrokerType, Calls, Places
<1>2. req' = [req EXCEPT ![t] = [req[t] EXCEPT !.st = place]] BY <1>1 DEF Goto
<1> DEFINE x == [req[t] EXCEPT !.st = place]
<1>3. /\ x \in Calls /\ x.st = place /\ x.res = req[t].res
      /\ x.op = req[t].op /\ x.who = req[t].who /\ x.id = req[t].id
  BY <1>1 DEF Calls
<1> HIDE DEF x
<1>4. req' \in [Threads -> Calls] /\ req'[t] = x /\ \A u \in Threads : u # t => req'[u] = req[u]
  BY <1>1, <1>2, <1>3 DEF x
<1> QED BY <1>3, <1>4 DEF Goes

\* Finish, with whatever the answer is.
LEMMA FinishIs ==
  ASSUME BrokerType, NEW t \in Threads, NEW r \in Answers, Finish(t, r)
  PROVE  Goes(t, "done", r) /\ sock' = NoThread
<1>1. req \in [Threads -> Calls] BY DEF BrokerType, Calls, Places
<1>2. req' = [req EXCEPT ![t].st = "done", ![t].res = r] /\ sock' = NoThread BY DEF Finish
<1> DEFINE x == [[req[t] EXCEPT !.st = "done"] EXCEPT !.res = r]
<1>3. /\ x \in Calls /\ x.st = "done" /\ x.res = r
      /\ x.op = req[t].op /\ x.who = req[t].who /\ x.id = req[t].id
  BY <1>1 DEF Calls, Places
<1>5. req' = [req EXCEPT ![t] = x] BY <1>1, <1>2
<1> HIDE DEF x
<1>4. req' \in [Threads -> Calls] /\ req'[t] = x /\ \A u \in Threads : u # t => req'[u] = req[u]
  BY <1>1, <1>3, <1>5
<1> QED BY <1>2, <1>3, <1>4 DEF Goes

\* A thread whose request and leases stay, and which the socket does not concern,
\* owns and retires what it did.
LEMMA OthersSame ==
  ASSUME NEW u, req'[u] = req[u], held'[u] = held[u], req[u].st # "recv" \/ UNCHANGED pipe
  PROVE  /\ \A p \in Leases : Owns(u, p)' <=> Owns(u, p)
         /\ \A i \in Ids : Retires(u, i)' <=> Retires(u, i)
<1>1. Asked(u)' = Asked(u) BY DEF Asked
<1>2. /\ req'[u].op = req[u].op /\ req'[u].who = req[u].who /\ req'[u].id = req[u].id
      /\ req'[u].st = req[u].st /\ req'[u].res = req[u].res
  OBVIOUS
<1>3. CASE req[u].st # "recv" BY <1>2, <1>3 DEF Owns, Retires, At
<1>4. CASE UNCHANGED pipe
  <2>1. \A p : Answered(p.id)' <=> Answered(p.id) BY <1>4 DEF Answered, pipe
  <2>2. Sent(Asked(u))' <=> Sent(Asked(u)) BY <1>1, <1>4 DEF Sent, pipe
  <2> QED BY <1>2, <2>1, <2>2 DEF Owns, Retires, At
<1> QED BY <1>3, <1>4

\* An abandoned request stays abandoned.
LEMMA OrphanSame == ASSUME UNCHANGED <<pipe, desynced>> PROVE \A i \in Ids : Orphan(i)' <=> Orphan(i)
BY DEF Orphan, Sent, pipe

\* Moves keep every request well formed.
LEMMA AskedKept ==
  ASSUME BrokerType, NEW t \in Threads, NEW st, NEW res, Goes(t, st, res), ~At(t, "none")
  PROVE  \A u \in Threads : Asked(u)' = Asked(u) /\ (~At(u, "none")' => Asked(u)' \in Requests)
<1> SUFFICES ASSUME NEW u \in Threads
             PROVE  Asked(u)' = Asked(u) /\ (~At(u, "none")' => Asked(u)' \in Requests)
  OBVIOUS
<1>1. CASE u = t
  <2>1. Asked(u)' = Asked(u) BY <1>1 DEF Asked, Goes
  <2> QED BY <1>1, <2>1 DEF BrokerType
<1>2. CASE u # t
  <2>1. req'[u] = req[u] BY <1>2 DEF Goes
  <2>2. Asked(u)' = Asked(u) BY <2>1 DEF Asked
  <2> QED BY <2>1, <2>2 DEF BrokerType, At
<1> QED BY <1>1, <1>2

\* The type after a move of t's.
LEMMA TypeKept ==
  ASSUME BrokerType, NEW t \in Threads, NEW st, NEW res, Goes(t, st, res), ~At(t, "none"),
         sock' \in Threads \cup {NoThread}, desynced' \in BOOLEAN, UNCHANGED <<kid, held>>
  PROVE  BrokerType'
<1>1. \A u \in Threads : ~At(u, "none")' => Asked(u)' \in Requests BY AskedKept
<1>2. UNCHANGED <<child, answer, reg, held>> BY DEF kid
<1>3. req' \in [Threads -> Calls] BY DEF Goes
<1> QED BY <1>1, <1>2, <1>3 DEF BrokerType, Calls, Places

\* The mutex is taken, or refused on a socket that is spent.
LEMMA LockStep == ASSUME Known, BrokerInv, NEW t \in Threads, Lock(t) PROVE BrokerInv'
<1>1. BrokerType /\ Mutex /\ OneOut /\ Owned /\ RetiredOnce /\ Accounted BY DEF BrokerInv
<1>2. At(t, "lock") /\ sock = NoThread /\ UNCHANGED <<desynced, toChild, fromChild, kid, held>>
  BY DEF Lock
<1>3. UNCHANGED <<pipe, reg, child, held>> BY <1>2 DEF pipe, kid
<1>4. Failed \in Answers /\ Failed \notin Ids BY DEF Known, Answers, Failed
<1>5. PICK st \in {"send", "done"}, res \in Answers :
        /\ Goes(t, st, res)
        /\ st = "send" => ~desynced /\ sock' = t
        /\ st = "done" => desynced /\ res = Failed /\ sock' = NoThread
  <2>1. CASE ~desynced /\ sock' = t /\ Goto(t, "send")
    <3>1. Goes(t, "send", req[t].res) BY <1>1, <2>1, GotoIs DEF Places
    <3>2. req[t].res \in Answers BY <1>1 DEF BrokerType
    <3> QED BY <2>1, <3>1, <3>2
  <2>2. CASE desynced /\ Finish(t, Failed) BY <1>1, <1>4, <2>2, FinishIs
  <2> QED BY <2>1, <2>2 DEF Lock
<1>6. /\ req'[t].st = st /\ req'[t].res = res /\ req'[t].op = req[t].op /\ req'[t].who = req[t].who
      /\ req'[t].id = req[t].id /\ \A u \in Threads : u # t => req'[u] = req[u]
  BY <1>5 DEF Goes
<1>7. BrokerType' BY <1>1, <1>2, <1>5, TypeKept DEF BrokerType, At
<1>8. Mutex' BY <1>1, <1>2, <1>5, <1>6 DEF Mutex, At, Known
<1>9. \A u \in Threads : Asked(u)' = Asked(u) BY <1>1, <1>2, <1>5, AskedKept DEF At
<1>10. OneOut'
  <2>1. \A u \in Threads : At(u, "recv")' <=> At(u, "recv") BY <1>2, <1>5, <1>6 DEF At
  <2>2. Quiet' <=> Quiet BY <1>3 DEF Quiet, pipe
  <2>3. \A r : Sent(r)' <=> Sent(r) BY <1>3 DEF Sent, pipe
  <2>4. \A a : Answered(a)' <=> Answered(a) BY <1>3 DEF Answered, pipe
  <2>5. \A u \in Threads : Sent(Asked(u))' <=> Sent(Asked(u)) BY <1>3, <1>9 DEF Sent, pipe
  <2> QED BY <1>1, <1>2, <1>3, <2>1, <2>2, <2>3, <2>4, <2>5 DEF OneOut
<1>11. \A u \in Threads, p \in Leases : Owns(u, p)' <=> Owns(u, p)
  <2>1. SUFFICES ASSUME NEW p \in Leases PROVE Owns(t, p)' <=> Owns(t, p)
    BY <1>3, <1>6, OthersSame
  <2>2. p.id \in Ids BY DEF Leases
  <2> QED BY <1>2, <1>4, <1>5, <1>6, <2>2 DEF Owns, At
<1>12. \A u \in Threads, i \in Ids : Retires(u, i)' => Retires(u, i)
  <2>1. SUFFICES ASSUME NEW i \in Ids PROVE Retires(t, i)' => Retires(t, i)
    BY <1>3, <1>6, OthersSame
  <2> QED BY <1>2, <1>5, <1>6 DEF Retires, At
<1>13. ~desynced => \A u \in Threads, i \in Ids : Retires(u, i) => Retires(u, i)'
  <2>1. SUFFICES ASSUME ~desynced, NEW i \in Ids PROVE Retires(t, i) => Retires(t, i)'
    BY <1>3, <1>6, OthersSame
  <2> QED BY <1>2, <1>5, <1>6, <2>1 DEF Retires, At
<1>14. \A i \in Ids : Orphan(i)' => Orphan(i) BY <1>2, <1>3, OrphanSame
<1>15. Owned' /\ RetiredOnce' BY <1>1, <1>3, <1>11, <1>12, <1>14, KeepOwned
<1>16. Accounted' BY <1>1, <1>2, <1>3, <1>11, <1>13, KeepAccounted
<1> QED BY <1>7, <1>8, <1>10, <1>15, <1>16 DEF BrokerInv

\* A thread about to send has the socket, which is in step and carries nothing.
LEMMA SendAlone ==
  ASSUME Known, BrokerInv, NEW t \in Threads, At(t, "send")
  PROVE  sock = t /\ ~desynced /\ Quiet /\ \A u \in Threads : u # t => req[u].st \notin {"send", "recv"}
<1>1. BrokerType /\ Mutex /\ OneOut BY DEF BrokerInv
<1>2. sock = t BY <1>1 DEF Mutex, At
<1>3. ~desynced BY <1>1, <1>2 DEF Mutex, Known
<1>4. \A u \in Threads : u # t => req[u].st \notin {"send", "recv"} BY <1>1, <1>2 DEF Mutex
<1>5. \A u \in Threads : ~At(u, "recv") BY <1>4 DEF At
<1>6. Quiet BY <1>1, <1>3, <1>5 DEF OneOut
<1> QED BY <1>2, <1>3, <1>4, <1>6

\* The request goes out.
LEMMA SendStep == ASSUME Known, BrokerInv, NEW t \in Threads, Send(t) PROVE BrokerInv'
<1>1. BrokerType /\ Mutex /\ OneOut /\ Owned /\ RetiredOnce /\ Accounted BY DEF BrokerInv
<1>2. /\ At(t, "send") /\ child # "dead" /\ toChild' = Append(toChild, Asked(t)) /\ Goto(t, "recv")
      /\ UNCHANGED <<sock, desynced, fromChild, kid, held>>
  BY DEF Send, Asked
<1>3. sock = t /\ ~desynced /\ Quiet /\ \A u \in Threads : u # t => req[u].st \notin {"send", "recv"}
  BY <1>2, SendAlone
<1>4. UNCHANGED <<child, answer, reg>> BY <1>2 DEF kid
<1>5. child = "idle" BY <1>1, <1>2, <1>3 DEF BrokerType, Quiet
<1>6. Goes(t, "recv", req[t].res) BY <1>1, <1>2, GotoIs DEF Places
<1>7. /\ req'[t].st = "recv" /\ req'[t].res = req[t].res /\ req'[t].op = req[t].op /\ req'[t].who = req[t].who
      /\ req'[t].id = req[t].id /\ \A u \in Threads : u # t => req'[u] = req[u]
  BY <1>6 DEF Goes
<1>8. BrokerType' BY <1>1, <1>2, <1>6, TypeKept DEF BrokerType, At
<1>9. Mutex' BY <1>1, <1>2, <1>7 DEF Mutex, At
<1>10. \A u \in Threads : Asked(u)' = Asked(u) BY <1>1, <1>2, <1>6, AskedKept DEF At
<1>11. toChild' = <<Asked(t)>> /\ toChild' # <<>> BY <1>2, <1>3, OneMessage DEF Quiet
<1>12. Sent(Asked(t))' BY <1>2, <1>3, <1>4, <1>5, <1>10, <1>11 DEF Sent, Quiet
<1>13. Asked(t) \in Requests BY <1>1, <1>2 DEF BrokerType, At
<1>14. OneOut'
  <2>1. \E r \in Requests : Sent(r)' BY <1>2, <1>3, <1>4, <1>5, <1>11, <1>13 DEF Sent, Quiet
  <2>2. At(t, "recv")' BY <1>7 DEF At
  <2>3. \A u \in Threads : At(u, "recv")' => u = t BY <1>3, <1>7 DEF At
  <2> QED BY <1>12, <2>1, <2>2, <2>3 DEF OneOut, Requests
<1>15. \A u \in Threads, p \in Leases : Owns(u, p)' <=> Owns(u, p)
  <2>1. SUFFICES ASSUME NEW p \in Leases PROVE Owns(t, p)' <=> Owns(t, p)
    BY <1>2, <1>3, <1>7, OthersSame
  <2>2. ~Answered(p.id)' BY <1>11 DEF Answered
  <2> QED BY <1>2, <1>7, <2>2 DEF Owns, At
<1>16. \A u \in Threads, i \in Ids : Retires(u, i)' <=> Retires(u, i)
  <2>1. SUFFICES ASSUME NEW i \in Ids PROVE Retires(t, i)' <=> Retires(t, i)
    BY <1>2, <1>3, <1>7, OthersSame
  <2> QED BY <1>2, <1>7, <1>12 DEF Retires, At
<1>17. \A i \in Ids : ~Orphan(i)' BY <1>2, <1>3 DEF Orphan
<1>18. Owned' /\ RetiredOnce' BY <1>1, <1>4, <1>15, <1>16, <1>17, KeepOwned
<1>19. Accounted' BY <1>1, <1>2, <1>3, <1>4, <1>15, <1>16, KeepAccounted
<1> QED BY <1>8, <1>9, <1>14, <1>18, <1>19 DEF BrokerInv

\* A send fails on a dead child only.
LEMMA SendFailsStep == ASSUME Known, BrokerInv, NEW t \in Threads, SendFails(t) PROVE BrokerInv'
<1>1. BrokerType /\ Mutex /\ OneOut /\ Owned /\ RetiredOnce /\ Accounted BY DEF BrokerInv
<1>2. /\ At(t, "send") /\ (child = "dead" \/ toChild # <<>>) /\ Finish(t, Failed)
      /\ UNCHANGED <<desynced, toChild, fromChild, kid, held>>
  BY DEF SendFails
<1>3. sock = t /\ ~desynced /\ Quiet /\ \A u \in Threads : u # t => req[u].st \notin {"send", "recv"}
  BY <1>2, SendAlone
<1>4. UNCHANGED <<pipe, child, reg>> /\ child' = "dead" BY <1>2, <1>3 DEF kid, pipe, Quiet
<1>5. Failed \in Answers /\ Failed \notin Ids BY DEF Known, Answers, Failed
<1>6. Goes(t, "done", Failed) /\ sock' = NoThread BY <1>1, <1>2, <1>5, FinishIs
<1>7. /\ req'[t].st = "done" /\ req'[t].res = Failed /\ \A u \in Threads : u # t => req'[u] = req[u]
  BY <1>6 DEF Goes
<1>8. BrokerType' BY <1>1, <1>2, <1>6, TypeKept DEF BrokerType, At
<1>9. Mutex' BY <1>1, <1>3, <1>6, <1>7 DEF Mutex, Known
<1>10. OneOut'
  <2>1. Quiet' BY <1>3, <1>4 DEF Quiet, pipe
  <2>2. \A u \in Threads : ~At(u, "recv")' BY <1>3, <1>7 DEF At
  <2> QED BY <2>1, <2>2 DEF OneOut
<1>11. \A u \in Threads, p \in Leases : Owns(u, p)' => Owns(u, p)
  <2>1. SUFFICES ASSUME NEW p \in Leases PROVE Owns(t, p)' => Owns(t, p)
    BY <1>2, <1>3, <1>7, OthersSame
  <2>2. p.id \in Ids BY DEF Leases
  <2> QED BY <1>2, <1>5, <1>7, <2>2 DEF Owns, At
<1>12. \A u \in Threads, i \in Ids : Retires(u, i)' => Retires(u, i)
  <2>1. SUFFICES ASSUME NEW i \in Ids PROVE Retires(t, i)' => Retires(t, i)
    BY <1>2, <1>3, <1>7, OthersSame
  <2> QED BY <1>7 DEF Retires, At
<1>13. \A i \in Ids : Orphan(i)' => Orphan(i) BY <1>2, <1>4, OrphanSame
<1>14. Owned' /\ RetiredOnce' BY <1>1, <1>4, <1>11, <1>12, <1>13, KeepOwned
<1>15. Accounted' BY <1>4 DEF Accounted
<1> QED BY <1>8, <1>9, <1>10, <1>14, <1>15 DEF BrokerInv

\* A thread that receives has the socket, in step, and what is under way is its own.
LEMMA RecvAlone ==
  ASSUME Known, BrokerInv, NEW t \in Threads, At(t, "recv")
  PROVE  /\ sock = t /\ ~desynced /\ \A u \in Threads : u # t => req[u].st \notin {"send", "recv"}
         /\ Sent(Asked(t)) \/ (\E a \in Answers : Answered(a)) \/ (Quiet /\ child = "dead")
<1>1. BrokerType /\ Mutex /\ OneOut BY DEF BrokerInv
<1>2. sock = t BY <1>1 DEF Mutex, At
<1>3. ~desynced BY <1>1, <1>2 DEF Mutex, Known
<1>4. \A u \in Threads : u # t => req[u].st \notin {"send", "recv"} BY <1>1, <1>2 DEF Mutex
<1> QED BY <1>1, <1>2, <1>3, <1>4 DEF OneOut

\* The answer that comes is the request's own.
LEMMA RecvStep == ASSUME Known, BrokerInv, NEW t \in Threads, Recv(t) PROVE BrokerInv'
<1>1. BrokerType /\ Mutex /\ OneOut /\ Owned /\ RetiredOnce /\ Accounted BY DEF BrokerInv
<1>2. /\ At(t, "recv") /\ fromChild # <<>> /\ fromChild' = Tail(fromChild) /\ Finish(t, Head(fromChild))
      /\ UNCHANGED <<desynced, toChild, kid, held>>
  BY DEF Recv
<1>3. /\ sock = t /\ ~desynced /\ \A u \in Threads : u # t => req[u].st \notin {"send", "recv"}
      /\ Sent(Asked(t)) \/ (\E a \in Answers : Answered(a)) \/ (Quiet /\ child = "dead")
  BY <1>2, RecvAlone
<1>4. PICK a \in Answers : toChild = <<>> /\ child # "answer" /\ fromChild = <<a>>
  BY <1>2, <1>3 DEF Sent, Quiet, Answered
<1>5. UNCHANGED <<child, answer, reg, toChild>> /\ fromChild' = <<>> /\ Finish(t, a)
  <2>1. UNCHANGED <<child, answer, reg, toChild>> BY <1>2 DEF kid
  <2>2. Tail(fromChild) = <<>> /\ Head(fromChild) = a BY <1>4, OneMessage
  <2> QED BY <1>2, <2>1, <2>2
<1>6. Goes(t, "done", a) /\ sock' = NoThread BY <1>1, <1>5, FinishIs
<1>7. /\ req'[t].st = "done" /\ req'[t].res = a /\ req'[t].op = req[t].op /\ req'[t].who = req[t].who
      /\ \A u \in Threads : u # t => req'[u] = req[u]
  BY <1>6 DEF Goes
<1>8. BrokerType' BY <1>1, <1>2, <1>6, TypeKept DEF BrokerType, At
<1>9. Mutex' BY <1>1, <1>3, <1>6, <1>7 DEF Mutex, Known
<1>10. OneOut'
  <2>1. Quiet' BY <1>4, <1>5 DEF Quiet
  <2>2. \A u \in Threads : ~At(u, "recv")' BY <1>3, <1>7 DEF At
  <2> QED BY <2>1, <2>2 DEF OneOut
<1>11. \A u \in Threads, p \in Leases : Owns(u, p)' <=> Owns(u, p)
  <2>1. SUFFICES ASSUME NEW p \in Leases PROVE Owns(t, p)' <=> Owns(t, p)
    BY <1>2, <1>3, <1>7, OthersSame
  <2>2. Answered(p.id) <=> a = p.id BY <1>4, OneMessage DEF Answered
  <2> QED BY <1>2, <1>7, <2>2 DEF Owns, At
<1>12. \A u \in Threads, i \in Ids : Retires(u, i)' <=> Retires(u, i)
  <2>1. SUFFICES ASSUME NEW i \in Ids PROVE Retires(t, i)' <=> Retires(t, i)
    BY <1>2, <1>3, <1>7, OthersSame
  <2> QED BY <1>2, <1>7 DEF Retires, At, Sent
<1>13. \A i \in Ids : ~Orphan(i)' BY <1>2, <1>3 DEF Orphan
<1>14. Owned' /\ RetiredOnce' BY <1>1, <1>5, <1>11, <1>12, <1>13, KeepOwned
<1>15. Accounted' BY <1>1, <1>2, <1>3, <1>5, <1>11, <1>12, KeepAccounted
<1> QED BY <1>8, <1>9, <1>10, <1>14, <1>15 DEF BrokerInv

\* A receive that gives up, on a child that is dead or on one that is late: what
\* is still under way is nobody's, and the socket is not used again.
LEMMA RecvFailsStep ==
  ASSUME Known, BrokerInv, NEW t \in Threads, RecvEof(t) \/ RecvTimeout(t)
  PROVE  BrokerInv'
<1>1. BrokerType /\ Mutex /\ OneOut /\ Owned /\ RetiredOnce /\ Accounted BY DEF BrokerInv
<1>2. /\ At(t, "recv") /\ fromChild = <<>> /\ Finish(t, Failed)
      /\ UNCHANGED <<toChild, fromChild, kid, held>>
      /\ (child = "dead" /\ desynced' = desynced) \/ (child # "dead" /\ desynced' = TRUE)
  BY DEF RecvEof, RecvTimeout
<1>3. /\ sock = t /\ ~desynced /\ \A u \in Threads : u # t => req[u].st \notin {"send", "recv"}
      /\ Sent(Asked(t)) \/ (\E a \in Answers : Answered(a)) \/ (Quiet /\ child = "dead")
  BY <1>2, RecvAlone
<1>4. UNCHANGED <<pipe, child, answer, reg>> BY <1>2 DEF kid, pipe
<1>5. Failed \in Answers /\ Failed \notin Ids BY DEF Known, Answers, Failed
<1>6. Goes(t, "done", Failed) /\ sock' = NoThread BY <1>1, <1>2, <1>5, FinishIs
<1>7. /\ req'[t].st = "done" /\ req'[t].res = Failed /\ \A u \in Threads : u # t => req'[u] = req[u]
  BY <1>6 DEF Goes
<1>8. BrokerType'
  <2>1. desynced' \in BOOLEAN BY <1>1, <1>2 DEF BrokerType
  <2> QED BY <1>1, <1>2, <1>6, <2>1, TypeKept DEF At
<1>9. Mutex' BY <1>1, <1>3, <1>6, <1>7 DEF Mutex, Known
<1>10. OneOut'
  <2>1. \A u \in Threads : ~At(u, "recv")' BY <1>3, <1>7 DEF At
  <2>2. ~desynced' => Quiet'
    <3>1. ASSUME child = "dead" PROVE Quiet BY <1>2, <1>3, <3>1 DEF Quiet, Sent, Answered
    <3> QED BY <1>2, <1>4, <3>1 DEF Quiet, pipe
  <2>3. Quiet' <=> Quiet BY <1>4 DEF Quiet, pipe
  <2>4. \A r : Sent(r)' <=> Sent(r) BY <1>4 DEF Sent, pipe
  <2>5. \A a : Answered(a)' <=> Answered(a) BY <1>4 DEF Answered, pipe
  <2>6. (Quiet \/ (\E r \in Requests : Sent(r)) \/ (\E a \in Answers : Answered(a)))'
    BY <1>1, <2>3, <2>4, <2>5 DEF OneOut, Requests, Answers
  <2> QED BY <2>1, <2>2, <2>6 DEF OneOut
<1>11. \A u \in Threads, p \in Leases : Owns(u, p)' => Owns(u, p)
  <2>1. SUFFICES ASSUME NEW p \in Leases PROVE Owns(t, p)' => Owns(t, p)
    BY <1>2, <1>3, <1>7, OthersSame
  <2>2. p.id \in Ids BY DEF Leases
  <2> QED BY <1>2, <1>5, <1>7, <2>2 DEF Owns, At
<1>12. /\ \A u \in Threads, i \in Ids : Retires(u, i)' => Retires(u, i) /\ u # t
  <2>1. \A i \in Ids : ~Retires(t, i)' BY <1>7 DEF Retires, At
  <2>2. \A u \in Threads, i \in Ids : u # t => (Retires(u, i)' => Retires(u, i))
    BY <1>2, <1>3, <1>7, OthersSame
  <2> QED BY <2>1, <2>2
<1>13. \A i \in Ids : Orphan(i)' => Retires(t, i)
  <2>1. SUFFICES ASSUME NEW i \in Ids, Orphan(i)' PROVE Retires(t, i) OBVIOUS
  <2> DEFINE r == [op |-> "unregister", who |-> NoUser, id |-> i]
  <2>2. Sent(r) BY <1>4, <2>1 DEF Orphan, Sent, pipe
  <2>3. Sent(Asked(t)) BY <1>3, <2>2 DEF Sent, Answered, Quiet
  <2>4. <<r>> = <<Asked(t)>> BY <2>2, <2>3 DEF Sent
  <2>5. r = Asked(t) BY <2>4, OneMessage
  <2>6. req[t].op = "unregister" /\ req[t].id = i BY <2>5 DEF Asked
  <2> QED BY <1>2, <2>3, <2>6 DEF Retires
<1>14. Owned' BY <1>1, <1>4, <1>11 DEF Owned, Leases
<1>15. RetiredOnce'
  <2>1. SUFFICES ASSUME NEW i \in Ids
        PROVE  /\ \A v \in Threads : Retires(v, i)' \/ Orphan(i)' =>
                    reg'[i] # NoUser /\ \A u \in Threads, p \in Leases : Owns(u, p)' => p.id # i
               /\ \A v, u \in Threads : Retires(v, i)' => ~Orphan(i)' /\ (Retires(u, i)' => v = u)
    BY DEF RetiredOnce, Leases
  <2>2. /\ \A v \in Threads : Retires(v, i) \/ Orphan(i) =>
             reg[i] # NoUser /\ \A u \in Threads, p \in Leases : Owns(u, p) => p.id # i
        /\ \A v, u \in Threads : Retires(v, i) => ~Orphan(i) /\ (Retires(u, i) => v = u)
    BY <1>1 DEF RetiredOnce
  <2> QED BY <1>4, <1>11, <1>12, <1>13, <2>2
<1>16. Accounted' BY <1>2, <1>4 DEF Accounted
<1> QED BY <1>8, <1>9, <1>10, <1>14, <1>15, <1>16 DEF BrokerInv

(***************************************************************************)
(* The child.                                                              *)
(***************************************************************************)
\* The child's steps move no thread.
LEMMA ChildMoves ==
  ASSUME BrokerType, Mutex, UNCHANGED <<sock, desynced, req, held>>,
         child' \in {"idle", "answer", "dead"}, answer' \in Answers,
         reg' \in [Ids -> Users \cup {NoUser}]
  PROVE  BrokerType' /\ Mutex' /\ \A u \in Threads : Asked(u)' = Asked(u)
<1>1. \A u \in Threads : Asked(u)' = Asked(u) BY DEF Asked
<1>2. Mutex' BY DEF Mutex
<1>3. \A u \in Threads : ~At(u, "none")' => Asked(u)' \in Requests BY <1>1 DEF BrokerType, At
<1>4. BrokerType' BY <1>3 DEF BrokerType
<1> QED BY <1>1, <1>2, <1>4

\* A request that the child finds is the one of the thread that waits, or an
\* abandoned one; the personality it retires is nobody's any more.
LEMMA FindsSent ==
  ASSUME Known, BrokerInv, toChild # <<>>
  PROVE  \E r \in Requests :
           /\ Sent(r) /\ Head(toChild) = r /\ Tail(toChild) = <<>>
           /\ \A t \in Threads : At(t, "recv") => Asked(t) = r /\ ~desynced
           /\ ~desynced => \E t \in Threads : At(t, "recv")
           /\ \A u \in Threads, p \in Leases : Owns(u, p) /\ r.op = "unregister" => p.id # r.id
           /\ \A u \in Threads, j \in Ids :
                Retires(u, j) /\ ~At(u, "recv") /\ r.op = "unregister" => j # r.id
           /\ ~desynced /\ r.op = "unregister" => reg[r.id] # NoUser
<1>1. BrokerType /\ Mutex /\ OneOut /\ Owned /\ RetiredOnce /\ Accounted BY DEF BrokerInv
<1>2. PICK r \in Requests : Sent(r) BY <1>1 DEF OneOut, Quiet, Answered
<1>3. Head(toChild) = r /\ Tail(toChild) = <<>> BY <1>2, OneMessage DEF Sent
<1>4. ASSUME NEW t \in Threads, At(t, "recv") PROVE Asked(t) = r /\ ~desynced
  <2>1. ~desynced /\ (Sent(Asked(t)) \/ (\E a \in Answers : Answered(a)) \/ (Quiet /\ child = "dead"))
    BY <1>4, RecvAlone
  <2>2. Sent(Asked(t)) BY <2>1 DEF Answered, Quiet
  <2>3. <<Asked(t)>> = <<r>> BY <1>2, <2>2 DEF Sent
  <2> QED BY <2>1, <2>3, OneMessage
<1>5. ~desynced => \E t \in Threads : At(t, "recv") BY <1>1 DEF OneOut, Quiet
<1>6. ASSUME r.op = "unregister"
      PROVE  r.id \in Ids /\ (Orphan(r.id) \/ (~desynced /\ \E t \in Threads : At(t, "recv") /\ Retires(t, r.id)))
  <2>1. r.id \in Ids /\ r = [op |-> "unregister", who |-> NoUser, id |-> r.id] BY <1>6 DEF Requests
  <2>2. CASE desynced BY <1>2, <2>1, <2>2 DEF Orphan
  <2>3. CASE ~desynced
    <3>1. PICK t \in Threads : At(t, "recv") BY <1>5, <2>3
    <3>2. Asked(t) = r BY <1>4, <3>1
    <3>3. req[t].op = r.op /\ req[t].id = r.id BY <3>2 DEF Asked
    <3> QED BY <1>2, <1>6, <2>1, <2>3, <3>1, <3>2, <3>3 DEF Retires
  <2> QED BY <2>2, <2>3
<1>7. ASSUME NEW u \in Threads, NEW p \in Leases, Owns(u, p), r.op = "unregister" PROVE p.id # r.id
  BY <1>1, <1>6, <1>7 DEF RetiredOnce
<1>8. ASSUME NEW u \in Threads, NEW j \in Ids, Retires(u, j), ~At(u, "recv"), r.op = "unregister"
      PROVE  j # r.id
  BY <1>1, <1>6, <1>8 DEF RetiredOnce
<1>9. ~desynced /\ r.op = "unregister" => reg[r.id] # NoUser
  BY <1>1, <1>6 DEF RetiredOnce, Orphan
<1> QED BY <1>2, <1>3, <1>4, <1>5, <1>7, <1>8, <1>9

\* The child serves the request and has its answer to send.
LEMMA ChildServeStep == ASSUME Known, BrokerInv, ChildServe PROVE BrokerInv'
<1>1. BrokerType /\ Mutex /\ OneOut /\ Owned /\ RetiredOnce /\ Accounted BY DEF BrokerInv
<1>2. /\ child = "idle" /\ toChild # <<>> /\ Serve(Head(toChild)) /\ toChild' = Tail(toChild)
      /\ child' = "answer" /\ UNCHANGED <<sock, desynced, fromChild, req, held>>
  BY DEF ChildServe
<1>3. PICK r \in Requests :
           /\ Sent(r) /\ Head(toChild) = r /\ Tail(toChild) = <<>>
           /\ \A t \in Threads : At(t, "recv") => Asked(t) = r /\ ~desynced
           /\ ~desynced => \E t \in Threads : At(t, "recv")
           /\ \A u \in Threads, p \in Leases : Owns(u, p) /\ r.op = "unregister" => p.id # r.id
           /\ \A u \in Threads, j \in Ids :
                Retires(u, j) /\ ~At(u, "recv") /\ r.op = "unregister" => j # r.id
           /\ ~desynced /\ r.op = "unregister" => reg[r.id] # NoUser
  BY <1>2, FindsSent
<1>4. Serve(r) /\ toChild' = <<>> /\ fromChild' = <<>> BY <1>2, <1>3 DEF Sent
<1>5. \/ r.op = "register" /\ r.who \in Users
      \/ r.op = "unregister" /\ r.id \in Ids
  BY DEF Requests
<1>6. answer' \in Answers /\ reg' \in [Ids -> Users \cup {NoUser}]
  BY <1>1, <1>4, <1>5 DEF Serve, BrokerType, Answers
<1>7. BrokerType' /\ Mutex' /\ \A u \in Threads : Asked(u)' = Asked(u) BY <1>1, <1>2, <1>6, ChildMoves
<1>8. \A a : Answered(a)' <=> answer' = a BY <1>2, <1>4, OneMessage DEF Answered
<1>9. OneOut'
  <2>1. \E a \in Answers : Answered(a)' BY <1>6, <1>8
  <2>2. ~desynced' => \E t \in Threads : At(t, "recv")' BY <1>2, <1>3 DEF At
  <2> QED BY <2>1, <2>2 DEF OneOut, Answers
<1>10. \A a : ~Answered(a) BY <1>2 DEF Answered
<1>11. \A u \in Threads, p \in Leases :
         Owns(u, p)' <=> \/ Owns(u, p)
                        \/ (At(u, "recv") /\ req[u].op = "register" /\ req[u].who = p.who /\ answer' = p.id)
  BY <1>2, <1>8, <1>10 DEF Owns, At
<1>12. \A u \in Threads, j \in Ids : Retires(u, j)' <=> Retires(u, j) /\ ~At(u, "recv")
  <2>1. \A u \in Threads : ~Sent(Asked(u))' BY <1>4, OneMessage DEF Sent
  <2> QED BY <1>2, <2>1 DEF Retires, At
<1>13. \A j \in Ids : ~Orphan(j)' BY <1>4, OneMessage DEF Orphan, Sent
<1>14. \A u \in Threads : At(u, "recv") => req[u].op = r.op /\ req[u].who = r.who /\ req[u].id = r.id
  BY <1>3 DEF Asked
<1>15. \A t, u \in Threads : At(t, "recv") /\ At(u, "recv") => t = u BY <1>1 DEF Mutex, At
<1>16. CASE r.op = "register" /\ \E i \in Ids : reg[i] = NoUser /\ reg' = [reg EXCEPT ![i] = r.who] /\ answer' = i
  <2>1. PICK i \in Ids : reg[i] = NoUser /\ reg' = [reg EXCEPT ![i] = r.who] /\ answer' = i BY <1>16
  <2>2. r.who \in Users /\ reg'[i] = r.who /\ r.who # NoUser /\ \A j \in Ids : j # i => reg'[j] = reg[j]
    BY <1>1, <1>5, <1>16, <2>1 DEF BrokerType, Known
  <2>3. \A u \in Threads, p \in Leases : Owns(u, p) => p.id # i
    BY <1>1, <2>1 DEF Owned, Leases, Known
  <2>4. \A u \in Threads, p \in Leases : Owns(u, p)' => Owns(u, p) \/ (At(u, "recv") /\ p.who = r.who /\ p.id = i)
    BY <1>11, <1>14, <2>1
  <2>5. Owned'
    <3>1. \A u \in Threads, p \in Leases : Owns(u, p)' => reg'[p.id] = p.who
      BY <1>1, <2>2, <2>3, <2>4 DEF Owned, Leases
    <3>2. \A v, u \in Threads, p, q \in Leases : Owns(v, p)' /\ Owns(u, q)' /\ p.id = q.id => v = u
      BY <1>1, <1>15, <2>3, <2>4 DEF Owned
    <3> QED BY <3>1, <3>2 DEF Owned, Leases
  <2>6. RetiredOnce'
    <3>1. SUFFICES ASSUME NEW j \in Ids, NEW v \in Threads, Retires(v, j)'
          PROVE  /\ reg'[j] # NoUser /\ \A u \in Threads, p \in Leases : Owns(u, p)' => p.id # j
                 /\ \A u \in Threads : Retires(u, j)' => v = u
      BY <1>13 DEF RetiredOnce, Leases
    <3>2. /\ reg[j] # NoUser /\ \A u \in Threads, p \in Leases : Owns(u, p) => p.id # j
          /\ \A u \in Threads : Retires(u, j) => v = u
      BY <1>1, <1>12, <3>1 DEF RetiredOnce
    <3>3. j # i BY <2>1, <3>2
    <3> QED BY <1>12, <2>2, <2>4, <3>2, <3>3
  <2>7. Accounted'
    <3>1. SUFFICES ASSUME ~desynced', NEW j \in Ids, reg'[j] # NoUser
          PROVE  \E v \in Threads : Retires(v, j)' \/ (\E p \in Leases : p.id = j /\ Owns(v, p)')
      BY DEF Accounted, Leases
    <3>2. CASE j = i
      <4>1. PICK v \in Threads : At(v, "recv") BY <1>2, <1>3, <3>1
      <4> DEFINE p == [who |-> r.who, id |-> i]
      <4>2. p \in Leases /\ p.id = i /\ p.who = r.who BY <2>2 DEF Leases
      <4>3. Owns(v, p)' BY <1>11, <1>14, <1>16, <2>1, <4>1, <4>2
      <4> QED BY <3>2, <4>2, <4>3
    <3>3. CASE j # i
      <4>1. PICK v \in Threads : Retires(v, j) \/ (\E p \in Leases : p.id = j /\ Owns(v, p))
        BY <1>1, <1>2, <2>2, <3>1, <3>3 DEF Accounted
      <4>2. Retires(v, j) => ~At(v, "recv") BY <1>14, <1>16 DEF Retires
      <4> QED BY <1>11, <1>12, <4>1, <4>2
    <3> QED BY <3>2, <3>3
  <2> QED BY <1>7, <1>9, <2>5, <2>6, <2>7 DEF BrokerInv
<1>17. CASE r.op = "unregister" /\ reg[r.id] # NoUser /\ reg' = [reg EXCEPT ![r.id] = NoUser] /\ answer' = Done
  <2>1. r.id \in Ids /\ \A j \in Ids : (j # r.id => reg'[j] = reg[j]) /\ (reg'[j] # NoUser => j # r.id)
    BY <1>1, <1>5, <1>17 DEF BrokerType
  <2>2. \A u \in Threads, p \in Leases : Owns(u, p)' <=> Owns(u, p)
    BY <1>11, <1>17 DEF Leases, Known, Done
  <2>3. Owned'
    <3>1. \A u \in Threads, p \in Leases : Owns(u, p)' => reg'[p.id] = p.who
      BY <1>1, <1>3, <1>17, <2>1, <2>2 DEF Owned, Leases
    <3>2. \A v, u \in Threads, p, q \in Leases : Owns(v, p)' /\ Owns(u, q)' /\ p.id = q.id => v = u
      BY <1>1, <2>2 DEF Owned
    <3> QED BY <3>1, <3>2 DEF Owned, Leases
  <2>4. RetiredOnce'
    <3>1. SUFFICES ASSUME NEW j \in Ids, NEW v \in Threads, Retires(v, j)'
          PROVE  /\ reg'[j] # NoUser /\ \A u \in Threads, p \in Leases : Owns(u, p)' => p.id # j
                 /\ \A u \in Threads : Retires(u, j)' => v = u
      BY <1>13 DEF RetiredOnce, Leases
    <3>2. /\ reg[j] # NoUser /\ \A u \in Threads, p \in Leases : Owns(u, p) => p.id # j
          /\ \A u \in Threads : Retires(u, j) => v = u
      BY <1>1, <1>12, <3>1 DEF RetiredOnce
    <3>3. j # r.id BY <1>3, <1>12, <1>17, <3>1
    <3> QED BY <1>12, <2>1, <2>2, <3>2, <3>3
  <2>5. Accounted'
    <3>1. SUFFICES ASSUME ~desynced', NEW j \in Ids, reg'[j] # NoUser
          PROVE  \E v \in Threads : Retires(v, j)' \/ (\E p \in Leases : p.id = j /\ Owns(v, p)')
      BY DEF Accounted, Leases
    <3>2. PICK v \in Threads : Retires(v, j) \/ (\E p \in Leases : p.id = j /\ Owns(v, p))
      BY <1>1, <1>2, <2>1, <3>1 DEF Accounted
    <3>3. Retires(v, j) => ~At(v, "recv") BY <1>14, <2>1, <3>1 DEF Retires
    <3> QED BY <1>12, <2>2, <3>2, <3>3
  <2> QED BY <1>7, <1>9, <2>3, <2>4, <2>5 DEF BrokerInv
<1>18. CASE (r.op = "unregister" => reg[r.id] = NoUser) /\ answer' = Failed /\ UNCHANGED reg
  <2>1. \A u \in Threads, p \in Leases : Owns(u, p)' <=> Owns(u, p)
    BY <1>11, <1>18 DEF Leases, Known, Failed
  <2>2. Owned' /\ RetiredOnce' BY <1>1, <1>12, <1>13, <1>18, <2>1, KeepOwned
  <2>3. ~desynced => \A u \in Threads, j \in Ids : Retires(u, j) => Retires(u, j)'
    <3>1. ~desynced => r.op = "register" BY <1>3, <1>5, <1>18
    <3>2. ~desynced => \A u \in Threads, j \in Ids : Retires(u, j) => ~At(u, "recv")
      BY <1>14, <3>1 DEF Retires
    <3> QED BY <1>12, <3>2
  <2>4. Accounted' BY <1>1, <1>2, <1>18, <2>1, <2>3, KeepAccounted
  <2> QED BY <1>7, <1>9, <2>2, <2>4 DEF BrokerInv
<1> QED BY <1>4, <1>16, <1>17, <1>18 DEF Serve

\* The answer goes out.
LEMMA ChildReplyStep == ASSUME Known, BrokerInv, ChildReply PROVE BrokerInv'
<1>1. BrokerType /\ Mutex /\ OneOut /\ Owned /\ RetiredOnce /\ Accounted BY DEF BrokerInv
<1>2. /\ child = "answer" /\ fromChild' = Append(fromChild, answer) /\ child' = "idle" /\ answer' = Done
      /\ UNCHANGED <<sock, desynced, toChild, reg, req, held>>
  BY DEF ChildReply
<1>3. toChild = <<>> /\ fromChild = <<>> BY <1>1, <1>2 DEF OneOut, Quiet, Sent, Answered
<1>4. toChild' = <<>> /\ fromChild' = <<answer>> /\ answer \in Answers
  BY <1>1, <1>2, <1>3, OneMessage DEF BrokerType
<1>5. BrokerType' /\ Mutex' /\ \A u \in Threads : Asked(u)' = Asked(u)
  BY <1>1, <1>2, ChildMoves DEF BrokerType, Answers
<1>6. \A a : Answered(a)' <=> Answered(a) BY <1>2, <1>3, <1>4, OneMessage DEF Answered
<1>7. \A u \in Threads : ~Sent(Asked(u)) /\ ~Sent(Asked(u))' BY <1>3, <1>4, OneMessage DEF Sent
<1>8. OneOut'
  <2>1. \E a \in Answers : Answered(a)' BY <1>2, <1>4 DEF Answered
  <2>2. ~desynced' => \E t \in Threads : At(t, "recv")' BY <1>1, <1>2 DEF At, OneOut, Quiet
  <2> QED BY <2>1, <2>2 DEF OneOut, Answers
<1>9. \A u \in Threads, p \in Leases : Owns(u, p)' <=> Owns(u, p) BY <1>2, <1>6 DEF Owns, At
<1>10. \A u \in Threads, i \in Ids : Retires(u, i)' <=> Retires(u, i) BY <1>2, <1>7 DEF Retires, At
<1>11. \A i \in Ids : ~Orphan(i)' BY <1>4, OneMessage DEF Orphan, Sent
<1>12. Owned' /\ RetiredOnce' BY <1>1, <1>2, <1>9, <1>10, <1>11, KeepOwned
<1>13. Accounted' BY <1>1, <1>2, <1>9, <1>10, KeepAccounted
<1> QED BY <1>5, <1>8, <1>12, <1>13 DEF BrokerInv

\* The child dies, with the request it had not read or the answer it had not sent.
LEMMA ChildDiesStep == ASSUME Known, BrokerInv, ChildDies PROVE BrokerInv'
<1>1. BrokerType /\ Mutex /\ OneOut /\ Owned /\ RetiredOnce /\ Accounted BY DEF BrokerInv
<1>2. /\ child' = "dead" /\ answer' = Done /\ toChild' = <<>>
      /\ UNCHANGED <<sock, desynced, fromChild, reg, req, held>>
  BY DEF ChildDies
<1>3. BrokerType' /\ Mutex' /\ \A u \in Threads : Asked(u)' = Asked(u)
  BY <1>1, <1>2, ChildMoves DEF BrokerType, Answers
<1>4. fromChild = <<>> \/ \E a \in Answers : fromChild = <<a>>
  BY <1>1 DEF OneOut, Quiet, Sent, Answered
<1>5. \A a : Answered(a)' => Answered(a)
  <2>1. SUFFICES ASSUME NEW a, fromChild = <<a>> PROVE Answered(a) BY <1>2 DEF Answered
  <2>2. toChild = <<>> /\ child # "answer"
    BY <1>1, <2>1, OneMessage DEF OneOut, Quiet, Sent, Answered
  <2> QED BY <2>1, <2>2 DEF Answered
<1>6. \A u \in Threads : ~Sent(Asked(u))' BY <1>2, OneMessage DEF Sent
<1>7. OneOut'
  <2>1. CASE fromChild = <<>>
    <3>1. Quiet' /\ child' = "dead" BY <1>2, <2>1 DEF Quiet
    <3> QED BY <3>1 DEF OneOut
  <2>2. CASE \E a \in Answers : fromChild = <<a>>
    <3>1. \E a \in Answers : Answered(a)' BY <1>2, <2>2 DEF Answered
    <3>2. ~desynced' => \E t \in Threads : At(t, "recv")'
      BY <1>1, <1>2, <2>2, OneMessage DEF At, OneOut, Quiet
    <3> QED BY <3>1, <3>2 DEF OneOut, Answers
  <2> QED BY <1>4, <2>1, <2>2
<1>8. \A u \in Threads, p \in Leases : Owns(u, p)' => Owns(u, p) BY <1>2, <1>5 DEF Owns, At
<1>9. \A u \in Threads, i \in Ids : Retires(u, i)' => Retires(u, i) BY <1>2, <1>6 DEF Retires, At
<1>10. \A i \in Ids : ~Orphan(i)' BY <1>2, OneMessage DEF Orphan, Sent
<1>11. Owned' /\ RetiredOnce' BY <1>1, <1>2, <1>8, <1>9, <1>10, KeepOwned
<1>12. Accounted' BY <1>2 DEF Accounted
<1> QED BY <1>3, <1>7, <1>11, <1>12 DEF BrokerInv

(***************************************************************************)
(* The callers.                                                            *)
(***************************************************************************)
\* A caller's step leaves the socket and the child as they are; its request is
\* neither before nor after it on the socket.
LEMMA CallerMoves ==
  ASSUME BrokerInv, NEW t \in Threads, UNCHANGED <<wire, kid>>,
         req' \in [Threads -> Calls], held' \in [Threads -> SUBSET Leases],
         \A u \in Threads : u # t => req'[u] = req[u] /\ held'[u] = held[u],
         req[t].st \in {"none", "done"}, req'[t].st \in {"none", "lock"},
         ~At(t, "none")' => Asked(t)' \in Requests
  PROVE  /\ BrokerType' /\ Mutex' /\ OneOut'
         /\ \A u \in Threads, p \in Leases : u # t => (Owns(u, p)' <=> Owns(u, p))
         /\ \A u \in Threads, i \in Ids : u # t => (Retires(u, i)' <=> Retires(u, i))
         /\ \A i \in Ids : Orphan(i)' <=> Orphan(i)
<1>1. BrokerType /\ Mutex /\ OneOut BY DEF BrokerInv
<1>2. UNCHANGED <<sock, desynced, toChild, fromChild, child, answer, reg>> BY DEF wire, kid
<1>3. \A u \in Threads : u # t => Asked(u)' = Asked(u) BY DEF Asked
<1>4. BrokerType'
  <2>1. ASSUME NEW u \in Threads, ~At(u, "none")' PROVE Asked(u)' \in Requests
    <3>1. CASE u = t BY <2>1, <3>1
    <3>2. CASE u # t BY <1>1, <1>3, <2>1, <3>2 DEF BrokerType, At
    <3> QED BY <3>1, <3>2
  <2> QED BY <1>1, <1>2, <2>1 DEF BrokerType, Calls, Places
<1>5. Mutex' BY <1>1, <1>2 DEF Mutex
<1>6. OneOut'
  <2>1. \A u \in Threads : (At(u, "recv")' <=> At(u, "recv")) /\ (At(u, "recv") => u # t) BY DEF At
  <2>2. Quiet' <=> Quiet BY <1>2 DEF Quiet
  <2>3. \A r : Sent(r)' <=> Sent(r) BY <1>2 DEF Sent
  <2>4. \A a : Answered(a)' <=> Answered(a) BY <1>2 DEF Answered
  <2>5. \A u \in Threads : u # t => (Sent(Asked(u))' <=> Sent(Asked(u))) BY <1>2, <1>3 DEF Sent
  <2>6. (Quiet \/ (\E r \in Requests : Sent(r)) \/ (\E a \in Answers : Answered(a)))'
    BY <1>1, <2>2, <2>3, <2>4 DEF OneOut, Requests, Answers
  <2>7. (~desynced /\ (\A u \in Threads : ~At(u, "recv")) => Quiet)' BY <1>1, <1>2, <2>1, <2>2 DEF OneOut
  <2>8. ASSUME NEW u \in Threads, At(u, "recv")'
        PROVE  Sent(Asked(u))' \/ (\E a \in Answers : Answered(a)') \/ (Quiet' /\ child' = "dead")
    <3>1. Sent(Asked(u)) \/ (\E a \in Answers : Answered(a)) \/ (Quiet /\ child = "dead")
      BY <1>1, <2>1, <2>8 DEF OneOut
    <3> QED BY <1>2, <2>1, <2>2, <2>4, <2>5, <2>8, <3>1
  <2> QED BY <2>6, <2>7, <2>8 DEF OneOut, Answers
<1>7. UNCHANGED <<pipe, desynced>> BY <1>2 DEF pipe
<1>8. \A i \in Ids : Orphan(i)' <=> Orphan(i) BY <1>7, OrphanSame
<1>9. /\ \A u \in Threads, p \in Leases : u # t => (Owns(u, p)' <=> Owns(u, p))
      /\ \A u \in Threads, i \in Ids : u # t => (Retires(u, i)' <=> Retires(u, i))
  BY <1>7, OthersSame
<1> QED BY <1>4, <1>5, <1>6, <1>8, <1>9

\* What a new request is.
LEMMA AskIs ==
  ASSUME BrokerType, NEW t \in Threads, NEW op \in {"register", "unregister"},
         NEW who \in Users \cup {NoUser}, NEW id \in Ids \cup {0},
         [op |-> op, who |-> who, id |-> id] \in Requests, Ask(t, op, who, id)
  PROVE  /\ req' \in [Threads -> Calls] /\ \A u \in Threads : u # t => req'[u] = req[u]
         /\ req[t].st = "none" /\ req'[t].st = "lock" /\ req'[t].op = op /\ req'[t].id = id
         /\ Asked(t)' \in Requests
<1> DEFINE x == [st |-> "lock", op |-> op, who |-> who, id |-> id, res |-> 0]
<1>1. req \in [Threads -> Calls] BY DEF BrokerType, Calls, Places
<1>2. x \in Calls BY DEF Calls, Places, Answers, Done
<1>3. req[t].st = "none" /\ req' = [req EXCEPT ![t] = x] BY DEF Ask
<1>4. req' \in [Threads -> Calls] /\ req'[t] = x /\ \A u \in Threads : u # t => req'[u] = req[u]
  BY <1>1, <1>2, <1>3
<1>5. Asked(t)' = [op |-> op, who |-> who, id |-> id] BY <1>4 DEF Asked
<1> QED BY <1>3, <1>4, <1>5

\* A thread asks for a personality.
LEMMA RegisterStep ==
  ASSUME Known, BrokerInv, NEW t \in Threads, NEW u \in Users, Register(t, u) PROVE BrokerInv'
<1>1. BrokerType /\ Owned /\ RetiredOnce /\ Accounted BY DEF BrokerInv
<1>2. Ask(t, "register", u, 0) /\ UNCHANGED <<wire, kid, held>> BY DEF Register
<1>3. [op |-> "register", who |-> u, id |-> 0] \in Requests BY DEF Requests
<1>4. /\ req' \in [Threads -> Calls] /\ \A v \in Threads : v # t => req'[v] = req[v]
      /\ req[t].st = "none" /\ req'[t].st = "lock" /\ req'[t].op = "register" /\ Asked(t)' \in Requests
  BY <1>1, <1>2, <1>3, AskIs
<1>5. held' \in [Threads -> SUBSET Leases] /\ \A v \in Threads : held'[v] = held[v]
  BY <1>1, <1>2 DEF BrokerType
<1>6. /\ BrokerType' /\ Mutex' /\ OneOut'
      /\ \A v \in Threads, p \in Leases : v # t => (Owns(v, p)' <=> Owns(v, p))
      /\ \A v \in Threads, i \in Ids : v # t => (Retires(v, i)' <=> Retires(v, i))
      /\ \A i \in Ids : Orphan(i)' <=> Orphan(i)
  BY <1>2, <1>4, <1>5, CallerMoves
<1>7. \A p \in Leases : Owns(t, p)' <=> Owns(t, p) BY <1>4, <1>5 DEF Owns, At
<1>8. \A i \in Ids : Retires(t, i)' <=> Retires(t, i) BY <1>4 DEF Retires, At
<1>9. UNCHANGED <<reg, desynced, child>> BY <1>2 DEF wire, kid
<1>10. Owned' /\ RetiredOnce' BY <1>1, <1>6, <1>7, <1>8, <1>9, KeepOwned
<1>11. Accounted' BY <1>1, <1>6, <1>7, <1>8, <1>9, KeepAccounted
<1> QED BY <1>6, <1>10, <1>11 DEF BrokerInv

\* A request returns: a personality it obtained is held.
LEMMA ReturnStep == ASSUME Known, BrokerInv, NEW t \in Threads, Return(t) PROVE BrokerInv'
<1>1. BrokerType /\ Owned /\ RetiredOnce /\ Accounted BY DEF BrokerInv
<1>2. At(t, "done") /\ req' = [req EXCEPT ![t] = NoReq] /\ UNCHANGED <<wire, kid>> BY DEF Return
<1>3. NoReq \in Calls /\ NoReq.st = "none" BY DEF NoReq, Calls, Places, Answers, Done
<1>4. /\ req' \in [Threads -> Calls] /\ \A v \in Threads : v # t => req'[v] = req[v]
      /\ req'[t].st = "none"
  BY <1>1, <1>2, <1>3 DEF BrokerType, Calls, Places
<1>5. req[t].res > 0 <=> req[t].res \in Ids
  <2>1. req[t].res \in Answers BY <1>1 DEF BrokerType
  <2>2. \A a \in Answers : a > 0 <=> a \in Ids BY DEF Answers, Done, Failed, Known
  <2> QED BY <2>1, <2>2
<1> DEFINE p0 == [who |-> req[t].who, id |-> req[t].res]
<1>6. req[t].op = "register" /\ req[t].res > 0 => p0 \in Leases
  <2>1. Asked(t) \in Requests BY <1>1, <1>2 DEF BrokerType, At
  <2>2. req[t].op = "register" => req[t].who \in Users BY <2>1 DEF Requests, Asked
  <2> QED BY <1>5, <2>2 DEF Leases
<1>7. /\ held' \in [Threads -> SUBSET Leases] /\ \A v \in Threads : v # t => held'[v] = held[v]
      /\ held'[t] = IF req[t].op = "register" /\ req[t].res > 0 THEN held[t] \cup {p0} ELSE held[t]
  BY <1>1, <1>6 DEF Return, BrokerType
<1>8. /\ BrokerType' /\ Mutex' /\ OneOut'
      /\ \A v \in Threads, p \in Leases : v # t => (Owns(v, p)' <=> Owns(v, p))
      /\ \A v \in Threads, i \in Ids : v # t => (Retires(v, i)' <=> Retires(v, i))
      /\ \A i \in Ids : Orphan(i)' <=> Orphan(i)
  BY <1>2, <1>4, <1>7, CallerMoves DEF At
<1>9. ASSUME NEW p \in Leases PROVE Owns(t, p)' <=> Owns(t, p)
  <2>1. p.id \in Ids BY DEF Leases
  <2>2. p = p0 <=> req[t].who = p.who /\ req[t].res = p.id BY DEF Leases
  <2>3. Owns(t, p) <=> p \in held[t] \/ (req[t].op = "register" /\ p = p0) BY <1>2, <2>2 DEF Owns, At
  <2>4. Owns(t, p)' <=> p \in held'[t] BY <1>4 DEF Owns, At
  <2>5. p = p0 => req[t].res > 0 BY <1>5, <2>1, <2>2
  <2> QED BY <1>7, <2>3, <2>4, <2>5
<1>10. \A i \in Ids : Retires(t, i)' <=> Retires(t, i) BY <1>2, <1>4 DEF Retires, At
<1>11. UNCHANGED <<reg, desynced, child>> BY <1>2 DEF wire, kid
<1>12. Owned' /\ RetiredOnce' BY <1>1, <1>8, <1>9, <1>10, <1>11, KeepOwned
<1>13. Accounted' BY <1>1, <1>8, <1>9, <1>10, <1>11, KeepAccounted
<1> QED BY <1>8, <1>12, <1>13 DEF BrokerInv

\* A thread gives up a personality and asks for its retirement.
LEMMA UnregisterStep == ASSUME Known, BrokerInv, NEW t \in Threads, Unregister(t) PROVE BrokerInv'
<1>1. BrokerType /\ Owned /\ RetiredOnce /\ Accounted BY DEF BrokerInv
<1>2. PICK p0 \in held[t] : /\ Ask(t, "unregister", NoUser, p0.id)
                            /\ held' = [held EXCEPT ![t] = @ \ {p0}] /\ UNCHANGED <<wire, kid>>
  BY DEF Unregister
<1>3. p0 \in Leases /\ p0.id \in Ids /\ p0.who \in Users BY <1>1 DEF BrokerType, Leases
<1>4. [op |-> "unregister", who |-> NoUser, id |-> p0.id] \in Requests BY <1>3 DEF Requests
<1>5. /\ req' \in [Threads -> Calls] /\ \A v \in Threads : v # t => req'[v] = req[v]
      /\ req[t].st = "none" /\ req'[t].st = "lock" /\ req'[t].op = "unregister" /\ req'[t].id = p0.id
      /\ Asked(t)' \in Requests
  BY <1>1, <1>2, <1>3, <1>4, AskIs
<1>6. /\ held' \in [Threads -> SUBSET Leases] /\ held'[t] = held[t] \ {p0}
      /\ \A v \in Threads : v # t => held'[v] = held[v]
  BY <1>1, <1>2 DEF BrokerType
<1>7. /\ BrokerType' /\ Mutex' /\ OneOut'
      /\ \A v \in Threads, p \in Leases : v # t => (Owns(v, p)' <=> Owns(v, p))
      /\ \A v \in Threads, i \in Ids : v # t => (Retires(v, i)' <=> Retires(v, i))
      /\ \A i \in Ids : Orphan(i)' <=> Orphan(i)
  BY <1>2, <1>5, <1>6, CallerMoves
<1>8. \A p \in Leases : (Owns(t, p)' <=> p \in held'[t]) /\ (Owns(t, p) <=> p \in held[t])
  BY <1>5 DEF Owns, At
<1>9. \A i \in Ids : (Retires(t, i)' <=> i = p0.id) /\ ~Retires(t, i) BY <1>5 DEF Retires, At
<1>10. UNCHANGED <<reg, desynced, child>> BY <1>2 DEF wire, kid
<1>11. Owns(t, p0) /\ reg[p0.id] = p0.who /\ p0.who # NoUser BY <1>1, <1>3, <1>8 DEF Owned, Known
<1>12. \A v \in Threads, p \in Leases : Owns(v, p)' => Owns(v, p) /\ p.id # p0.id
  <2>1. SUFFICES ASSUME NEW v \in Threads, NEW p \in Leases, Owns(v, p)', p.id = p0.id PROVE FALSE
    BY <1>6, <1>7, <1>8
  <2>2. Owns(v, p) BY <1>6, <1>7, <1>8, <2>1
  <2>3. v = t /\ p.who = p0.who BY <1>1, <1>3, <1>11, <2>1, <2>2 DEF Owned
  <2>4. p = p0 BY <1>3, <2>1, <2>3 DEF Leases
  <2> QED BY <1>6, <1>8, <2>1, <2>3, <2>4
<1>13. \A v \in Threads : ~Retires(v, p0.id) /\ ~Orphan(p0.id)
  BY <1>1, <1>3, <1>11 DEF RetiredOnce
<1>14. \A v \in Threads, i \in Ids : Retires(v, i)' => Retires(v, i) \/ (v = t /\ i = p0.id)
  BY <1>7, <1>9
<1>15. Owned'
  <2>1. \A v \in Threads, p \in Leases : Owns(v, p)' => reg'[p.id] = p.who BY <1>1, <1>10, <1>12 DEF Owned
  <2>2. \A v, u \in Threads, p, q \in Leases : Owns(v, p)' /\ Owns(u, q)' /\ p.id = q.id => v = u
    BY <1>1, <1>12 DEF Owned
  <2> QED BY <2>1, <2>2 DEF Owned, Leases
<1>16. RetiredOnce'
  <2>1. SUFFICES ASSUME NEW i \in Ids
        PROVE  /\ \A v \in Threads : Retires(v, i)' \/ Orphan(i)' =>
                    reg'[i] # NoUser /\ \A u \in Threads, p \in Leases : Owns(u, p)' => p.id # i
               /\ \A v, u \in Threads : Retires(v, i)' => ~Orphan(i)' /\ (Retires(u, i)' => v = u)
    BY DEF RetiredOnce, Leases
  <2>2. /\ \A v \in Threads : Retires(v, i) \/ Orphan(i) =>
             reg[i] # NoUser /\ \A u \in Threads, p \in Leases : Owns(u, p) => p.id # i
        /\ \A v, u \in Threads : Retires(v, i) => ~Orphan(i) /\ (Retires(u, i) => v = u)
    BY <1>1 DEF RetiredOnce
  <2>3. CASE i = p0.id BY <1>7, <1>10, <1>11, <1>12, <1>13, <1>14, <2>3
  <2>4. CASE i # p0.id BY <1>7, <1>10, <1>12, <1>14, <2>2, <2>4
  <2> QED BY <2>3, <2>4
<1>17. Accounted'
  <2>1. SUFFICES ASSUME ~desynced', child' # "dead", NEW i \in Ids, reg'[i] # NoUser
        PROVE  \E v \in Threads : Retires(v, i)' \/ (\E p \in Leases : p.id = i /\ Owns(v, p)')
    BY DEF Accounted, Leases
  <2>2. PICK v \in Threads : Retires(v, i) \/ (\E p \in Leases : p.id = i /\ Owns(v, p))
    BY <1>1, <1>10, <2>1 DEF Accounted
  <2>3. CASE i = p0.id BY <1>9, <2>3
  <2>4. CASE i # p0.id BY <1>6, <1>7, <1>8, <1>9, <2>2, <2>4
  <2> QED BY <2>3, <2>4
<1> QED BY <1>7, <1>15, <1>16, <1>17 DEF BrokerInv

(***************************************************************************)
(* The theorems.                                                           *)
(***************************************************************************)
\* The broker starts with nothing registered and nothing under way.
LEMMA InitBroker == ASSUME Known, Init PROVE BrokerInv
<1>1. \A t \in Threads : req[t] = NoReq /\ held[t] = {} BY DEF Init
<1>2. NoReq.st = "none" /\ NoReq.op = "register" BY DEF NoReq
<1>3. \A t \in Threads : At(t, "none") /\ ~At(t, "recv") /\ ~At(t, "done") BY <1>1, <1>2 DEF At
<1>4. BrokerType
  <2>1. NoReq \in [st : {"none", "lock", "send", "recv", "done"}, op : {"register", "unregister"},
                   who : Users \cup {NoUser}, id : Ids \cup {0}, res : Answers]
    BY DEF NoReq, Answers, Done
  <2>2. \A t \in Threads : ~At(t, "none") => Asked(t) \in Requests BY <1>3
  <2>3. answer \in Answers BY DEF Answers, Init
  <2> QED BY <2>1, <2>2, <2>3 DEF BrokerType, Init
<1>5. Mutex BY <1>1, <1>2 DEF Mutex, Init, Known
<1>6. Quiet BY DEF Quiet, Init
<1>7. OneOut BY <1>3, <1>6 DEF OneOut
<1>8. \A t \in Threads, p \in Leases : ~Owns(t, p) BY <1>1, <1>3 DEF Owns
<1>9. \A t \in Threads, i \in Ids : ~Retires(t, i) /\ ~Orphan(i) BY <1>1, <1>2 DEF Retires, Orphan, Init
<1>10. Owned /\ RetiredOnce BY <1>8, <1>9 DEF Owned, RetiredOnce
<1>11. Accounted BY DEF Accounted, Init
<1> QED BY <1>4, <1>5, <1>7, <1>10, <1>11 DEF BrokerInv

\* Every step keeps the invariant.
LEMMA StepBroker == ASSUME Known, BrokerInv, [Next]_vars PROVE BrokerInv'
<1>1. ASSUME NEW t \in Threads, Trip(t) PROVE BrokerInv'
  BY <1>1, LockStep, SendStep, SendFailsStep, RecvStep, RecvFailsStep DEF Trip
<1>2. ASSUME NEW t \in Threads, NEW u \in Users, Register(t, u) PROVE BrokerInv' BY <1>2, RegisterStep
<1>3. ASSUME NEW t \in Threads, Unregister(t) \/ Return(t) PROVE BrokerInv'
  BY <1>3, UnregisterStep, ReturnStep
<1>4. CASE Child BY <1>4, ChildServeStep, ChildReplyStep, ChildDiesStep DEF Child
<1>5. CASE UNCHANGED vars
  <2>1. UNCHANGED <<sock, desynced, toChild, fromChild, child, answer, reg, req, held>>
    BY <1>5 DEF vars, wire, kid
  <2>2. BrokerType /\ Mutex /\ OneOut /\ Owned /\ RetiredOnce /\ Accounted BY DEF BrokerInv
  <2>3. BrokerType' BY <2>1, <2>2 DEF BrokerType, Asked, At
  <2>4. Mutex' BY <2>1, <2>2 DEF Mutex
  <2>5. OneOut' BY <2>1, <2>2 DEF OneOut, Quiet, Sent, Answered, Asked, At
  <2>6. \A t \in Threads, p \in Leases : Owns(t, p)' <=> Owns(t, p)
    BY <2>1 DEF Owns, Sent, Answered, Asked, At
  <2>7. \A t \in Threads, i \in Ids : (Retires(t, i)' <=> Retires(t, i)) /\ (Orphan(i)' <=> Orphan(i))
    BY <2>1 DEF Retires, Orphan, Sent, Asked, At
  <2>8. Owned' BY <2>1, <2>2, <2>6 DEF Owned
  <2>9. RetiredOnce' BY <2>1, <2>2, <2>6, <2>7 DEF RetiredOnce
  <2>10. Accounted' BY <2>1, <2>2, <2>6, <2>7 DEF Accounted
  <2> QED BY <2>3, <2>4, <2>5, <2>8, <2>9, <2>10 DEF BrokerInv
<1> QED BY <1>1, <1>2, <1>3, <1>4, <1>5 DEF Next

\* One request is under way at most, its answer goes to the thread that asked, and
\* every personality is owned once or is being retired (CredBroker::round_trip, broker_loop).
THEOREM BrokerInvariant == ASSUME Known PROVE Spec => []BrokerInv
<1>1. Init => BrokerInv BY InitBroker
<1>2. BrokerInv /\ [Next]_vars => BrokerInv' BY StepBroker
<1> QED BY <1>1, <1>2, PTL DEF Spec

\* Whatever the child does and whenever a receive gives up, what a thread holds is
\* registered as the identity it asked for, and no other thread holds it.
THEOREM RepliesAttributed == ASSUME Known PROVE Spec => []Attribution
<1>1. BrokerInv => Attribution
  <2> SUFFICES ASSUME BrokerInv PROVE Attribution OBVIOUS
  <2>1. BrokerType /\ Owned BY DEF BrokerInv
  <2>2. \A t \in Threads : \A p \in held[t] : p \in Leases /\ Owns(t, p) BY <2>1 DEF BrokerType, Owns
  <2>3. Attributed BY <2>1, <2>2 DEF Attributed, Owned
  <2>4. ASSUME NEW t \in Threads, NEW u \in Threads, NEW p \in held[t], NEW q \in held[u], p.id = q.id
        PROVE  t = u /\ p = q
    <3>1. t = u BY <2>1, <2>2, <2>4 DEF Owned
    <3>2. p.who = q.who BY <2>3, <2>4 DEF Attributed
    <3> QED BY <2>2, <2>4, <3>1, <3>2 DEF Leases
  <2> QED BY <2>3, <2>4 DEF Attribution
<1> QED BY <1>1, BrokerInvariant, PTL

\* While the child lives and no receive has given up, every personality on the
\* ring is somebody's: held, or the subject of a request that is under way.
THEOREM NothingLeaks == ASSUME Known PROVE Spec => []NoneLeaked
<1>1. BrokerInv => NoneLeaked
  <2> SUFFICES ASSUME BrokerInv, ~desynced, child # "dead", NEW i \in Ids, reg[i] # NoUser
               PROVE  \/ \E t \in Threads : \E p \in held[t] : p.id = i
                      \/ \E t \in Threads : ~At(t, "none") /\ (req[t].op = "register" \/ req[t].id = i)
    BY DEF NoneLeaked
  <2>1. Accounted BY DEF BrokerInv
  <2>2. PICK t \in Threads : Retires(t, i) \/ (\E p \in Leases : p.id = i /\ Owns(t, p)) BY <2>1 DEF Accounted
  <2>3. CASE Retires(t, i) BY <2>3 DEF Retires, At
  <2>4. CASE \E p \in Leases : p.id = i /\ Owns(t, p) BY <2>4 DEF Owns, At
  <2> QED BY <2>2, <2>3, <2>4
<1> QED BY <1>1, BrokerInvariant, PTL
==============================================================================
