----------------------------- MODULE CredWindow -----------------------------
(***************************************************************************)
(* The broker child's impersonation window (uring_fs/broker.rs,            *)
(* register_as): it takes on the requested identity one system call at a   *)
(* time, has the ring snapshot its credentials as a personality, and goes  *)
(* back.  Any of the calls on the way in may fail.  The kernel's rules for *)
(* setgroups, setresgid, setresuid and capset are those the code's         *)
(* comments rely on.                                                       *)
(*                                                                         *)
(* SetId stands for CAP_SETUID and CAP_SETGID, Dac for the capabilities a  *)
(* policy may grant; NoChange is the (uid_t)-1 of setres*id.               *)
(***************************************************************************)
EXTENDS Integers, Sequences, SequencesExt, FiniteSets, FiniteSetTheorems, TLAPS

CONSTANTS Own,            \* the uid and gid of a child that is not root
          User,           \* another uid and gid, not root's either
          Lists,          \* the lists of supplementary groups it may meet
          NoChange        \* no uid or gid

VARIABLES
  root, allowed,          \* spawn_policy: the limit for uid 0, if any, and for others
  permitted,              \* the child's permitted set: never lowered
  base,                   \* its credentials at the start
  cred,                   \* its credentials now
  pc, req,                \* register_as: the next call, and the request
  minted                  \* the last personality: [req, cred] of its making, or {}

vars == <<root, allowed, permitted, base, cred, pc, req, minted>>

SetId == "setid"
Dac   == "dac"

Reqs  == [uid : {0, Own, User, NoChange}, gid : {0, Own, User, NoChange}, groups : Lists,
          caps : SUBSET {Dac}]
NoReq == [uid |-> User, gid |-> User, groups |-> <<>>, caps |-> {}]   \* between requests

Init ==
  /\ root \in {{}} \cup {{lim} : lim \in SUBSET {Dac}} /\ allowed \in SUBSET {Dac}
  /\ \/ /\ permitted = {SetId, Dac}
        /\ \E gs \in Lists : base = [euid |-> 0, egid |-> 0, groups |-> gs, eff |-> permitted]
     \/ /\ permitted \in SUBSET {SetId, Dac}
        /\ \E gs \in Lists : base = [euid |-> Own, egid |-> Own, groups |-> gs, eff |-> permitted]
  /\ cred = base /\ pc = "idle" /\ minted = {}
  /\ req = NoReq

(***************************************************************************)
(* The kernel.  The saved ids are 0 wherever these are called.             *)
(***************************************************************************)
MaySetId(c) == SetId \in c.eff

\* cap_emulate_setxuid: leaving uid 0 empties the effective set, coming back
\* refills it from the permitted one.
SetResUid(c, u) ==
  IF u = NoChange THEN c
  ELSE [c EXCEPT !.euid = u,
                 !.eff = IF c.euid = 0 /\ u # 0 THEN {}
                         ELSE IF c.euid # 0 /\ u = 0 THEN permitted ELSE @]
SetResGid(c, g) == IF g = NoChange THEN c ELSE [c EXCEPT !.egid = g]
SetGroups(c, gs) == IF MaySetId(c) THEN [c EXCEPT !.groups = gs] ELSE c

(***************************************************************************)
(* register_as.                                                            *)
(***************************************************************************)
Repeats(gs) == \E i, j \in DOMAIN gs : i < j /\ gs[i] = gs[j]

\* Mutant: equal length and containment are taken for equality.
DiffersContained(cur, gs) == Len(cur) # Len(gs) \/ \E i \in DOMAIN gs : ~Contains(cur, gs[i])

\* group_set_differs
Differs(cur, gs) ==
  \/ Len(cur) # Len(gs)
  \/ Repeats(gs) \/ Repeats(cur)
  \/ \E i \in DOMAIN gs : ~Contains(cur, gs[i])

NeedsImpersonation(r) ==
  r.uid # cred.euid \/ r.gid # cred.egid \/ Differs(cred.groups, r.groups)

\* decode_request: uid 0 has a ceiling of its own, or is not served.
Served(r) == \E lim \in (IF r.uid = 0 THEN root ELSE {allowed}) : r.caps \subseteq lim

\* set_effective_caps: the permitted set is left alone, restore_effective_caps
\* fills the effective one from it.
SetEffectiveCaps(c, caps) == [c EXCEPT !.eff = caps]
RestoreEffectiveCaps(c)   == [c EXCEPT !.eff = permitted]

\* Mutant of Revert: the capabilities last.
ClosedLate(c) == RestoreEffectiveCaps(SetGroups(SetResGid(SetResUid(c, 0), 0), <<>>))

\* revert: the capabilities, the uid, the gid and then the groups.
Closed(c) == SetGroups(SetResGid(SetResUid(RestoreEffectiveCaps(c), 0), 0), <<>>)

Mint      == minted' = {[req |-> req, cred |-> cred]}
Window    == /\ req' = IF pc' = "idle" THEN NoReq ELSE req
             /\ UNCHANGED <<root, allowed, permitted, base>>
Refuse    == pc' = "idle" /\ minted' = {} /\ UNCHANGED cred
Revert    == pc' = "idle" /\ cred' = Closed(cred)

Request(r) ==
  /\ pc = "idle" /\ minted' = {}
  /\ \/ Served(r) /\ pc' = "begin" /\ req' = r
     \/ ~Served(r) /\ pc' = "idle" /\ req' = NoReq
  /\ UNCHANGED <<root, allowed, permitted, base, cred>>

\* The child's own identity needs no window, and is granted nothing.
FastPath ==
  /\ pc = "begin" /\ req.uid # 0 /\ ~NeedsImpersonation(req)
  /\ \/ req.caps = {} /\ Mint /\ pc' = "idle" /\ UNCHANGED cred
     \/ Refuse
  /\ Window

\* A window opens from euid 0 only.
Open ==
  /\ pc = "begin" /\ (req.uid = 0 \/ NeedsImpersonation(req))
  /\ \/ cred.euid # 0 /\ Refuse
     \/ /\ cred.euid = 0 /\ MaySetId(cred)
        /\ cred' = SetGroups(cred, req.groups) /\ pc' = "gid" /\ minted' = {}
     \/ cred.euid = 0 /\ Revert /\ minted' = {}
  /\ Window

Gid ==
  /\ pc = "gid" /\ minted' = {}
  /\ \/ cred' = SetResGid(cred, req.gid) /\ pc' = "uid"
     \/ Revert
  /\ Window

Uid ==
  /\ pc = "uid" /\ minted' = {}
  /\ \/ cred' = SetResUid(cred, req.uid) /\ pc' = "check"
     \/ Revert
  /\ Window

\* The ids are read back before anything is snapshot.
Check ==
  /\ pc = "check" /\ minted' = {}
  /\ \/ cred.euid = req.uid /\ cred.egid = req.gid /\ pc' = "caps" /\ UNCHANGED cred
     \/ (cred.euid # req.uid \/ cred.egid # req.gid) /\ Revert
  /\ Window

\* Always for uid 0, whose set nothing has emptied.
SetCaps ==
  /\ pc = "caps" /\ minted' = {}
  /\ \/ /\ pc' = "snap"
        /\ cred' = IF req.uid = 0 \/ req.caps # {} THEN SetEffectiveCaps(cred, req.caps) ELSE cred
     \/ (req.uid = 0 \/ req.caps # {}) /\ Revert
  /\ Window

\* register_personality, and the window closed whatever it answered.
Snapshot ==
  /\ pc = "snap" /\ (Mint \/ minted' = {}) /\ Revert
  /\ Window

Next ==
  \/ \E r \in Reqs : Request(r)
  \/ FastPath \/ Open \/ Gid \/ Uid \/ Check \/ SetCaps \/ Snapshot

Spec == Init /\ [][Next]_vars

(***************************************************************************)
(* Properties.                                                             *)
(***************************************************************************)
\* A personality carries the ids and groups its request named and no other.  It
\* carries exactly the capabilities asked for, unless it is a child that is not
\* root registering itself.
SnapshotExact ==
  \A m \in minted :
    /\ m.cred.euid = m.req.uid /\ m.cred.egid = m.req.gid
    /\ ToSet(m.cred.groups) = ToSet(m.req.groups)
    /\ m.cred.eff = m.req.caps \/ (base.euid # 0 /\ m.req.caps = {} /\ m.cred = base)

\* Between requests the child is itself again, whatever failed in the last one,
\* with the whole of its authority and none of the groups it took on.
WindowClosed ==
  pc = "idle" => cred = base \/ (base.euid = 0 /\ cred = [base EXCEPT !.groups = <<>>])

(***************************************************************************)
(* Proofs: what a personality carries, and what is left of a window once it*)
(* is closed, for any lists of groups.                                     *)
(***************************************************************************)
\* What is known of the constants: -1 is not root, and a list of groups is a
\* sequence.
Known == NoChange # 0 /\ \A gs \in Lists : gs \in Seq(ToSet(gs))

(***************************************************************************)
(* group_set_differs.                                                      *)
(***************************************************************************)
\* A list without repetitions has as many members as entries, any other list
\* no more.
LEMMA ListSize ==
  ASSUME NEW G, NEW gs \in Seq(G)
  PROVE  /\ IsFiniteSet(ToSet(gs)) /\ Cardinality(ToSet(gs)) <= Len(gs)
         /\ ~Repeats(gs) => Cardinality(ToSet(gs)) = Len(gs)
<1> DEFINE n == Len(gs)  S == ToSet(gs)
<1>1. n \in Nat /\ DOMAIN gs = 1 .. n OBVIOUS
<1>2. gs \in [1 .. n -> S] BY <1>1 DEF ToSet
<1>3. gs \in Surjection(1 .. n, S) BY <1>1, <1>2 DEF ToSet, Surjection
<1>4. ExistsSurjection(1 .. n, S) BY <1>3 DEF ExistsSurjection
<1>5. IsFiniteSet(S) BY <1>1, <1>4, FS_NatSurjection
<1>6. Cardinality(S) <= n BY <1>1, <1>4, FS_SurjCardinalityBound
<1>7. ASSUME ~Repeats(gs) PROVE Cardinality(S) = n
  <2>1. \A i, j \in 1 .. n : gs[i] = gs[j] => i = j BY <1>1, <1>7 DEF Repeats
  <2>2. gs \in Bijection(1 .. n, S) BY <1>2, <1>3, <2>1 DEF Bijection, Injection, IsInjective
  <2>3. ExistsBijection(1 .. n, S) BY <2>2 DEF ExistsBijection
  <2> QED BY <1>1, <2>3, FS_CountingElements
<1> QED BY <1>5, <1>6, <1>7

\* group_set_differs answers false only for lists of the same groups: equal
\* lengths, no repetitions and containment make the two sets one.
LEMMA SameGroups ==
  ASSUME NEW G, NEW cur \in Seq(G), NEW gs \in Seq(G), ~Differs(cur, gs)
  PROVE  ToSet(cur) = ToSet(gs)
<1>1. Len(cur) = Len(gs) /\ ~Repeats(gs) /\ \A i \in DOMAIN gs : Contains(cur, gs[i])
  BY DEF Differs
<1>2. ToSet(gs) \in SUBSET ToSet(cur) BY <1>1 DEF ToSet, Contains
<1>3. /\ IsFiniteSet(ToSet(cur)) /\ Cardinality(ToSet(cur)) <= Len(gs)
      /\ Cardinality(ToSet(gs)) = Len(gs)
  BY <1>1, ListSize
<1>4. Cardinality(ToSet(cur)) \in Nat /\ Len(gs) \in Nat BY <1>3, FS_CardinalityType
<1>5. Cardinality(ToSet(gs)) <= Cardinality(ToSet(cur)) BY <1>2, <1>3, FS_Subset
<1>6. Cardinality(ToSet(cur)) = Cardinality(ToSet(gs)) BY <1>3, <1>4, <1>5
<1> QED BY <1>2, <1>3, <1>6, FS_Subset

(***************************************************************************)
(* The invariant.                                                          *)
(***************************************************************************)
Uids   == {0, Own, User, NoChange}
Inside == pc \in {"gid", "uid", "check", "caps", "snap"}

\* The child as it is between requests: as it began, but for the groups of a
\* root one.
Home == cred = base \/ (base.euid = 0 /\ cred = [base EXCEPT !.groups = <<>>])

WindowType ==
  /\ pc \in {"idle", "begin", "gid", "uid", "check", "caps", "snap"}
  /\ permitted \in SUBSET {SetId, Dac}
  /\ base \in [euid : Uids, egid : Uids, groups : Lists, eff : {permitted}]
  /\ base.euid = 0 => base.egid = 0
  /\ cred \in [euid : Uids, egid : Uids, groups : Lists \cup {<<>>}, eff : SUBSET {SetId, Dac}]
  /\ pc # "idle" => req \in Reqs

\* What the steps of a window have done so far.  It opens from root with the
\* authority to set ids, which the permitted set keeps; leaving root empties
\* the effective set.
Progress ==
  /\ Inside => base.euid = 0 /\ SetId \in permitted /\ cred.groups = req.groups
  /\ pc \in {"gid", "uid"} => cred.euid = 0
  /\ pc = "check" /\ cred.euid # 0 => cred.eff = {}
  /\ pc \in {"caps", "snap"} => cred.euid = req.uid /\ cred.egid = req.gid
  /\ pc = "caps" /\ req.uid # 0 => cred.eff = {}
  /\ pc = "snap" => cred.eff = req.caps

WindowInv ==
  /\ WindowType /\ Progress
  /\ ~Inside => Home
  /\ SnapshotExact

\* Closing a window brings the child home from anywhere in it: with the permitted
\* set back in force the groups can be reset.
LEMMA ClosedIsHome ==
  ASSUME Known, WindowType,
         (Inside /\ base.euid = 0 /\ SetId \in permitted) \/ (Home /\ base.euid = 0)
  PROVE  LET c == Closed(cred) IN
           /\ c \in [euid : Uids, egid : Uids, groups : Lists \cup {<<>>}, eff : SUBSET {SetId, Dac}]
           /\ c = base \/ c = [base EXCEPT !.groups = <<>>]
<1> DEFINE a == RestoreEffectiveCaps(cred)
           b == SetResUid(a, 0)
           d == SetResGid(b, 0)
<1>1. a = [euid |-> cred.euid, egid |-> cred.egid, groups |-> cred.groups, eff |-> permitted]
  BY DEF WindowType, RestoreEffectiveCaps
<1>0. NoChange # 0 BY DEF Known
<1>2. b = [euid |-> 0, egid |-> cred.egid, groups |-> cred.groups, eff |-> permitted]
  <2> HIDE DEF a
  <2>1. a.euid = cred.euid /\ a.eff = permitted BY <1>1
  <2>2. b = [a EXCEPT !.euid = 0, !.eff = permitted] BY <1>0, <2>1 DEF SetResUid
  <2> QED BY <1>1, <2>2
<1>3. d = [euid |-> 0, egid |-> 0, groups |-> cred.groups, eff |-> permitted]
  BY <1>0, <1>2 DEF SetResGid
<1>4. base = [euid |-> 0, egid |-> 0, groups |-> base.groups, eff |-> permitted]
  BY DEF WindowType
<1>5. Closed(cred) = SetGroups(d, <<>>) BY DEF Closed
<1>6. CASE SetId \in permitted
  <2>1. Closed(cred) = [euid |-> 0, egid |-> 0, groups |-> <<>>, eff |-> permitted]
    BY <1>3, <1>5, <1>6 DEF SetGroups, MaySetId
  <2> QED BY <1>4, <2>1 DEF WindowType, Uids
<1>7. CASE SetId \notin permitted
  <2>1. Closed(cred) = d BY <1>3, <1>5, <1>7 DEF SetGroups, MaySetId
  <2>2. Home BY <1>7
  <2> QED BY <1>3, <1>4, <2>1, <2>2 DEF Home, WindowType, Uids
<1> QED BY <1>6, <1>7

\* The child before its first request.
LEMMA InitWindow == ASSUME Known, Init PROVE WindowInv
<1>1. WindowType BY DEF Init, WindowType, Uids, SetId, Dac, Reqs
<1>2. Progress /\ Home /\ SnapshotExact BY DEF Init, Progress, Inside, Home, SnapshotExact
<1> QED BY <1>1, <1>2 DEF WindowInv

\* A step that closes the window: home again, with no personality, or with the
\* one just registered.
LEMMA CloseKeeps ==
  ASSUME Known, WindowInv, Revert, Window, SnapshotExact',
         Inside \/ base.euid = 0
  PROVE  WindowInv'
<1>1. base.euid = 0 /\ (Inside => SetId \in permitted) BY DEF WindowInv, Progress
<1>2. (Inside /\ base.euid = 0 /\ SetId \in permitted) \/ (Home /\ base.euid = 0)
  BY <1>1 DEF WindowInv
<1>3. /\ cred' \in [euid : Uids, egid : Uids, groups : Lists \cup {<<>>}, eff : SUBSET {SetId, Dac}]
      /\ cred' = base \/ cred' = [base EXCEPT !.groups = <<>>]
  BY <1>2, ClosedIsHome DEF WindowInv, Revert
<1>4. pc' = "idle" /\ UNCHANGED <<permitted, base>> BY DEF Revert, Window
<1>5. WindowType' BY <1>3, <1>4 DEF WindowInv, WindowType, Uids
<1>6. Progress' /\ Home' BY <1>1, <1>3, <1>4 DEF Progress, Inside, Home
<1> QED BY <1>5, <1>6 DEF WindowInv

\* A request refused, or not yet begun, finds and leaves the child at home.
LEMMA HomeKeeps ==
  ASSUME WindowInv, ~Inside, UNCHANGED <<permitted, base, cred>>,
         pc' = "idle" \/ (pc' = "begin" /\ req' \in Reqs), SnapshotExact'
  PROVE  WindowInv'
<1>1. WindowType' BY DEF WindowInv, WindowType, Uids, Reqs
<1>2. Progress' /\ Home' BY DEF WindowInv, Progress, Inside, Home
<1> QED BY <1>1, <1>2 DEF WindowInv

\* Every step of register_as keeps the invariant.
LEMMA StepWindow == ASSUME Known, WindowInv, [Next]_vars PROVE WindowInv'
<1>1. ASSUME minted' = {} PROVE SnapshotExact' BY <1>1 DEF SnapshotExact
<1>2. ASSUME NEW r \in Reqs, Request(r) PROVE WindowInv'
  <2>1. ~Inside /\ UNCHANGED <<permitted, base, cred>> /\ SnapshotExact'
    BY <1>1, <1>2 DEF Request, Inside
  <2>2. pc' = "idle" \/ (pc' = "begin" /\ req' \in Reqs) BY <1>2 DEF Request
  <2> QED BY <2>1, <2>2, HomeKeeps
<1>3. CASE FastPath
  <2>1. ~Inside /\ UNCHANGED <<permitted, base, cred>> /\ pc' = "idle"
    BY <1>3 DEF FastPath, Refuse, Window, Inside
  <2>2. CASE minted' = {} BY <1>1, <2>1, <2>2, HomeKeeps
  <2>3. CASE Mint /\ req.caps = {}
    <3>1. cred.euid = req.uid /\ cred.egid = req.gid /\ ~Differs(cred.groups, req.groups)
      BY <1>3 DEF FastPath, NeedsImpersonation
    <3>2. base.euid # 0 /\ cred = base
      BY <1>3, <2>1, <3>1 DEF FastPath, WindowInv, Home, WindowType
    <3>3. ToSet(cred.groups) = ToSet(req.groups)
      <4>1. cred.groups \in Lists /\ req.groups \in Lists
        BY <1>3, <3>2 DEF FastPath, WindowInv, WindowType, Reqs
      <4> DEFINE G == ToSet(cred.groups) \cup ToSet(req.groups)
      <4>2. cred.groups \in Seq(ToSet(cred.groups)) /\ req.groups \in Seq(ToSet(req.groups))
        BY <4>1 DEF Known
      <4>3. cred.groups \in Seq(G) /\ req.groups \in Seq(G) BY <4>2
      <4> QED BY <3>1, <4>3, SameGroups
    <3>4. SnapshotExact'
      <4>1. minted' = {[req |-> req, cred |-> cred]} /\ UNCHANGED base BY <2>1, <2>3 DEF Mint
      <4> QED BY <2>3, <3>1, <3>2, <3>3, <4>1 DEF SnapshotExact
    <3> QED BY <2>1, <3>4, HomeKeeps
  <2> QED BY <1>3, <2>2, <2>3 DEF FastPath, Refuse
<1> DEFINE Creds == [euid : Uids, egid : Uids, groups : Lists \cup {<<>>}, eff : SUBSET {SetId, Dac}]
<1>4. CASE Open
  <2>1. pc = "begin" /\ ~Inside /\ Home /\ minted' = {} /\ UNCHANGED <<permitted, base>>
    BY <1>4 DEF Open, Refuse, Window, Inside, WindowInv
  <2>2. CASE Refuse BY <1>1, <2>1, <2>2, HomeKeeps DEF Refuse
  <2>3. CASE cred.euid = 0 /\ Revert
    <3>1. base.euid = 0 BY <2>1, <2>3 DEF Home, WindowInv, WindowType
    <3> QED BY <1>1, <1>4, <2>1, <2>3, <3>1, CloseKeeps DEF Open
  <2>4. CASE /\ cred.euid = 0 /\ MaySetId(cred)
             /\ cred' = SetGroups(cred, req.groups) /\ pc' = "gid"
    <3>1. base.euid = 0 /\ cred.eff = permitted
      BY <2>1, <2>4 DEF Home, WindowInv, WindowType
    <3>2. req' = req /\ req \in Reqs BY <1>4, <2>1, <2>4 DEF Open, Window, WindowInv, WindowType
    <3>3. cred' = [cred EXCEPT !.groups = req.groups] /\ SetId \in permitted
      BY <2>4, <3>1 DEF SetGroups, MaySetId
    <3>4. cred' \in Creds /\ cred'.euid = 0 /\ cred'.groups = req.groups
      BY <2>4, <3>2, <3>3 DEF WindowInv, WindowType, Reqs
    <3>5. WindowType' BY <2>1, <2>4, <3>2, <3>4 DEF WindowInv, WindowType, Uids, Reqs
    <3>6. Progress' BY <2>1, <2>4, <3>1, <3>2, <3>3, <3>4 DEF Progress, Inside
    <3> QED BY <1>1, <2>1, <2>4, <3>5, <3>6 DEF WindowInv, Inside
  <2> QED BY <1>4, <2>2, <2>3, <2>4 DEF Open
<1>5. ASSUME Inside, pc' \in {"uid", "check", "caps", "snap"}, Window, minted' = {},
             cred' \in Creds, cred'.groups = cred.groups, Progress'
      PROVE  WindowInv'
  <2>1. req' = req /\ UNCHANGED <<permitted, base>> BY <1>5 DEF Window
  <2>2. WindowType' BY <1>5, <2>1 DEF WindowInv, WindowType, Inside, Uids, Reqs
  <2> QED BY <1>1, <1>5, <2>2 DEF WindowInv, Inside
<1>6. CASE Gid
  <2>1. Inside /\ minted' = {} /\ Window BY <1>6 DEF Gid, Inside
  <2>2. CASE Revert BY <1>1, <2>1, <2>2, CloseKeeps
  <2>3. CASE cred' = SetResGid(cred, req.gid) /\ pc' = "uid"
    <3>1. req' = req /\ req \in Reqs /\ UNCHANGED <<permitted, base>>
      BY <1>6, <2>3 DEF Gid, Window, WindowInv, WindowType
    <3>2. cred' \in Creds /\ cred'.euid = cred.euid /\ cred'.groups = cred.groups
      BY <2>3, <3>1 DEF SetResGid, WindowInv, WindowType, Reqs, Uids
    <3>3. Progress' BY <1>6, <2>3, <3>1, <3>2 DEF Gid, WindowInv, Progress, Inside
    <3> QED BY <1>5, <2>1, <2>3, <3>2, <3>3
  <2> QED BY <1>6, <2>2, <2>3 DEF Gid
<1>7. CASE Uid
  <2>1. Inside /\ minted' = {} /\ Window BY <1>7 DEF Uid, Inside
  <2>2. CASE Revert BY <1>1, <2>1, <2>2, CloseKeeps
  <2>3. CASE cred' = SetResUid(cred, req.uid) /\ pc' = "check"
    <3>1. req' = req /\ req \in Reqs /\ UNCHANGED <<permitted, base>>
      BY <1>7, <2>3 DEF Uid, Window, WindowInv, WindowType
    <3>2. cred.euid = 0 BY <1>7 DEF Uid, WindowInv, Progress
    <3>3. CASE req.uid = NoChange \/ req.uid = 0
      <4>1. cred' \in Creds /\ cred'.groups = cred.groups /\ cred'.euid = 0
        BY <2>3, <3>1, <3>2, <3>3 DEF SetResUid, WindowInv, WindowType, Uids
      <4>2. Progress' BY <1>7, <2>3, <3>1, <4>1 DEF Uid, WindowInv, Progress, Inside
      <4> QED BY <1>5, <2>1, <2>3, <4>1, <4>2
    <3>4. CASE req.uid # NoChange /\ req.uid # 0
      <4>1. cred' = [cred EXCEPT !.euid = req.uid, !.eff = {}]
        BY <2>3, <3>2, <3>4 DEF SetResUid
      <4>2. cred' \in Creds /\ cred'.groups = cred.groups /\ cred'.eff = {}
        BY <3>1, <4>1 DEF WindowInv, WindowType, Uids, Reqs
      <4>3. Progress' BY <1>7, <2>3, <3>1, <4>2 DEF Uid, WindowInv, Progress, Inside
      <4> QED BY <1>5, <2>1, <2>3, <4>2, <4>3
    <3> QED BY <3>3, <3>4
  <2> QED BY <1>7, <2>2, <2>3 DEF Uid
<1>8. CASE Check
  <2>1. Inside /\ minted' = {} /\ Window BY <1>8 DEF Check, Inside
  <2>2. CASE Revert BY <1>1, <2>1, <2>2, CloseKeeps
  <2>3. CASE cred.euid = req.uid /\ cred.egid = req.gid /\ pc' = "caps" /\ UNCHANGED cred
    <3>1. Progress' BY <1>8, <2>1, <2>3 DEF Check, Window, WindowInv, Progress, Inside
    <3> QED BY <1>5, <2>1, <2>3, <3>1 DEF WindowInv, WindowType
  <2> QED BY <1>8, <2>2, <2>3 DEF Check
<1>9. CASE SetCaps
  <2>1. Inside /\ minted' = {} /\ Window BY <1>9 DEF SetCaps, Inside
  <2>2. CASE Revert BY <1>1, <2>1, <2>2, CloseKeeps
  <2>3. CASE /\ pc' = "snap"
             /\ cred' = IF req.uid = 0 \/ req.caps # {} THEN SetEffectiveCaps(cred, req.caps) ELSE cred
    <3>1. req' = req /\ req \in Reqs /\ UNCHANGED <<permitted, base>>
      BY <1>9, <2>3 DEF SetCaps, Window, WindowInv, WindowType
    <3>2. /\ cred' \in Creds /\ cred'.groups = cred.groups /\ cred'.euid = cred.euid
          /\ cred'.egid = cred.egid /\ cred'.eff = req.caps
      BY <1>9, <2>3, <3>1 DEF SetCaps, SetEffectiveCaps, WindowInv, WindowType, Progress, Reqs
    <3>3. Progress' BY <1>9, <2>3, <3>1, <3>2 DEF SetCaps, WindowInv, Progress, Inside
    <3> QED BY <1>5, <2>1, <2>3, <3>2, <3>3
  <2> QED BY <1>9, <2>2, <2>3 DEF SetCaps
<1>10. CASE Snapshot
  <2>1. pc = "snap" /\ Inside /\ Revert /\ Window BY <1>10 DEF Snapshot, Inside
  <2>2. CASE minted' = {} BY <1>1, <2>1, <2>2, CloseKeeps
  <2>3. CASE Mint
    <3>1. /\ cred.euid = req.uid /\ cred.egid = req.gid /\ cred.groups = req.groups
          /\ cred.eff = req.caps
      BY <2>1 DEF WindowInv, Progress
    <3>2. SnapshotExact' BY <2>3, <3>1 DEF Mint, SnapshotExact
    <3> QED BY <2>1, <3>2, CloseKeeps
  <2> QED BY <1>10, <2>2, <2>3 DEF Snapshot
<1>11. CASE UNCHANGED vars
  BY <1>11 DEF vars, WindowInv, WindowType, Progress, Inside, Home, SnapshotExact, Uids, Reqs
<1> QED BY <1>2, <1>3, <1>4, <1>6, <1>7, <1>8, <1>9, <1>10, <1>11 DEF Next

\* Whatever fails on the way, the window's invariant holds at every system call
\* of register_as.
THEOREM WindowInvariant == ASSUME Known PROVE Spec => []WindowInv
BY InitWindow, StepWindow, PTL DEF Spec

\* A personality carries the ids, the groups and the capabilities of the request
\* it was registered for (register_as), for any lists of groups.
THEOREM SnapshotsExact == ASSUME Known PROVE Spec => []SnapshotExact
<1>1. WindowInv => SnapshotExact BY DEF WindowInv
<1> QED BY <1>1, WindowInvariant, PTL

\* Between requests the child is itself again (register_as, revert), whichever
\* call of the last one failed.
THEOREM WindowsClose == ASSUME Known PROVE Spec => []WindowClosed
<1>1. WindowInv => WindowClosed BY DEF WindowInv, WindowClosed, Inside, Home
<1> QED BY <1>1, WindowInvariant, PTL
=============================================================================
