------------------------------ MODULE FsCalls -------------------------------
(***************************************************************************)
(* What FsHandle promises a caller, with nothing said about queues, wake-  *)
(* ups or rings: a call is refused before it is made, or it is open until  *)
(* it has exactly one answer, which only the caller can take away.  Once   *)
(* the reactor is closing every open call is answered.                     *)
(***************************************************************************)
CONSTANT Clients

VARIABLES call,      \* each client's call: "idle", "open" or "answered"
          closing    \* whether a stop has been requested

callVars == <<call, closing>>

Init == call = [c \in Clients |-> "idle"] /\ closing = FALSE

\* send() returned Ok.
Open(c) ==
  /\ call[c] = "idle"
  /\ call' = [call EXCEPT ![c] = "open"]
  /\ UNCHANGED closing

\* The reply channel holds an outcome, or has lost its sender.
Answer(c) ==
  /\ call[c] = "open"
  /\ call' = [call EXCEPT ![c] = "answered"]
  /\ UNCHANGED closing

\* The drop of the host answers every call still queued at once.
AnswerAll(S) ==
  /\ \A c \in S : call[c] = "open"
  /\ call' = [c \in Clients |-> IF c \in S THEN "answered" ELSE call[c]]
  /\ UNCHANGED closing

Return(c) ==
  /\ call[c] = "answered"
  /\ call' = [call EXCEPT ![c] = "idle"]
  /\ UNCHANGED closing

Close == closing' = TRUE /\ UNCHANGED call

Next ==
  \/ \E c \in Clients : Open(c) \/ Answer(c) \/ Return(c)
  \/ \E S \in SUBSET Clients : AnswerAll(S)
  \/ Close

Steps == Init /\ [][Next]_callVars

\* A closing reactor leaves no call open.
Spec ==
  /\ Steps
  /\ \A c \in Clients : (closing /\ call[c] = "open") ~> (call[c] # "open")
=============================================================================
