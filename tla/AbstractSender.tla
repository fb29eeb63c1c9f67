--------------------------- MODULE AbstractSender ---------------------------
(* What a heartbeat.Sender promises to the handles above it (WithQueue and   *)
(* Sync of pkg/offline): it answers with an error, or with results of which  *)
(* the one at index n is the API's answer to the heartbeat at index n.  This *)
(* is what Delivery assumes of the answers it enumerates.                    *)
EXTENDS Sequences, Naturals, Functions

CONSTANTS Heartbeat, Request, Status

VARIABLES
  request,    \* the heartbeats a call sends, <<>> between calls
  answer,     \* the answer of the call
  stored      \* of the API: the heartbeats it has stored

absVars == <<request, answer, stored>>

NoAnswer == [kind |-> "none"]
Failure == [kind |-> "error"]
Success(statuses) == [kind |-> "results", statuses |-> statuses]

-----------------------------------------------------------------------------
AbsInit == request = <<>> /\ answer = NoAnswer /\ stored = {}

Invoke ==
  /\ request = <<>>
  /\ request' \in Request
  /\ answer' = NoAnswer
  /\ UNCHANGED stored

Store ==
  /\ request # <<>> /\ answer = NoAnswer
  /\ \E S \in SUBSET Range(request) : stored' = stored \cup S
  /\ UNCHANGED <<request, answer>>

Fail ==
  /\ request # <<>> /\ answer = NoAnswer
  /\ answer' = Failure
  /\ UNCHANGED <<request, stored>>

Succeed ==
  /\ request # <<>> /\ answer = NoAnswer
  /\ answer' \in {Success(s) : s \in UNION {[1..k -> Status] : k \in 0..Len(request) + 1}}
  /\ \A n \in DOMAIN request \cap DOMAIN answer'.statuses :
       answer'.statuses[n] = "ok" => request[n] \in stored
  /\ UNCHANGED <<request, stored>>

Finish ==
  /\ answer # NoAnswer
  /\ request' = <<>> /\ answer' = NoAnswer
  /\ UNCHANGED stored

AbsNext == Invoke \/ Store \/ Fail \/ Succeed \/ Finish

AbsSpec == AbsInit /\ [][AbsNext]_absVars
=============================================================================
