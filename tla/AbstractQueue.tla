---------------------------- MODULE AbstractQueue ----------------------------
(* What the offline queue promises to its callers, popHeartbeats,            *)
(* pushHeartbeats and CountHeartbeats of any number of wakatime-cli          *)
(* processes: a call takes effect at one instant between its start and its   *)
(* return, or not at all, and one that fails has no effect.                  *)
EXTENDS QueueCalls

CONSTANT Client    \* the goroutines, of all processes, that use the queue

VARIABLES
  queue,     \* the stored heartbeats
  call,      \* what each client asks for
  result     \* the outcome of its call

absVars == <<queue, call, result>>

-----------------------------------------------------------------------------
AbsInit ==
  /\ queue \in Stored
  /\ call = [c \in Client |-> NoCall]
  /\ result = [c \in Client |-> Pending]

Invoke(c) ==
  /\ call[c] = NoCall
  /\ \E op \in Call \ {NoCall} : call' = [call EXCEPT ![c] = op]
  /\ result' = [result EXCEPT ![c] = Pending]
  /\ UNCHANGED queue

Perform(c) ==
  /\ call[c] # NoCall /\ result[c] = Pending
  /\ Effect(queue, call[c], queue', result'[c])
  /\ result' = [result EXCEPT ![c] = result'[c]]
  /\ UNCHANGED call

Refuse(c) ==
  /\ call[c] # NoCall /\ result[c] = Pending
  /\ result' = [result EXCEPT ![c] = Failed]
  /\ UNCHANGED <<queue, call>>

Return(c) ==
  /\ call[c] # NoCall /\ result[c] # Pending
  /\ call' = [call EXCEPT ![c] = NoCall]
  /\ UNCHANGED <<queue, result>>

Abandon(c) ==
  /\ call[c] # NoCall
  /\ call' = [call EXCEPT ![c] = NoCall]
  /\ result' = [result EXCEPT ![c] = Pending]
  /\ UNCHANGED queue

AbsNext == \E c \in Client : Invoke(c) \/ Perform(c) \/ Refuse(c) \/ Return(c) \/ Abandon(c)

AbsSpec == AbsInit /\ [][AbsNext]_absVars
=============================================================================
