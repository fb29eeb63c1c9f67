------------------------------ MODULE BulkSend ------------------------------
(* Client.SendHeartbeats of pkg/api: one request per api key.  Heartbeats of *)
(* a single key are sent by the caller itself; for more keys a goroutine per *)
(* key adds its authentication to the client, which they share, sends its    *)
(* part and answers over two buffered channels.  The client of a sync serves *)
(* several calls, one after the other.                                       *)
EXTENDS Integers, Sequences, FiniteSets, Functions

CONSTANTS
  Heartbeat,
  Key,           \* the api keys: LoadAPIParams has checked them, WithAuth never fails
  DefaultKey,    \* the key of NewClient, settings.api_key
  ApiKey,        \* Heartbeat.ApiKey, as apikey.WithReplacing has set it
  Request,       \* the heartbeats of a call
  Status         \* the statuses the API gives single heartbeats

ASSUME KeyAssumption ==
  DefaultKey \in Key /\ ApiKey \in [Heartbeat -> Key]
ASSUME RequestAssumption == Request \subseteq Seq(Heartbeat)

VARIABLES
  pc,         \* what the caller does next
  request,    \* the heartbeats of the call
  answer,     \* what SendHeartbeats answers
  sender,     \* what the sender of each key does next
  seen,       \* the doFunc a goroutine has read and is about to wrap
  outcome,    \* what the sender of each key got from the API
  doFunc,     \* the client's doFunc: the keys it sets, the innermost last
  cherr,      \* the errors in the channel cherr
  chres,      \* the results in the channel chres
  open,       \* neither channel is closed
  stored,     \* of the API: the heartbeats it has stored
  sentWith    \* the keys heartbeats were sent with

vars == <<pc, request, answer, sender, seen, outcome, doFunc, cherr, chres, open, stored, sentWith>>

NoAnswer == [kind |-> "none"]
Failure == [kind |-> "error"]
Success(statuses) == [kind |-> "results", statuses |-> statuses]

(* groupByApiKey: the heartbeats of each key, in their order; part[n] is     *)
(* what the loop has appended after n of them.                               *)
Group(hh, k) ==
  LET part[n \in 0..Len(hh)] ==
        IF n = 0 THEN <<>>
        ELSE IF ApiKey[hh[n]] = k THEN Append(part[n - 1], hh[n]) ELSE part[n - 1]
  IN  part[Len(hh)]
Groups(hh) == {ApiKey[hh[n]] : n \in DOMAIN hh}
Single == Cardinality(Groups(request)) = 1

(* make(chan ..., len(grouped))                                              *)
CapacityUnbuffered(hh) == 0    \* a mutant
Capacity(hh) == Cardinality(Groups(hh))

(* The API's results may be fewer or more than the heartbeats.               *)
Results(hh) == UNION {[1..n -> Status] : n \in 0..Len(hh) + 1}
Outcomes(hh) == {Failure} \cup {Success(s) : s \in Results(hh)}

TypeOK ==
  /\ pc \in {"idle", "single", "wait", "errors", "return", "end"}
  /\ request \in Request \cup {<<>>}
  /\ answer \in {NoAnswer, Failure} \/ answer \in Outcomes(request)
  /\ sender \in [Key -> {"none", "auth", "wrap", "send", "put", "put second", "done"}]
  /\ DOMAIN outcome = Key
  /\ \A k \in Key : outcome[k] \in {NoAnswer} \cup Outcomes(Group(request, k))
  /\ doFunc \in Seq(Key) /\ seen \in [Key -> Seq(Key)]
  /\ cherr \in Seq(BOOLEAN) /\ chres \in Seq(Results(request))
  /\ open \in BOOLEAN
  /\ stored \subseteq Heartbeat /\ sentWith \in [Heartbeat -> SUBSET Key]

-----------------------------------------------------------------------------
Init ==
  /\ pc = "idle" /\ request = <<>> /\ answer = NoAnswer
  /\ sender = [k \in Key |-> "none"]
  /\ seen = [k \in Key |-> <<>>] /\ outcome = [k \in Key |-> NoAnswer]
  /\ doFunc = <<DefaultKey>>
  /\ cherr = <<>> /\ chres = <<>> /\ open = FALSE
  /\ stored = {} /\ sentWith = [h \in Heartbeat |-> {}]

Call ==
  /\ pc = "idle"
  /\ request' \in Request
  /\ answer' = NoAnswer
  /\ LET groups == Groups(request')
         single == Cardinality(groups) = 1
     IN /\ pc' = IF single THEN "single" ELSE "wait"
        /\ sender' = [k \in Key |-> IF k \notin groups THEN "none"
                                    ELSE IF single THEN "send" ELSE "auth"]
  /\ outcome' = [k \in Key |-> NoAnswer]
  /\ cherr' = <<>> /\ chres' = <<>> /\ open' = TRUE
  /\ UNCHANGED <<seen, doFunc, stored, sentWith>>

(* A goroutine wraps the client's doFunc: next := c.doFunc, and then         *)
(* c.doFunc = func ... next, with other goroutines in between.               *)
ReadDoFunc(k) ==
  /\ sender[k] = "auth"
  /\ sender' = [sender EXCEPT ![k] = "wrap"]
  /\ seen' = [seen EXCEPT ![k] = doFunc]
  /\ UNCHANGED <<pc, request, answer, outcome, doFunc, cherr, chres, open, stored, sentWith>>

WrapDoFunc(k) ==
  /\ sender[k] = "wrap"
  /\ sender' = [sender EXCEPT ![k] = "send"]
  /\ doFunc' = <<k>> \o seen[k]
  /\ seen' = [seen EXCEPT ![k] = <<>>]
  /\ UNCHANGED <<pc, request, answer, outcome, cherr, chres, open, stored, sentWith>>

(* The header a request leaves with: every wrapper sets it, then calls the   *)
(* one it wraps.                                                             *)
AuthorizationOutermost == doFunc[1]    \* a mutant: the header is set on the way back
Authorization == doFunc[Len(doFunc)]

(* sendHeartbeats: the request, and what is made of the API's answer to it.  *)
Send(k) ==
  /\ sender[k] = "send"
  /\ sender' = [sender EXCEPT ![k] = "put"]
  /\ LET hh == Group(request, k)
     IN /\ sentWith' = [h \in Heartbeat |->
                          IF h \in Range(hh) THEN sentWith[h] \cup {Authorization} ELSE sentWith[h]]
        /\ \E r \in Outcomes(hh) : \E S \in SUBSET Range(hh) :
             /\ r.kind = "results" => \A n \in DOMAIN hh \cap DOMAIN r.statuses :
                                        (r.statuses[n] = "ok") <=> (hh[n] \in S)
             /\ outcome' = [outcome EXCEPT ![k] = r]
             /\ stored' = stored \cup S
  /\ UNCHANGED <<pc, request, answer, seen, doFunc, cherr, chres, open>>

(* A failure puts its error first and then a nil result; a success puts its  *)
(* result first and then a nil error.                                        *)
PutError(k) ==
  /\ Len(cherr) < Capacity(request)
  /\ cherr' = Append(cherr, outcome[k] = Failure)
  /\ UNCHANGED chres

PutResult(k) ==
  /\ Len(chres) < Capacity(request)
  /\ chres' = Append(chres, IF outcome[k] = Failure THEN <<>> ELSE outcome[k].statuses)
  /\ UNCHANGED cherr

Put(k) ==
  /\ sender[k] \in {"put", "put second"}
  /\ sender' = [sender EXCEPT ![k] = IF @ = "put" THEN "put second" ELSE "done"]
  /\ IF (outcome[k] = Failure) = (sender[k] = "put") THEN PutError(k) ELSE PutResult(k)
  /\ UNCHANGED <<pc, request, answer, seen, outcome, doFunc, open, stored, sentWith>>

-----------------------------------------------------------------------------
Answer(r) == answer' = r /\ pc' = "return"

AnswerUnchecked ==    \* a mutant: return <-chres, nil
  /\ pc = "single"
  /\ chres # <<>>
  /\ Answer(Success(Head(chres)))
  /\ chres' = Tail(chres)
  /\ UNCHANGED <<request, sender, seen, outcome, doFunc, cherr, open, stored, sentWith>>

(* return <-chres, <-cherr                                                   *)
AnswerSingle ==
  /\ pc = "single"
  /\ chres # <<>> /\ cherr # <<>>
  /\ Answer(IF Head(cherr) THEN Failure ELSE Success(Head(chres)))
  /\ chres' = Tail(chres) /\ cherr' = Tail(cherr)
  /\ UNCHANGED <<request, sender, seen, outcome, doFunc, open, stored, sentWith>>

WaitForNobody ==    \* a mutant: no wg.Wait
  /\ pc = "wait"
  /\ pc' = "errors"
  /\ UNCHANGED <<request, answer, sender, seen, outcome, doFunc, cherr, chres, open, stored, sentWith>>

(* wg.Wait                                                                   *)
Wait ==
  /\ pc = "wait"
  /\ \A k \in Key : sender[k] \in {"none", "done"}
  /\ pc' = "errors"
  /\ UNCHANGED <<request, answer, sender, seen, outcome, doFunc, cherr, chres, open, stored, sentWith>>

ReceiveAnyError ==    \* a mutant: when no error is left, the results as they came
  /\ pc = "errors"
  /\ IF cherr # <<>> /\ Head(cherr) THEN Answer(Failure)
     ELSE IF cherr # <<>> THEN UNCHANGED <<pc, answer>>
     ELSE Answer(Success(FoldFunctionOnSet(LAMBDA s, all : s \o all, <<>>, chres, DOMAIN chres)))
  /\ cherr' = IF cherr = <<>> THEN cherr ELSE Tail(cherr)
  /\ UNCHANGED <<request, sender, seen, outcome, doFunc, chres, open, stored, sentWith>>

(* for err := range cherr: it ends with an error, or when the channel is     *)
(* closed, which is done by a deferred call of SendHeartbeats itself.        *)
ReceiveError ==
  /\ pc = "errors"
  /\ cherr # <<>>
  /\ IF Head(cherr) THEN Answer(Failure) ELSE UNCHANGED <<pc, answer>>
  /\ cherr' = Tail(cherr)
  /\ UNCHANGED <<request, sender, seen, outcome, doFunc, chres, open, stored, sentWith>>

(* The deferred calls close the channels; after an error the sync, and the   *)
(* process with its client, ends.                                            *)
Return ==
  /\ pc = "return"
  /\ pc' = IF answer = Failure THEN "end" ELSE "idle"
  /\ request' = <<>> /\ answer' = NoAnswer /\ open' = FALSE
  /\ outcome' = [k \in Key |-> NoAnswer]
  /\ cherr' = <<>> /\ chres' = <<>>
  /\ UNCHANGED <<sender, seen, doFunc, stored, sentWith>>

Sender(k) == ReadDoFunc(k) \/ WrapDoFunc(k) \/ Send(k) \/ Put(k)
Caller == AnswerSingle \/ Wait \/ ReceiveError \/ Return

Next == Call \/ Caller \/ \E k \in Key : Sender(k)

Spec == Init /\ [][Next]_vars

(* The runtime schedules every goroutine that can go on.                     *)
FairSpec == Spec /\ WF_vars(Caller) /\ \A k \in Key : WF_vars(Sender(k))

-----------------------------------------------------------------------------
(* Every variable has its type, and no goroutine outlives the call: one that *)
(* still has something to put finds the channels open, and room for all that *)
(* every sender has left to put.                                             *)
ChannelsHold ==
  /\ TypeOK
  /\ LET putting == {k \in Key : sender[k] \in {"auth", "wrap", "send", "put", "put second"}}
     IN putting # {} =>
          open /\ \A k \in putting : sender[k] # "put second" =>
                    Len(cherr) < Capacity(request) /\ Len(chres) < Capacity(request)

(* Once an answer is there it is an error exactly if the request of some key *)
(* failed, and otherwise result n is the API's answer to heartbeat n.        *)
AnswerFaithful ==
  answer # NoAnswer =>
    /\ answer = Failure <=> \E k \in Key : outcome[k] = Failure
    /\ answer # Failure =>
         \A n \in DOMAIN request \cap DOMAIN answer.statuses :
           answer.statuses[n] = "ok" => request[n] \in stored

(* SendHeartbeats is a Sender as the offline queue needs one.                *)
Abstract == INSTANCE AbstractSender
ImplementsAbstractSender == Abstract!AbsSpec

(* A call for one key, and a call one of whose requests fails, returns.  (No *)
(* other does: not one for several keys that all succeed, and not one for no *)
(* heartbeats at all, which WithFiltering may leave.)                        *)
SomeSendsReturn ==
  pc # "idle" /\ (Single \/ \E k \in Key : outcome[k] = Failure) ~> pc \in {"idle", "end"}

(* Every call returns: pkg/api/heartbeat.go says it sends a bulk of          *)
(* heartbeats to the api and returns the result.                             *)
SendsReturn == pc \in {"single", "wait"} ~> pc \in {"idle", "end"}

(* Goroutines add their keys to one client while others send: a heartbeat    *)
(* still never leaves with the key of another project.  (It does leave with  *)
(* the default key, which is the innermost, though its project has its own.) *)
NoForeignKey == \A h \in Heartbeat : sentWith[h] \subseteq {ApiKey[h], DefaultKey}

-----------------------------------------------------------------------------
(* Why this is so: what is invariant in every step, between the caller, the  *)
(* goroutines of its call and the channels.                                  *)

(* The senders that have put their error, and those that have put a result.  *)
ErrorsPut == {k \in Key : sender[k] = "done" \/ (sender[k] = "put second" /\ outcome[k] = Failure)}
ResultsPut == {k \in Key : sender[k] = "done" \/ (sender[k] = "put second" /\ outcome[k] # Failure)}

(* The goroutines are those of the keys of the call in hand.                 *)
CallInHand ==
  /\ open <=> pc \notin {"idle", "end"}
  /\ pc = "return" <=> answer # NoAnswer
  /\ pc = "single" => Single
  /\ IF pc \in {"idle", "end"}
     THEN request = <<>>
     ELSE {k \in Key : sender[k] # "none"} = Groups(request)
  /\ pc \notin {"single", "wait"} => \A k \in Key : sender[k] \in {"none", "done"}

(* Who has sent has an outcome, and the API has stored what it says it has.  *)
OutcomesKnown ==
  \A k \in Key :
    /\ outcome[k] = NoAnswer <=>
         pc \in {"idle", "end"} \/ sender[k] \in {"none", "auth", "wrap", "send"}
    /\ outcome[k].kind = "results" =>
         \A n \in DOMAIN Group(request, k) \cap DOMAIN outcome[k].statuses :
           outcome[k].statuses[n] = "ok" => Group(request, k)[n] \in stored

(* What is in a channel has been put there by a sender, and while nothing is *)
(* received there is one value of each that has put one.                     *)
ChannelsCarry ==
  /\ \A i \in DOMAIN cherr : \E k \in ErrorsPut : cherr[i] <=> outcome[k] = Failure
  /\ \A i \in DOMAIN chres : \E k \in ResultsPut :
       outcome[k] # Failure => chres[i] = outcome[k].statuses
  /\ pc \in {"single", "wait"} =>
       Len(cherr) = Cardinality(ErrorsPut) /\ Len(chres) = Cardinality(ResultsPut)

(* However the goroutines wrap it, the innermost doFunc is that of NewClient. *)
InnermostDefault ==
  /\ doFunc # <<>> /\ doFunc[Len(doFunc)] = DefaultKey
  /\ \A k \in Key : sender[k] = "wrap" =>
       seen[k] # <<>> /\ seen[k][Len(seen[k])] = DefaultKey

IInv == TypeOK /\ CallInHand /\ OutcomesKnown /\ ChannelsCarry /\ InnermostDefault
=============================================================================
