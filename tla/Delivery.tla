------------------------------ MODULE Delivery ------------------------------
(* The life of heartbeats in wakatime-cli.  Editors start processes that run *)
(* the heartbeat command (cmd/heartbeat) and, after a success, an offline    *)
(* sync (cmd/offlinesync, offline.Sync); more heartbeats than SendLimit make *)
(* the command save the rest from a goroutine that nobody waits for.         *)
(* Processes share the offline queue, whose operations are atomic here: that *)
(* is AbstractQueue, which OfflineQueue implements.  The API accepts any     *)
(* part of what it is sent; its answer may be lost, may tell some heartbeats *)
(* apart from others, and may be shorter or longer than the request.         *)
EXTENDS Bucket, Sequences

CONSTANTS
  Proc,                 \* process slots: a slot is used again after its process ended
  Disabled,             \* the processes run with --disable-offline
  MaxReport,            \* the most heartbeats an editor reports at once
  SendLimit,            \* offline.SendLimit
  SyncLimit,            \* the --sync-offline-activity parameter
  MaxRequeueAttempts,   \* offline.maxRequeueAttempts
  Status,               \* the statuses the API gives single heartbeats
  Faults                \* what goes wrong in this instance

ASSUME SizeAssumption ==
  /\ MaxReport \in Nat \ {0} /\ SendLimit \in Nat \ {0}
  /\ SyncLimit \in Nat /\ MaxRequeueAttempts \in Nat \ {0}
ASSUME ProcAssumption == Disabled \subseteq Proc
ASSUME StatusAssumption == Status \subseteq {"ok", "bad", "other"}
ASSUME FaultAssumption ==
  Faults \subseteq {"config", "params", "client", "error", "length", "push", "pop", "crash"}

Thread == Proc \X {"main", "extra"}
Main(p) == <<p, "main">>
Extra(p) == <<p, "extra">>

VARIABLES
  fresh,        \* the heartbeats no editor has reported yet
  queue,        \* the offline queue
  pc,           \* what each thread does next
  phase,        \* the command a process is running
  hold,         \* the heartbeats a thread is working on, by their index
  todo,         \* the indices of hold that await an answer, or the current push
  left,         \* the indices of hold that are to be pushed after that
  next,         \* what follows a thread's pushes, if the last one succeeds
  tries,        \* failed attempts of the current push
  reply,        \* the API's answer to a process
  alreadySent,  \* of Sync: the count it compares with its limit
  accepted,     \* of the API: the heartbeats it has stored
  duplicated,   \* of the API: those it was sent again and stored twice
  unsure,       \* the heartbeats it stored without an answer that says so
  acked,        \* heartbeats answered with 201 or 202
  rejected,     \* heartbeats answered with 400, which are given up
  overwritten,  \* heartbeats replaced in the queue by one with the same key
  lost          \* heartbeats nobody has any more

cli == <<pc, phase, hold, todo, left, next, tries, reply, alreadySent>>
server == <<accepted, duplicated, unsure>>
fates == <<acked, rejected, overwritten, lost>>
vars == <<fresh, queue, cli, server, fates>>

Index == Nat \ {0}
PC == {"idle", "send", "reply", "push", "sync", "loop", "exit"}
Reply == {r \in [error : BOOLEAN, statuses : Seq(Status)] : r.error => r.statuses = <<>>}
NoReply == [error |-> FALSE, statuses |-> <<>>]

TypeOK ==
  /\ fresh \in SUBSET Heartbeat /\ queue \in Stored
  /\ pc \in [Thread -> PC]
  /\ phase \in [Proc -> {"heartbeat", "sync"}]
  /\ DOMAIN hold = Thread
  /\ \A t \in Thread : DOMAIN hold[t] \subseteq Index /\ Range(hold[t]) \subseteq Heartbeat
  /\ todo \in [Thread -> SUBSET Index] /\ left \in [Thread -> SUBSET Index]
  /\ next \in [Thread -> {"sync", "loop", "exit", "idle"}]
  /\ tries \in [Thread -> 0..MaxRequeueAttempts]
  /\ reply \in [Proc -> Reply]
  /\ alreadySent \in [Proc -> 0..SyncLimit]
  /\ accepted \in SUBSET Heartbeat /\ duplicated \in SUBSET Heartbeat
  /\ unsure \in SUBSET Heartbeat
  /\ acked \in SUBSET Heartbeat /\ rejected \in SUBSET Heartbeat
  /\ overwritten \in SUBSET Heartbeat /\ lost \in SUBSET Heartbeat

-----------------------------------------------------------------------------
At(hh, I) == {hh[n] : n \in I}

(* The heartbeats that exist only in a thread's memory.                      *)
Held(t) == At(hold[t], todo[t] \cup left[t])

(* What handleResults makes of the results, by their index.                  *)
WithStatusReversed(hh, statuses, s) ==    \* a mutant: results in another order
  {n \in DOMAIN hh : n \in DOMAIN statuses /\ statuses[Len(statuses) + 1 - n] = s}
WithStatus(hh, statuses, s) ==
  {n \in DOMAIN hh : n \in DOMAIN statuses /\ statuses[n] = s}
LeftoversOneMore(hh, statuses) == {n \in DOMAIN hh : n >= Len(statuses)}    \* a mutant
Leftovers(hh, statuses) == {n \in DOMAIN hh : n > Len(statuses)}

Init ==
  /\ queue \in Stored /\ fresh = Heartbeat \ queue
  /\ pc = [t \in Thread |-> "idle"]
  /\ phase = [p \in Proc |-> "heartbeat"]
  /\ hold = [t \in Thread |-> <<>>]
  /\ todo = [t \in Thread |-> {}] /\ left = [t \in Thread |-> {}]
  /\ next = [t \in Thread |-> "idle"]
  /\ tries = [t \in Thread |-> 0]
  /\ reply = [p \in Proc |-> NoReply]
  /\ alreadySent = [p \in Proc |-> 0]
  /\ accepted = {} /\ duplicated = {} /\ unsure = {}
  /\ acked = {} /\ rejected = {} /\ overwritten = {} /\ lost = {}

-----------------------------------------------------------------------------
(* What an editor reports: the entity and extra heartbeats, buildHeartbeats. *)
Reports ==
  {hh \in UNION {[1..n -> fresh] : n \in 1..MaxReport} :
     \A m, n \in DOMAIN hh : hh[m] = hh[n] => m = n}

(* SendHeartbeats: the first SendLimit heartbeats are sent; a goroutine      *)
(* saves the rest, unless the offline queue is disabled.                     *)
First(hh) == {n \in DOMAIN hh : n <= SendLimit}
SavedOneLess(p, hh) ==    \* a mutant: heartbeats[offline.SendLimit+1:]
  IF p \in Disabled THEN {} ELSE {n \in DOMAIN hh : n > SendLimit + 1}
Saved(p, hh) == IF p \in Disabled THEN {} ELSE DOMAIN hh \ First(hh)

StartSend(p) ==
  /\ pc[Main(p)] = "idle"
  /\ \E hh \in Reports :
       /\ fresh' = fresh \ Range(hh)
       /\ pc' = [pc EXCEPT ![Main(p)] = "send",
                           ![Extra(p)] = IF Saved(p, hh) = {} THEN "idle" ELSE "push"]
       /\ hold' = [hold EXCEPT ![Main(p)] = Restrict(hh, First(hh)),
                               ![Extra(p)] = Restrict(hh, Saved(p, hh))]
       /\ todo' = [todo EXCEPT ![Main(p)] = First(hh), ![Extra(p)] = Saved(p, hh)]
       /\ lost' = lost \cup At(hh, DOMAIN hh \ (First(hh) \cup Saved(p, hh)))
  /\ phase' = [phase EXCEPT ![p] = "heartbeat"]
  /\ UNCHANGED <<queue, left, next, tries, reply, alreadySent, server,
                 acked, rejected, overwritten>>

(* Run cannot parse the config files: SaveHeartbeats saves all heartbeats.   *)
ConfigBroken(p) ==
  /\ "config" \in Faults
  /\ pc[Main(p)] = "idle" /\ p \notin Disabled
  /\ \E hh \in Reports :
       /\ fresh' = fresh \ Range(hh)
       /\ hold' = [hold EXCEPT ![Main(p)] = hh]
       /\ todo' = [todo EXCEPT ![Main(p)] = DOMAIN hh]
  /\ pc' = [pc EXCEPT ![Main(p)] = "push"]
  /\ next' = [next EXCEPT ![Main(p)] = "exit"]
  /\ UNCHANGED <<queue, phase, left, tries, reply, alreadySent, server, fates>>

(* The same with the queue disabled, or parameters that do not load: the     *)
(* process ends and saves nothing.                                           *)
DropReport(p) ==
  /\ \/ "config" \in Faults /\ p \in Disabled
     \/ "params" \in Faults
  /\ pc[Main(p)] = "idle"
  /\ \E hh \in Reports :
       /\ fresh' = fresh \ Range(hh)
       /\ lost' = lost \cup Range(hh)
  /\ UNCHANGED <<queue, cli, server, acked, rejected, overwritten>>

(* The handle of the heartbeat command goes through WithQueue unless the     *)
(* queue is disabled; WithSync never looks at that parameter.                *)
Queued(p) == p \notin Disabled \/ phase[p] = "sync"

(* NewClient fails: SendHeartbeats saves its heartbeats, if it may.          *)
ClientFails(p) ==
  /\ "client" \in Faults
  /\ pc[Main(p)] = "send" /\ phase[p] = "heartbeat"
  /\ \/ /\ p \notin Disabled
        /\ pc' = [pc EXCEPT ![Main(p)] = "push"]
        /\ next' = [next EXCEPT ![Main(p)] = "exit"]
        /\ UNCHANGED <<todo, lost>>
     \/ /\ p \in Disabled
        /\ pc' = [pc EXCEPT ![Main(p)] = "exit"]
        /\ lost' = lost \cup Held(Main(p))
        /\ todo' = [todo EXCEPT ![Main(p)] = {}]
        /\ UNCHANGED next
  /\ UNCHANGED <<fresh, queue, phase, hold, left, tries, reply, alreadySent, server,
                 acked, rejected, overwritten>>

-----------------------------------------------------------------------------
(* The API's answers to hh: an error (a failure of any kind on the way there *)
(* or back, or a backoff), or statuses.                                      *)
Results(hh) ==
  UNION {[1..k -> Status] :
    k \in {l \in 0..SendLimit + 1 : "length" \in Faults \/ l = Cardinality(DOMAIN hh)}}

Answers(hh) ==
  {[error |-> TRUE, statuses |-> <<>>] : e \in Faults \cap {"error"}}
    \cup {[error |-> FALSE, statuses |-> s] : s \in Results(hh)}

Confirmed(hh, r) == {hh[n] : n \in {m \in DOMAIN hh \cap DOMAIN r.statuses : r.statuses[m] = "ok"}}
Denied(hh, r) == {hh[n] : n \in {m \in DOMAIN hh \cap DOMAIN r.statuses : r.statuses[m] # "ok"}}

Send(p) ==
  /\ pc[Main(p)] = "send"
  /\ LET hh == hold[Main(p)]
     IN \E r \in Answers(hh) : \E acc \in SUBSET Range(hh) :
          /\ Confirmed(hh, r) \subseteq acc /\ acc \cap Denied(hh, r) = {}
          /\ accepted' = accepted \cup acc
          /\ duplicated' = duplicated \cup (acc \cap accepted)
          /\ unsure' = unsure \cup (acc \ Confirmed(hh, r))
          /\ reply' = [reply EXCEPT ![p] = r]
  /\ pc' = [pc EXCEPT ![Main(p)] = "reply"]
  /\ UNCHANGED <<fresh, queue, phase, hold, todo, left, next, tries, alreadySent, fates>>

(* WithQueue and Sync on an error: push everything back, then return it.     *)
AnswerError(p) ==
  /\ pc[Main(p)] = "reply" /\ reply[p].error /\ Queued(p)
  /\ pc' = [pc EXCEPT ![Main(p)] = "push"]
  /\ next' = [next EXCEPT ![Main(p)] = "exit"]
  /\ reply' = [reply EXCEPT ![p] = NoReply]
  /\ UNCHANGED <<fresh, queue, phase, hold, todo, left, tries, alreadySent, server, fates>>

(* handleResults: 201 and 202 are done, 400 is given up, any other status is *)
(* pushed back, and then the heartbeats without a result are.                *)
AnswerResults(p) ==
  /\ pc[Main(p)] = "reply" /\ ~reply[p].error /\ Queued(p)
  /\ LET hh == hold[Main(p)]
         invalid == WithStatus(hh, reply[p].statuses, "other")
         leftovers == Leftovers(hh, reply[p].statuses)
         after == IF phase[p] = "sync" THEN "loop" ELSE "sync"
     IN /\ acked' = acked \cup At(hh, WithStatus(hh, reply[p].statuses, "ok"))
        /\ rejected' = rejected \cup At(hh, WithStatus(hh, reply[p].statuses, "bad"))
        /\ todo' = [todo EXCEPT ![Main(p)] = IF invalid = {} THEN leftovers ELSE invalid]
        /\ left' = [left EXCEPT ![Main(p)] = IF invalid = {} THEN {} ELSE leftovers]
        /\ next' = [next EXCEPT ![Main(p)] = after]
        /\ pc' = [pc EXCEPT ![Main(p)] = IF invalid \cup leftovers = {} THEN after ELSE "push"]
  /\ reply' = [reply EXCEPT ![p] = NoReply]
  /\ UNCHANGED <<fresh, queue, phase, hold, tries, alreadySent, server, overwritten, lost>>

(* Without WithQueue, what the API has not taken is lost.                    *)
AnswerUnqueued(p) ==
  /\ pc[Main(p)] = "reply" /\ ~Queued(p)
  /\ LET hh == hold[Main(p)]
         r == reply[p]
         done == WithStatus(hh, r.statuses, "ok")
         refused == WithStatus(hh, r.statuses, "bad")
     IN /\ acked' = acked \cup At(hh, done)
        /\ rejected' = rejected \cup At(hh, refused)
        /\ lost' = lost \cup At(hh, DOMAIN hh \ (done \cup refused))
        /\ pc' = [pc EXCEPT ![Main(p)] = IF r.error THEN "exit" ELSE "sync"]
  /\ todo' = [todo EXCEPT ![Main(p)] = {}]
  /\ reply' = [reply EXCEPT ![p] = NoReply]
  /\ UNCHANGED <<fresh, queue, phase, hold, left, next, tries, alreadySent, server, overwritten>>

-----------------------------------------------------------------------------
(* One push is over: on to the second, or to what follows.                   *)
NextPush(t, after) ==
  /\ todo' = [todo EXCEPT ![t] = left[t]]
  /\ left' = [left EXCEPT ![t] = {}]
  /\ tries' = [tries EXCEPT ![t] = 0]
  /\ pc' = [pc EXCEPT ![t] = IF left[t] = {} THEN after ELSE "push"]
  /\ UNCHANGED <<fresh, phase, hold, next, reply, alreadySent, server, acked, rejected>>

Push(t) ==
  /\ pc[t] = "push"
  /\ LET hh == Restrict(hold[t], todo[t])
     IN /\ CanPush(hh)
        /\ queue' = PushMany(queue, hh)
        /\ overwritten' = overwritten \cup ((queue \cup Range(hh)) \ queue')
  /\ NextPush(t, next[t])
  /\ UNCHANGED lost

PushFails(t) ==
  /\ "push" \in Faults
  /\ pc[t] = "push" /\ tries[t] < MaxRequeueAttempts
  /\ tries' = [tries EXCEPT ![t] = @ + 1]
  /\ UNCHANGED <<fresh, queue, pc, phase, hold, todo, left, next, reply, alreadySent,
                 server, fates>>

(* pushHeartbeatsWithRetry gives up.  Its error ends the command, but for a  *)
(* first push of handleResults: the second push overwrites that error.       *)
GiveUp(t) ==
  /\ pc[t] = "push" /\ tries[t] = MaxRequeueAttempts
  /\ lost' = lost \cup At(hold[t], todo[t])
  /\ NextPush(t, IF t[2] = "extra" THEN "idle" ELSE "exit")
  /\ UNCHANGED <<queue, overwritten>>

-----------------------------------------------------------------------------
(* wakatime-cli --sync-offline-activity without --entity.                    *)
StartSync(p) ==
  /\ pc[Main(p)] = "idle"
  /\ pc' = [pc EXCEPT ![Main(p)] = "sync"]
  /\ UNCHANGED <<fresh, queue, phase, hold, todo, left, next, tries, reply, alreadySent,
                 server, fates>>

(* SyncOfflineActivity does nothing: it is disabled, or NewClient fails.     *)
SkipSync(p) ==
  /\ pc[Main(p)] = "sync"
  /\ SyncLimit = 0 \/ "client" \in Faults
  /\ pc' = [pc EXCEPT ![Main(p)] = "exit"]
  /\ UNCHANGED <<fresh, queue, phase, hold, todo, left, next, tries, reply, alreadySent,
                 server, fates>>

BeginSync(p) ==
  /\ pc[Main(p)] = "sync" /\ SyncLimit # 0
  /\ pc' = [pc EXCEPT ![Main(p)] = "loop"]
  /\ phase' = [phase EXCEPT ![p] = "sync"]
  /\ alreadySent' = [alreadySent EXCEPT ![p] = 0]
  /\ UNCHANGED <<fresh, queue, hold, todo, left, next, tries, reply, server, fates>>

(* The number of heartbeats Sync's next pop asks for.  It is added to        *)
(* alreadySent only when it is less than SendLimit.                          *)
LastBatch(p) == alreadySent[p] + SendLimit > SyncLimit
Num(p) == IF LastBatch(p) THEN SyncLimit - alreadySent[p] ELSE SendLimit

PopBatchCounted(p) ==    \* a mutant: what is pushed back and popped again counts, too
  /\ pc[Main(p)] = "loop"
  /\ alreadySent[p] < SyncLimit
  /\ queue # {} /\ CanPop(queue, Num(p))
  /\ \E hh \in PopMany(queue, Num(p)) :
       /\ queue' = Without(queue, hh)
       /\ hold' = [hold EXCEPT ![Main(p)] = hh]
       /\ todo' = [todo EXCEPT ![Main(p)] = DOMAIN hh]
  /\ alreadySent' = [alreadySent EXCEPT ![p] = @ + Num(p)]
  /\ pc' = [pc EXCEPT ![Main(p)] = "send"]
  /\ UNCHANGED <<fresh, phase, left, next, tries, reply, server, fates>>

PopBatch(p) ==
  /\ pc[Main(p)] = "loop"
  /\ alreadySent[p] < SyncLimit
  /\ queue # {} /\ CanPop(queue, Num(p))
  /\ \E hh \in PopMany(queue, Num(p)) :
       /\ queue' = Without(queue, hh)
       /\ hold' = [hold EXCEPT ![Main(p)] = hh]
       /\ todo' = [todo EXCEPT ![Main(p)] = DOMAIN hh]
  /\ alreadySent' = [alreadySent EXCEPT ![p] = IF LastBatch(p) THEN @ + Num(p) ELSE @]
  /\ pc' = [pc EXCEPT ![Main(p)] = "send"]
  /\ UNCHANGED <<fresh, phase, left, next, tries, reply, server, fates>>

(* Sync ends: its limit is reached, the queue is empty, or a pop fails.      *)
EndSync(p) ==
  /\ pc[Main(p)] = "loop"
  /\ \/ alreadySent[p] >= SyncLimit
     \/ queue = {}
     \/ ~CanPop(queue, Num(p)) \/ "pop" \in Faults
  /\ pc' = [pc EXCEPT ![Main(p)] = "exit"]
  /\ UNCHANGED <<fresh, queue, phase, hold, todo, left, next, tries, reply, alreadySent,
                 server, fates>>

-----------------------------------------------------------------------------
(* The end of a process, and of its goroutine with it.                       *)
Vanish(p) ==
  /\ pc' = [pc EXCEPT ![Main(p)] = "idle", ![Extra(p)] = "idle"]
  /\ hold' = [hold EXCEPT ![Main(p)] = <<>>, ![Extra(p)] = <<>>]
  /\ todo' = [todo EXCEPT ![Main(p)] = {}, ![Extra(p)] = {}]
  /\ left' = [left EXCEPT ![Main(p)] = {}, ![Extra(p)] = {}]
  /\ next' = [next EXCEPT ![Main(p)] = "idle", ![Extra(p)] = "idle"]
  /\ tries' = [tries EXCEPT ![Main(p)] = 0, ![Extra(p)] = 0]
  /\ phase' = [phase EXCEPT ![p] = "heartbeat"]
  /\ reply' = [reply EXCEPT ![p] = NoReply]
  /\ alreadySent' = [alreadySent EXCEPT ![p] = 0]
  /\ lost' = lost \cup Held(Main(p)) \cup Held(Extra(p))
  /\ UNCHANGED <<fresh, queue, server, acked, rejected, overwritten>>

(* os.Exit: does not wait for the goroutine that saves extra heartbeats.     *)
Exit(p) == pc[Main(p)] = "exit" /\ Vanish(p)

(* A kill, a panic or a power failure at any point.                          *)
Crash(p) == "crash" \in Faults /\ pc[Main(p)] # "idle" /\ Vanish(p)

Begins(p) == StartSend(p) \/ ConfigBroken(p) \/ DropReport(p) \/ StartSync(p)

Runs(p) ==
  \/ ClientFails(p) \/ Send(p)
  \/ AnswerError(p) \/ AnswerResults(p) \/ AnswerUnqueued(p)
  \/ SkipSync(p) \/ BeginSync(p) \/ PopBatch(p) \/ EndSync(p)
  \/ Exit(p)

Pushes(t) == Push(t) \/ PushFails(t) \/ GiveUp(t)

Next ==
  \/ \E p \in Proc : Begins(p) \/ Runs(p) \/ Crash(p)
  \/ \E t \in Thread : Pushes(t)

Spec == Init /\ [][Next]_vars

(* A process that has started goes on: its main goroutine takes its steps.   *)
FairSpec == Spec /\ \A p \in Proc : WF_vars(Runs(p) \/ Pushes(Main(p)))

(* The API settles every heartbeat of a request, of those it is sent again   *)
(* and again at least now and then.                                          *)
SendSettled(p) ==
  /\ Send(p)
  /\ ~reply'[p].error /\ Range(reply'[p].statuses) \subseteq {"ok", "bad"}

PatientSpec == FairSpec /\ \A p \in Proc : SF_vars(SendSettled(p))

-----------------------------------------------------------------------------
(* Every heartbeat is in exactly one place: still to come, in the queue, in  *)
(* the memory of one goroutine, or settled in one way.  None is popped, sent *)
(* or pushed by two processes at once, and none is back in the queue after   *)
(* it was acknowledged or given up.                                          *)
Settled == acked \cup rejected \cup overwritten \cup lost

NoneMissing ==
  \A h \in Heartbeat : h \in fresh \cup queue \cup Settled \/ \E t \in Thread : h \in Held(t)

NoneTwice ==
  /\ fresh \cap queue = {} /\ (fresh \cup queue) \cap Settled = {}
  /\ acked \cap (rejected \cup overwritten \cup lost) = {}
  /\ rejected \cap (overwritten \cup lost) = {} /\ overwritten \cap lost = {}
  /\ \A t \in Thread : Held(t) \cap (fresh \cup queue \cup Settled) = {}
  /\ \A t, u \in Thread : t # u => Held(t) \cap Held(u) = {}

OnePlaceEach == NoneMissing /\ NoneTwice

(* Index n of the API's results is heartbeat n of the request: what the CLI  *)
(* takes for delivered is stored, and what it gives up after a 400 is not,   *)
(* unless an earlier answer was lost.                                        *)
SettledTruly == acked \subseteq accepted /\ rejected \cap accepted \subseteq unsure

(* The API stores a heartbeat twice only after it stored it once without an  *)
(* answer that says so.                                                      *)
DuplicatesUnsure == duplicated \subseteq unsure

(* What makes these inductive: a thread is answerable for distinct indices   *)
(* of its slice, for all of it while it awaits an answer and for none of it  *)
(* between slices; the goroutine only pushes, and only while its process     *)
(* runs; and a heartbeat the API stored unnoticed is in unsure.              *)
ThreadsOK ==
  /\ \A t \in Thread :
       /\ todo[t] \cup left[t] \subseteq DOMAIN hold[t] /\ todo[t] \cap left[t] = {}
       /\ \A m, n \in DOMAIN hold[t] : hold[t][m] = hold[t][n] => m = n
       /\ pc[t] \in {"idle", "sync", "loop", "exit"} => todo[t] = {} /\ left[t] = {}
       /\ pc[t] \in {"send", "reply"} => todo[t] = DOMAIN hold[t] /\ left[t] = {}
  /\ \A p \in Proc :
       /\ pc[Extra(p)] \in {"idle", "push"} /\ next[Extra(p)] = "idle"
       /\ pc[Main(p)] = "idle" => pc[Extra(p)] = "idle"
       /\ pc[Main(p)] = "push" => next[Main(p)] # "idle"

ServerOK ==
  /\ unsure \subseteq accepted
  /\ \A h \in accepted \ (unsure \cup acked \cup lost) :
       \E p \in Proc : pc[Main(p)] = "reply" /\ h \in Confirmed(hold[Main(p)], reply[p])
  /\ \A p \in Proc : pc[Main(p)] = "reply" =>
       /\ Confirmed(hold[Main(p)], reply[p]) \subseteq accepted
       /\ Denied(hold[Main(p)], reply[p]) \cap accepted \subseteq unsure

IInv == TypeOK /\ ThreadsOK /\ OnePlaceEach /\ ServerOK /\ SettledTruly /\ DuplicatesUnsure

(* Without a fault, heartbeats are only lost with a goroutine that was still *)
(* to save what a report held beyond SendLimit when its process ended; what  *)
(* the process itself sends, pushes back or syncs is never lost.             *)
OnlyUnsavedLost ==
  [][lost' \ lost \subseteq UNION {Held(Extra(p)) : p \in {q \in Proc : pc[Main(q)] = "exit"}}]_vars

(* However often the API answers a status that pushes a heartbeat back, and  *)
(* a sync pops again what it has pushed back itself: if the API settles a    *)
(* request now and then, the sync comes to an end, and what was queued while *)
(* it ran is settled, by it or by another.                                   *)
SyncDrains ==
  \A p \in Proc :
    /\ pc[Main(p)] = "loop" ~> pc[Main(p)] = "idle"
    /\ \A h \in Heartbeat : pc[Main(p)] = "loop" /\ h \in queue ~> h \in Settled
=============================================================================
