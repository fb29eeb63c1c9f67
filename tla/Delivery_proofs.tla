--------------------------- MODULE Delivery_proofs ---------------------------
(* For any number of processes and heartbeats, any limits and any faults:    *)
(* every heartbeat is in exactly one place, what the CLI takes for delivered *)
(* is stored by the API, and what the API stored twice it first stored       *)
(* without an answer that says so.  Without faults, none is lost.            *)
EXTENDS Delivery, TLAPS

-----------------------------------------------------------------------------
(* The operations on the bucket.                                             *)

(* A pop answers distinct heartbeats of the bucket.                          *)
LEMMA PopFacts ==
  ASSUME NEW q \in SUBSET Heartbeat, NEW limit, NEW hh \in PopMany(q, limit)
  PROVE  /\ DOMAIN hh \subseteq Nat \ {0} /\ Range(hh) \subseteq q
         /\ \A m, n \in DOMAIN hh : hh[m] = hh[n] => m = n
<1>. DEFINE S == FirstKeys(q, limit)
<1>1. S \subseteq q
  BY DEF FirstKeys
<1>2. /\ hh \in [1..Cardinality(S) -> S]
      /\ \A m, n \in 1..Cardinality(S) : m < n => KeyOf[hh[m]] < KeyOf[hh[n]]
  BY DEF PopMany, InKeyOrder
<1>. HIDE DEF S
<1>3. \A n \in DOMAIN hh : n \in Nat \ {0} /\ hh[n] \in q /\ KeyOf[hh[n]] \in Nat
  BY <1>1, <1>2, KeyAssumption
<1>4. ASSUME NEW m \in DOMAIN hh, NEW n \in DOMAIN hh, hh[m] = hh[n] PROVE m = n
  <2>1. ~(m < n) /\ ~(n < m)
    BY <1>2, <1>3, <1>4
  <2>. QED  BY <1>3, <2>1
<1>. QED  BY <1>3, <1>4 DEF Range

(* A push keeps the bucket well-formed and brings in nothing but its batch.  *)
LEMMA PushFacts ==
  ASSUME NEW q \in Stored, NEW hh, DOMAIN hh \subseteq Nat,
         Range(hh) \subseteq Heartbeat, CanPush(hh)
  PROVE  PushMany(q, hh) \in Stored /\ PushMany(q, hh) \subseteq q \cup Range(hh)
<1>1. LastWriters(hh) \subseteq Range(hh)
  BY DEF LastWriters, Range
<1>2. PushMany(q, hh) \subseteq q \cup Range(hh)
  BY <1>1 DEF PushMany
<1>3. PushMany(q, hh) \subseteq Heartbeat \ Unstorable
  BY <1>2 DEF Stored, CanPush
<1>4. ASSUME NEW g \in PushMany(q, hh), NEW h \in PushMany(q, hh), KeyOf[g] = KeyOf[h]
      PROVE  g = h
  <2>1. CASE g \in LastWriters(hh) /\ h \in LastWriters(hh)
    <3>1. PICK m \in DOMAIN hh :
            g = hh[m] /\ \A k \in DOMAIN hh : k > m => KeyOf[hh[k]] # KeyOf[hh[m]]
      BY <2>1 DEF LastWriters
    <3>2. PICK n \in DOMAIN hh :
            h = hh[n] /\ \A k \in DOMAIN hh : k > n => KeyOf[hh[k]] # KeyOf[hh[n]]
      BY <2>1 DEF LastWriters
    <3>3. ~(m > n) /\ ~(n > m)
      BY <1>4, <3>1, <3>2
    <3>. QED  BY <3>1, <3>2, <3>3
  <2>2. CASE g \in LastWriters(hh) /\ h \notin LastWriters(hh)
    BY <1>4, <2>2 DEF LastWriters, PushMany
  <2>3. CASE g \notin LastWriters(hh) /\ h \in LastWriters(hh)
    BY <1>4, <2>3 DEF LastWriters, PushMany
  <2>4. CASE g \notin LastWriters(hh) /\ h \notin LastWriters(hh)
    BY <1>4, <2>4 DEF PushMany, Stored, UniqueKeys
  <2>. QED  BY <2>1, <2>2, <2>3, <2>4
<1>. QED  BY <1>2, <1>3, <1>4 DEF Stored, UniqueKeys

(* Removals keep it well-formed.                                            *)
LEMMA SubsetStored ==
  ASSUME NEW q \in Stored, NEW r \in SUBSET q
  PROVE  r \in Stored
BY DEF Stored, UniqueKeys

-----------------------------------------------------------------------------
(* Lemmas about the operators.                                               *)
LEMMA Threads ==
  /\ \A p \in Proc : Main(p) \in Thread /\ Extra(p) \in Thread
  /\ \A p \in Proc : Main(p)[2] = "main" /\ Extra(p)[2] = "extra"
  /\ \A p, q \in Proc : Main(p) # Extra(q)
  /\ \A p, q \in Proc : Main(p) = Main(q) => p = q
  /\ \A p, q \in Proc : Extra(p) = Extra(q) => p = q
  /\ \A t \in Thread : \E p \in Proc : t = Main(p) \/ t = Extra(p)
BY DEF Thread, Main, Extra

(* A restricted slice has the heartbeats of the slice at the kept indices.   *)
LEMMA RestrictFacts ==
  ASSUME NEW f, NEW S
  PROVE  /\ DOMAIN Restrict(f, S) = S
         /\ \A n \in S : Restrict(f, S)[n] = f[n]
         /\ Range(Restrict(f, S)) = At(f, S)
BY DEF Restrict, Range, At

(* What an editor reports is a slice of distinct fresh heartbeats.           *)
LEMMA ReportFacts ==
  ASSUME NEW hh \in Reports
  PROVE  /\ DOMAIN hh \subseteq Index /\ Range(hh) \subseteq fresh
         /\ Range(hh) = At(hh, DOMAIN hh)
         /\ \A m, n \in DOMAIN hh : hh[m] = hh[n] => m = n
BY SizeAssumption DEF Reports, Range, At, Index

(* An answer of the API, and its parts, are of the declared types.           *)
LEMMA AnswerFacts ==
  ASSUME NEW hh, NEW r \in Answers(hh)
  PROVE  r \in Reply
<1>1. \A s \in Results(hh) : s \in Seq(Status)
  BY SizeAssumption DEF Results
<1>2. CASE r = [error |-> TRUE, statuses |-> <<>>]
  BY <1>2 DEF Reply
<1>3. CASE \E s \in Results(hh) : r = [error |-> FALSE, statuses |-> s]
  BY <1>1, <1>3 DEF Reply
<1>. QED  BY <1>2, <1>3 DEF Answers

-----------------------------------------------------------------------------
(* Types, and what each thread is answerable for.                            *)
LEMMA TypeInit == Init => TypeOK /\ ThreadsOK
<1>. SUFFICES ASSUME Init PROVE TypeOK /\ ThreadsOK
  OBVIOUS
<1>1. TypeOK
  BY SizeAssumption DEF Init, TypeOK, PC, NoReply, Reply, Stored, Range
<1>2. ThreadsOK
  BY Threads DEF Init, ThreadsOK
<1>. QED  BY <1>1, <1>2

(* What SendHeartbeats sends and what it saves are disjoint parts of a slice.*)
LEMMA SliceFacts ==
  ASSUME NEW hh, NEW p
  PROVE  /\ First(hh) \subseteq DOMAIN hh /\ Saved(p, hh) \subseteq DOMAIN hh
         /\ First(hh) \cap Saved(p, hh) = {}
BY DEF First, Saved

(* SendHeartbeats splits a report into well-formed parts.                    *)
LEMMA StartSendType ==
  ASSUME TypeOK, ThreadsOK, NEW p \in Proc, StartSend(p)
  PROVE  TypeOK' /\ ThreadsOK'
<1>1. PICK hh \in Reports :
        /\ fresh' = fresh \ Range(hh)
        /\ pc' = [pc EXCEPT ![Main(p)] = "send",
                            ![Extra(p)] = IF Saved(p, hh) = {} THEN "idle" ELSE "push"]
        /\ hold' = [hold EXCEPT ![Main(p)] = Restrict(hh, First(hh)),
                                ![Extra(p)] = Restrict(hh, Saved(p, hh))]
        /\ todo' = [todo EXCEPT ![Main(p)] = First(hh), ![Extra(p)] = Saved(p, hh)]
        /\ lost' = lost \cup At(hh, DOMAIN hh \ (First(hh) \cup Saved(p, hh)))
  BY DEF StartSend
<1>2. /\ DOMAIN hh \subseteq Index /\ Range(hh) \subseteq Heartbeat
      /\ \A S \in SUBSET DOMAIN hh : At(hh, S) \subseteq Heartbeat
      /\ \A m, n \in DOMAIN hh : hh[m] = hh[n] => m = n
  BY ReportFacts DEF TypeOK, At
<1>3. TypeOK'
  <2>1. \A t \in Thread : DOMAIN hold'[t] \subseteq Index /\ Range(hold'[t]) \subseteq Heartbeat
    <3>1. ASSUME NEW S \in SUBSET DOMAIN hh
          PROVE  DOMAIN Restrict(hh, S) \subseteq Index /\ Range(Restrict(hh, S)) \subseteq Heartbeat
      BY <1>2, RestrictFacts
    <3>2. \A t \in Thread : \/ hold'[t] = hold[t]
                           \/ \E S \in SUBSET DOMAIN hh : hold'[t] = Restrict(hh, S)
      BY <1>1, Threads, SliceFacts DEF TypeOK
    <3>. QED  BY <3>1, <3>2 DEF TypeOK
  <2>2. /\ pc' \in [Thread -> PC] /\ todo' \in [Thread -> SUBSET Index]
        /\ lost' \in SUBSET Heartbeat /\ fresh' \in SUBSET Heartbeat
        /\ DOMAIN hold' = Thread /\ phase' \in [Proc -> {"heartbeat", "sync"}]
    BY <1>1, <1>2, Threads, SliceFacts DEF StartSend, TypeOK, PC
  <2>. QED  BY <2>1, <2>2 DEF StartSend, TypeOK, server
<1>4. ThreadsOK'
  <2>1. \A t \in Thread : todo'[t] \cup left'[t] \subseteq DOMAIN hold'[t]
    BY <1>1, Threads, RestrictFacts, SliceFacts DEF StartSend, TypeOK, ThreadsOK
  <2>2. \A t \in Thread : \A m, n \in DOMAIN hold'[t] : hold'[t][m] = hold'[t][n] => m = n
    BY <1>1, <1>2, Threads, RestrictFacts, SliceFacts DEF TypeOK, ThreadsOK
  <2>3. left[Main(p)] = {} /\ left[Extra(p)] = {} /\ left' = left
    BY Threads DEF StartSend, ThreadsOK
  <2>4. \A t \in Thread : todo'[t] \cap left'[t] = {}
    BY <1>1, <2>3, Threads DEF TypeOK, ThreadsOK
  <2>5. \A t \in Thread : pc'[t] \in {"idle", "sync", "loop", "exit"} => todo'[t] = {} /\ left'[t] = {}
    BY <1>1, <2>3, Threads DEF TypeOK, ThreadsOK
  <2>6. \A t \in Thread : pc'[t] \in {"send", "reply"} => todo'[t] = DOMAIN hold'[t] /\ left'[t] = {}
    BY <1>1, <2>3, Threads, RestrictFacts DEF TypeOK, ThreadsOK
  <2>7. ASSUME NEW q \in Proc
        PROVE  /\ pc'[Extra(q)] \in {"idle", "push"} /\ next'[Extra(q)] = "idle"
               /\ pc'[Main(q)] = "idle" => pc'[Extra(q)] = "idle"
               /\ pc'[Main(q)] = "push" => next'[Main(q)] # "idle"
    BY <1>1, Threads DEF StartSend, TypeOK, ThreadsOK
  <2>. QED  BY <2>1, <2>2, <2>4, <2>5, <2>6, <2>7 DEF ThreadsOK
<1>. QED  BY <1>3, <1>4

(* SaveHeartbeats holds the whole report and pushes it.                      *)
LEMMA ConfigBrokenType ==
  ASSUME TypeOK, ThreadsOK, NEW p \in Proc, ConfigBroken(p)
  PROVE  TypeOK' /\ ThreadsOK'
<1>1. TypeOK'
  BY Threads, SizeAssumption, ReportFacts
     DEF ConfigBroken, TypeOK, ThreadsOK, PC, NoReply, Reply, server, fates, cli
<1>2. ThreadsOK'
  BY Threads, ReportFacts
     DEF ConfigBroken, TypeOK, ThreadsOK, server, fates, cli
<1>. QED  BY <1>1, <1>2

(* A report that is dropped changes no thread.                               *)
LEMMA DropReportType ==
  ASSUME TypeOK, ThreadsOK, NEW p \in Proc, DropReport(p)
  PROVE  TypeOK' /\ ThreadsOK'
<1>1. TypeOK'
  BY Threads, SizeAssumption, ReportFacts
     DEF DropReport, TypeOK, ThreadsOK, PC, NoReply, Reply, server, fates, cli
<1>2. ThreadsOK'
  BY Threads, ReportFacts
     DEF DropReport, TypeOK, ThreadsOK, server, fates, cli
<1>. QED  BY <1>1, <1>2

(* A failed NewClient leaves the thread pushing, or at its exit.             *)
LEMMA ClientFailsType ==
  ASSUME TypeOK, ThreadsOK, NEW p \in Proc, ClientFails(p)
  PROVE  TypeOK' /\ ThreadsOK'
<1>1. Held(Main(p)) \subseteq Heartbeat
  BY Threads DEF TypeOK, ThreadsOK, Held, At, Range
<1>2. CASE p \notin Disabled
  <2>1. /\ pc' = [pc EXCEPT ![Main(p)] = "push"]
        /\ next' = [next EXCEPT ![Main(p)] = "exit"]
        /\ UNCHANGED <<todo, lost>>
    BY <1>2 DEF ClientFails
  <2>2. pc' \in [Thread -> PC] /\ next' \in [Thread -> {"sync", "loop", "exit", "idle"}]
    BY <2>1, Threads DEF TypeOK, PC
  <2>3. TypeOK'
    BY <2>1, <2>2 DEF ClientFails, TypeOK, server
  <2>4. ThreadsOK'
    BY <2>1, Threads DEF ClientFails, TypeOK, ThreadsOK
  <2>. QED  BY <2>3, <2>4
<1>3. CASE p \in Disabled
  <2>1. /\ pc' = [pc EXCEPT ![Main(p)] = "exit"]
        /\ lost' = lost \cup Held(Main(p))
        /\ todo' = [todo EXCEPT ![Main(p)] = {}]
        /\ next' = next
    BY <1>3 DEF ClientFails
  <2>2. /\ pc' \in [Thread -> PC] /\ todo' \in [Thread -> SUBSET Index]
        /\ lost' \in SUBSET Heartbeat
    BY <1>1, <2>1, Threads DEF TypeOK, PC
  <2>3. TypeOK'
    BY <2>1, <2>2 DEF ClientFails, TypeOK, server
  <2>4. ThreadsOK'
    BY <2>1, Threads DEF ClientFails, TypeOK, ThreadsOK
  <2>. QED  BY <2>3, <2>4
<1>. QED  BY <1>2, <1>3

(* A request leaves its thread waiting for a well-typed answer.              *)
LEMMA SendType ==
  ASSUME TypeOK, ThreadsOK, NEW p \in Proc, Send(p)
  PROVE  TypeOK' /\ ThreadsOK'
<1>1. TypeOK'
  BY Threads, SizeAssumption, AnswerFacts
     DEF Send, TypeOK, ThreadsOK, PC, NoReply, Reply, server, fates, cli
<1>2. ThreadsOK'
  BY Threads, AnswerFacts
     DEF Send, TypeOK, ThreadsOK, server, fates, cli
<1>. QED  BY <1>1, <1>2

(* An error leaves the whole slice to be pushed.                             *)
LEMMA AnswerErrorType ==
  ASSUME TypeOK, ThreadsOK, NEW p \in Proc, AnswerError(p)
  PROVE  TypeOK' /\ ThreadsOK'
<1>1. TypeOK'
  BY Threads, SizeAssumption
     DEF AnswerError, TypeOK, ThreadsOK, PC, NoReply, Reply, server, fates, cli
<1>2. ThreadsOK'
  BY Threads
     DEF AnswerError, TypeOK, ThreadsOK, server, fates, cli
<1>. QED  BY <1>1, <1>2

(* handleResults splits a slice: no index is in two parts.                   *)
LEMMA ResultParts ==
  ASSUME NEW hh, DOMAIN hh \subseteq Index, NEW s \in Seq(Status)
  PROVE  /\ DOMAIN hh = WithStatus(hh, s, "ok") \cup WithStatus(hh, s, "bad")
                         \cup WithStatus(hh, s, "other") \cup Leftovers(hh, s)
         /\ WithStatus(hh, s, "ok") \cap WithStatus(hh, s, "bad") = {}
         /\ WithStatus(hh, s, "ok") \cap WithStatus(hh, s, "other") = {}
         /\ WithStatus(hh, s, "bad") \cap WithStatus(hh, s, "other") = {}
         /\ WithStatus(hh, s, "ok") \cap Leftovers(hh, s) = {}
         /\ WithStatus(hh, s, "bad") \cap Leftovers(hh, s) = {}
         /\ WithStatus(hh, s, "other") \cap Leftovers(hh, s) = {}
<1>1. Len(s) \in Nat /\ DOMAIN s = 1..Len(s) /\ \A n \in 1..Len(s) : s[n] \in Status
  OBVIOUS
<1>2. \A n \in DOMAIN s : s[n] \in {"ok", "bad", "other"}
  BY <1>1, StatusAssumption
<1>3. \A n \in DOMAIN hh : n \in DOMAIN s \/ n > Len(s)
  BY <1>1 DEF Index
<1>4. \A n \in DOMAIN s : ~(n > Len(s))
  BY <1>1
<1>. QED  BY <1>2, <1>3, <1>4 DEF WithStatus, Leftovers

(* The end of a process leaves its threads idle and empty.                   *)
LEMMA VanishType ==
  ASSUME TypeOK, ThreadsOK, NEW p \in Proc, Vanish(p)
  PROVE  TypeOK' /\ ThreadsOK'
<1>1. Held(Main(p)) \subseteq Heartbeat /\ Held(Extra(p)) \subseteq Heartbeat
  BY Threads DEF TypeOK, ThreadsOK, Held, At, Range
<1>2. DOMAIN <<>> = {} /\ Range(<<>>) = {}
  BY DEF Range
<1>3. TypeOK'
  <2>1. \A t \in Thread : DOMAIN hold'[t] \subseteq Index /\ Range(hold'[t]) \subseteq Heartbeat
    BY <1>2, Threads DEF Vanish, TypeOK
  <2>2. /\ pc' \in [Thread -> PC] /\ DOMAIN hold' = Thread
        /\ todo' \in [Thread -> SUBSET Index] /\ left' \in [Thread -> SUBSET Index]
        /\ next' \in [Thread -> {"sync", "loop", "exit", "idle"}]
    BY Threads DEF Vanish, TypeOK, PC
  <2>3. /\ tries' \in [Thread -> 0..MaxRequeueAttempts]
        /\ alreadySent' \in [Proc -> 0..SyncLimit]
    <3>1. 0 \in 0..MaxRequeueAttempts /\ 0 \in 0..SyncLimit
      BY SizeAssumption
    <3>. QED  BY <3>1, Threads DEF Vanish, TypeOK
  <2>4. /\ phase' \in [Proc -> {"heartbeat", "sync"}]
        /\ reply' \in [Proc -> Reply]
    BY DEF Vanish, TypeOK, Reply, NoReply
  <2>. QED  BY <1>1, <2>1, <2>2, <2>3, <2>4 DEF Vanish, TypeOK, server
<1>4. ThreadsOK'
  <2>0. \A t \in Thread :
          \/ todo'[t] = {} /\ left'[t] = {}
          \/ todo'[t] = todo[t] /\ left'[t] = left[t] /\ hold'[t] = hold[t]
    BY Threads DEF Vanish, TypeOK
  <2>1. \A t \in Thread : todo'[t] \cup left'[t] \subseteq DOMAIN hold'[t] /\ todo'[t] \cap left'[t] = {}
    BY <2>0 DEF ThreadsOK
  <2>2. \A t \in Thread : \A m, n \in DOMAIN hold'[t] : hold'[t][m] = hold'[t][n] => m = n
    <3>1. \A t \in Thread : hold'[t] = <<>> \/ hold'[t] = hold[t]
      BY Threads DEF Vanish, TypeOK
    <3>. QED  BY <1>2, <3>1 DEF ThreadsOK
  <2>3. \A t \in Thread :
          /\ pc'[t] \in {"idle", "sync", "loop", "exit"} => todo'[t] = {} /\ left'[t] = {}
          /\ pc'[t] \in {"send", "reply"} => todo'[t] = DOMAIN hold'[t] /\ left'[t] = {}
    BY <1>2, Threads DEF Vanish, TypeOK, ThreadsOK
  <2>4. ASSUME NEW q \in Proc
        PROVE  /\ pc'[Extra(q)] \in {"idle", "push"} /\ next'[Extra(q)] = "idle"
               /\ pc'[Main(q)] = "idle" => pc'[Extra(q)] = "idle"
               /\ pc'[Main(q)] = "push" => next'[Main(q)] # "idle"
    BY Threads DEF Vanish, TypeOK, ThreadsOK
  <2>. QED  BY <2>1, <2>2, <2>3, <2>4 DEF ThreadsOK
<1>. QED  BY <1>3, <1>4

(* handleResults leaves disjoint parts of the slice to two pushes.           *)
LEMMA AnswerResultsType ==
  ASSUME TypeOK, ThreadsOK, NEW p \in Proc, AnswerResults(p)
  PROVE  TypeOK' /\ ThreadsOK'
<1>. DEFINE hh == hold[Main(p)]
            ok == WithStatus(hh, reply[p].statuses, "ok")
            bad == WithStatus(hh, reply[p].statuses, "bad")
            invalid == WithStatus(hh, reply[p].statuses, "other")
            leftovers == Leftovers(hh, reply[p].statuses)
            after == IF phase[p] = "sync" THEN "loop" ELSE "sync"
<1>1. /\ pc[Main(p)] = "reply"
      /\ acked' = acked \cup At(hh, ok) /\ rejected' = rejected \cup At(hh, bad)
      /\ todo' = [todo EXCEPT ![Main(p)] = IF invalid = {} THEN leftovers ELSE invalid]
      /\ left' = [left EXCEPT ![Main(p)] = IF invalid = {} THEN {} ELSE leftovers]
      /\ next' = [next EXCEPT ![Main(p)] = after]
      /\ pc' = [pc EXCEPT ![Main(p)] = IF invalid \cup leftovers = {} THEN after ELSE "push"]
      /\ reply' = [reply EXCEPT ![p] = NoReply]
      /\ UNCHANGED <<fresh, queue, phase, hold, tries, alreadySent, server, overwritten, lost>>
  BY DEF AnswerResults
<1>2. /\ DOMAIN hh \subseteq Index
      /\ \A S \in SUBSET DOMAIN hh : At(hh, S) \subseteq Heartbeat
  BY Threads DEF TypeOK, At, Range
<1>3. /\ ok \subseteq DOMAIN hh /\ bad \subseteq DOMAIN hh
      /\ invalid \subseteq DOMAIN hh /\ leftovers \subseteq DOMAIN hh
  BY DEF WithStatus, Leftovers
<1>4. invalid \cap leftovers = {}
  BY <1>2, Threads DEF WithStatus, Leftovers, TypeOK, Reply
<1>. HIDE DEF ok, bad, invalid, leftovers
<1>5. TypeOK'
  <2>1. acked' \in SUBSET Heartbeat /\ rejected' \in SUBSET Heartbeat
    BY <1>1, <1>2, <1>3 DEF TypeOK
  <2>2. /\ pc' \in [Thread -> PC]
        /\ todo' \in [Thread -> SUBSET Index] /\ left' \in [Thread -> SUBSET Index]
        /\ next' \in [Thread -> {"sync", "loop", "exit", "idle"}]
    BY <1>1, <1>2, <1>3, Threads DEF TypeOK, PC
  <2>3. reply' \in [Proc -> Reply]
    BY <1>1 DEF TypeOK, Reply, NoReply
  <2>. QED  BY <1>1, <2>1, <2>2, <2>3 DEF TypeOK, server
<1>6. ThreadsOK'
  <2>1. \A t \in Thread : todo'[t] \cup left'[t] \subseteq DOMAIN hold'[t] /\ todo'[t] \cap left'[t] = {}
    BY <1>1, <1>3, <1>4, Threads DEF TypeOK, ThreadsOK
  <2>2. \A t \in Thread :
          /\ pc'[t] \in {"idle", "sync", "loop", "exit"} => todo'[t] = {} /\ left'[t] = {}
          /\ pc'[t] \in {"send", "reply"} => todo'[t] = DOMAIN hold'[t] /\ left'[t] = {}
    BY <1>1, Threads DEF TypeOK, ThreadsOK
  <2>3. ASSUME NEW q \in Proc
        PROVE  /\ pc'[Extra(q)] \in {"idle", "push"} /\ next'[Extra(q)] = "idle"
               /\ pc'[Main(q)] = "idle" => pc'[Extra(q)] = "idle"
               /\ pc'[Main(q)] = "push" => next'[Main(q)] # "idle"
    BY <1>1, Threads DEF TypeOK, ThreadsOK
  <2>. QED  BY <1>1, <2>1, <2>2, <2>3 DEF ThreadsOK
<1>. QED  BY <1>5, <1>6

(* Without WithQueue nothing is left to push.                                *)
LEMMA AnswerUnqueuedType ==
  ASSUME TypeOK, ThreadsOK, NEW p \in Proc, AnswerUnqueued(p)
  PROVE  TypeOK' /\ ThreadsOK'
<1>1. \A S \in SUBSET DOMAIN hold[Main(p)] : At(hold[Main(p)], S) \subseteq Heartbeat
  BY Threads DEF TypeOK, At, Range
<1>2. TypeOK'
  <2>1. /\ acked' \in SUBSET Heartbeat /\ rejected' \in SUBSET Heartbeat
        /\ lost' \in SUBSET Heartbeat
    BY <1>1 DEF AnswerUnqueued, TypeOK, WithStatus
  <2>2. pc' \in [Thread -> PC] /\ todo' \in [Thread -> SUBSET Index]
    BY Threads DEF AnswerUnqueued, TypeOK, PC
  <2>3. reply' \in [Proc -> Reply]
    BY DEF AnswerUnqueued, TypeOK, Reply, NoReply
  <2>. QED  BY <2>1, <2>2, <2>3 DEF AnswerUnqueued, TypeOK, server
<1>3. ThreadsOK'
  BY Threads DEF AnswerUnqueued, TypeOK, ThreadsOK
<1>. QED  BY <1>2, <1>3

(* The start of a sync holds nothing.                                        *)
LEMMA StartSyncType ==
  ASSUME TypeOK, ThreadsOK, NEW p \in Proc, StartSync(p)
  PROVE  TypeOK' /\ ThreadsOK'
<1>1. TypeOK'
  BY Threads, SizeAssumption
     DEF StartSync, TypeOK, ThreadsOK, PC, NoReply, Reply, server, fates, cli
<1>2. ThreadsOK'
  BY Threads
     DEF StartSync, TypeOK, ThreadsOK, server, fates, cli
<1>. QED  BY <1>1, <1>2

(* A skipped sync holds nothing.                                             *)
LEMMA SkipSyncType ==
  ASSUME TypeOK, ThreadsOK, NEW p \in Proc, SkipSync(p)
  PROVE  TypeOK' /\ ThreadsOK'
<1>1. TypeOK'
  BY Threads, SizeAssumption
     DEF SkipSync, TypeOK, ThreadsOK, PC, NoReply, Reply, server, fates, cli
<1>2. ThreadsOK'
  BY Threads
     DEF SkipSync, TypeOK, ThreadsOK, server, fates, cli
<1>. QED  BY <1>1, <1>2

(* A sync begins with a count of zero.                                       *)
LEMMA BeginSyncType ==
  ASSUME TypeOK, ThreadsOK, NEW p \in Proc, BeginSync(p)
  PROVE  TypeOK' /\ ThreadsOK'
<1>1. TypeOK'
  BY Threads, SizeAssumption
     DEF BeginSync, TypeOK, ThreadsOK, PC, NoReply, Reply, server, fates, cli
<1>2. ThreadsOK'
  BY Threads
     DEF BeginSync, TypeOK, ThreadsOK, server, fates, cli
<1>. QED  BY <1>1, <1>2

(* Sync's count stays within its limit, and it holds what it popped.         *)
LEMMA PopBatchType ==
  ASSUME TypeOK, ThreadsOK, NEW p \in Proc, PopBatch(p)
  PROVE  TypeOK' /\ ThreadsOK'
<1>1. PICK hh \in PopMany(queue, Num(p)) :
        /\ queue' = queue \ Range(hh)
        /\ hold' = [hold EXCEPT ![Main(p)] = hh]
        /\ todo' = [todo EXCEPT ![Main(p)] = DOMAIN hh]
  BY DEF PopBatch, Without
<1>2. /\ pc[Main(p)] = "loop" /\ alreadySent[p] < SyncLimit
      /\ alreadySent' = [alreadySent EXCEPT ![p] = IF LastBatch(p) THEN @ + Num(p) ELSE @]
      /\ pc' = [pc EXCEPT ![Main(p)] = "send"]
      /\ UNCHANGED <<fresh, phase, left, next, tries, reply, server, fates>>
  BY DEF PopBatch
<1>3. /\ DOMAIN hh \subseteq Index /\ Range(hh) \subseteq queue /\ queue \subseteq Heartbeat
      /\ \A m, n \in DOMAIN hh : hh[m] = hh[n] => m = n
  <2>1. queue \in SUBSET Heartbeat
    BY DEF TypeOK, Stored
  <2>. QED  BY <2>1, PopFacts DEF Index
<1>4. TypeOK'
  <2>1. \A t \in Thread : DOMAIN hold'[t] \subseteq Index /\ Range(hold'[t]) \subseteq Heartbeat
    BY <1>1, <1>3, Threads DEF TypeOK
  <2>2. /\ DOMAIN hold' = Thread /\ pc' \in [Thread -> PC]
        /\ todo' \in [Thread -> SUBSET Index]
    BY <1>1, <1>2, <1>3, Threads DEF TypeOK, PC
  <2>3. queue' \in Stored
    BY <1>1, SubsetStored DEF TypeOK
  <2>4. alreadySent' \in [Proc -> 0..SyncLimit]
    BY <1>2, SizeAssumption DEF TypeOK, LastBatch, Num
  <2>. QED  BY <1>2, <2>1, <2>2, <2>3, <2>4 DEF TypeOK, server, fates
<1>5. ThreadsOK'
  BY <1>1, <1>2, <1>3, Threads DEF TypeOK, ThreadsOK
<1>. QED  BY <1>4, <1>5

(* The end of a sync holds nothing.                                          *)
LEMMA EndSyncType ==
  ASSUME TypeOK, ThreadsOK, NEW p \in Proc, EndSync(p)
  PROVE  TypeOK' /\ ThreadsOK'
<1>1. TypeOK'
  BY Threads, SizeAssumption
     DEF EndSync, TypeOK, ThreadsOK, PC, NoReply, Reply, server, fates, cli
<1>2. ThreadsOK'
  BY Threads
     DEF EndSync, TypeOK, ThreadsOK, server, fates, cli
<1>. QED  BY <1>1, <1>2

(* Exit leaves the threads of its process idle.                              *)
LEMMA ExitType ==
  ASSUME TypeOK, ThreadsOK, NEW p \in Proc, Exit(p)
  PROVE  TypeOK' /\ ThreadsOK'
BY VanishType DEF Exit

(* So does a crash.                                                          *)
LEMMA CrashType ==
  ASSUME TypeOK, ThreadsOK, NEW p \in Proc, Crash(p)
  PROVE  TypeOK' /\ ThreadsOK'
BY VanishType DEF Crash

(* A push keeps the queue well-formed and moves on to the next part.         *)
LEMMA PushType ==
  ASSUME TypeOK, ThreadsOK, NEW t \in Thread, Push(t)
  PROVE  TypeOK' /\ ThreadsOK'
<1>. DEFINE hh == Restrict(hold[t], todo[t])
<1>1. /\ pc[t] = "push" /\ CanPush(hh) /\ queue' = PushMany(queue, hh)
      /\ overwritten' = overwritten \cup ((queue \cup Range(hh)) \ queue')
  BY DEF Push
<1>2. DOMAIN hh \subseteq Nat /\ Range(hh) \subseteq Heartbeat
  BY RestrictFacts DEF TypeOK, ThreadsOK, At, Range, Index
<1>. HIDE DEF hh
<1>3. queue' \in Stored
  BY <1>1, <1>2, PushFacts DEF TypeOK
<1>4. overwritten' \in SUBSET Heartbeat
  BY <1>1, <1>2 DEF TypeOK, Stored
<1>5. next[t] \in PC
  BY DEF TypeOK, PC
<1>6. pc' \in [Thread -> PC]
  BY <1>5 DEF Push, NextPush, TypeOK, PC
<1>7. /\ todo' \in [Thread -> SUBSET Index] /\ left' \in [Thread -> SUBSET Index]
      /\ tries' \in [Thread -> 0..MaxRequeueAttempts]
  BY SizeAssumption DEF Push, NextPush, TypeOK
<1>8. TypeOK'
  BY <1>3, <1>4, <1>6, <1>7 DEF Push, NextPush, TypeOK, server
<1>9. ThreadsOK'
  BY Threads DEF Push, NextPush, TypeOK, ThreadsOK
<1>. QED  BY <1>8, <1>9

(* A failed push stays within maxRequeueAttempts.                            *)
LEMMA PushFailsType ==
  ASSUME TypeOK, ThreadsOK, NEW t \in Thread, PushFails(t)
  PROVE  TypeOK' /\ ThreadsOK'
<1>1. tries' \in [Thread -> 0..MaxRequeueAttempts]
  BY SizeAssumption DEF PushFails, TypeOK
<1>2. TypeOK'
  BY <1>1 DEF PushFails, TypeOK, server, fates
<1>3. ThreadsOK'
  BY DEF PushFails, ThreadsOK
<1>. QED  BY <1>2, <1>3

(* A push that is given up moves on to the next part.                        *)
LEMMA GiveUpType ==
  ASSUME TypeOK, ThreadsOK, NEW t \in Thread, GiveUp(t)
  PROVE  TypeOK' /\ ThreadsOK'
<1>1. lost' \in SUBSET Heartbeat
  BY DEF GiveUp, TypeOK, ThreadsOK, At, Range
<1>2. pc' \in [Thread -> PC]
  BY DEF GiveUp, NextPush, TypeOK, PC
<1>3. /\ tries' \in [Thread -> 0..MaxRequeueAttempts]
      /\ todo' \in [Thread -> SUBSET Index] /\ left' \in [Thread -> SUBSET Index]
  BY SizeAssumption DEF GiveUp, NextPush, TypeOK
<1>4. TypeOK'
  BY <1>1, <1>2, <1>3 DEF GiveUp, NextPush, TypeOK, server
<1>5. ThreadsOK'
  BY Threads DEF GiveUp, NextPush, TypeOK, ThreadsOK
<1>. QED  BY <1>4, <1>5


(* Disjoint index sets of distinct heartbeats name disjoint heartbeats.      *)
LEMMA AtFacts ==
  ASSUME NEW hh, \A m, n \in DOMAIN hh : hh[m] = hh[n] => m = n,
         NEW I \in SUBSET DOMAIN hh, NEW J \in SUBSET DOMAIN hh
  PROVE  /\ At(hh, I \cup J) = At(hh, I) \cup At(hh, J)
         /\ I \cap J = {} => At(hh, I) \cap At(hh, J) = {}
BY DEF At

(* What a thread holds depends on its own slice and parts alone.             *)
LEMMA HeldFacts ==
  ASSUME ThreadsOK, NEW t \in Thread
  PROVE  /\ Held(t) = At(hold[t], todo[t]) \cup At(hold[t], left[t])
         /\ At(hold[t], todo[t]) \cap At(hold[t], left[t]) = {}
         /\ pc[t] \in {"idle", "sync", "loop", "exit"} => Held(t) = {}
         /\ pc[t] \in {"send", "reply"} => Held(t) = At(hold[t], DOMAIN hold[t])
BY AtFacts DEF ThreadsOK, Held, At

(* At first every heartbeat is fresh or queued.                              *)
LEMMA PlacesInit == Init => OnePlaceEach
BY DEF Init, OnePlaceEach, NoneMissing, NoneTwice, Settled, Held, At, Stored

(* Steps that move no heartbeat.                                             *)

(* A step that moves no heartbeat keeps them in one place each.              *)
LEMMA PlacesKept ==
  ASSUME OnePlaceEach, UNCHANGED <<fresh, queue, hold, todo, left, fates>>
  PROVE  OnePlaceEach'
BY DEF OnePlaceEach, NoneMissing, NoneTwice, Settled, Held, fates

(* Reported heartbeats move from fresh into the memory of the process's two  *)
(* threads, or are lost.                                                     *)

(* So does a report: its heartbeats leave fresh for one fate or thread.      *)
LEMMA PlacesReported ==
  ASSUME OnePlaceEach, NEW p \in Proc,
         Held(Main(p)) = {}, Held(Extra(p)) = {},
         NEW R \in SUBSET fresh, fresh' = fresh \ R,
         \A t \in Thread \ {Main(p), Extra(p)} : Held(t)' = Held(t),
         R = Held(Main(p))' \cup Held(Extra(p))' \cup (lost' \ lost), lost \subseteq lost',
         Held(Main(p))' \cap Held(Extra(p))' = {},
         (Held(Main(p))' \cup Held(Extra(p))') \cap (lost' \ lost) = {},
         UNCHANGED <<queue, acked, rejected, overwritten>>
  PROVE  OnePlaceEach'
<1>1. NoneMissing'
  BY Threads DEF OnePlaceEach, NoneMissing, Settled
<1>2. NoneTwice'
  BY Threads DEF OnePlaceEach, NoneTwice, Settled
<1>. QED  BY <1>1, <1>2 DEF OnePlaceEach

(* A thread passes heartbeats on to the queue or settles them.               *)

(* So does a step that moves heartbeats of a thread to queue or fates.       *)
LEMMA PlacesSettled ==
  ASSUME OnePlaceEach, NEW t \in Thread, fresh' = fresh,
         \A u \in Thread \ {t} : Held(u)' = Held(u),
         NEW R, Held(t) = Held(t)' \cup R, Held(t)' \cap R = {},
         queue \cup Settled \cup R = queue' \cup Settled',
         acked \subseteq acked', rejected \subseteq rejected',
         overwritten \subseteq overwritten', lost \subseteq lost',
         queue' \cap Settled' = {},
         acked' \cap (rejected' \cup overwritten' \cup lost') = {},
         rejected' \cap (overwritten' \cup lost') = {}, overwritten' \cap lost' = {}
  PROVE  OnePlaceEach'
<1>1. NoneMissing'
  BY DEF OnePlaceEach, NoneMissing
<1>2. NoneTwice'
  <2>1. R \cap (fresh \cup queue \cup Settled) = {}
    BY DEF OnePlaceEach, NoneTwice
  <2>2. \A u \in Thread : u # t => Held(u)' \cap R = {}
    BY DEF OnePlaceEach, NoneTwice
  <2>3. /\ \A u \in Thread : Held(u)' \cap (fresh' \cup queue' \cup Settled') = {}
        /\ \A u, v \in Thread : u # v => Held(u)' \cap Held(v)' = {}
    BY <2>1, <2>2 DEF OnePlaceEach, NoneTwice
  <2>4. fresh' \cap queue' = {} /\ (fresh' \cup queue') \cap Settled' = {}
    BY <2>1 DEF OnePlaceEach, NoneTwice
  <2>. QED  BY <2>3, <2>4 DEF NoneTwice
<1>. QED  BY <1>1, <1>2 DEF OnePlaceEach

(* DropReport moves heartbeats from fresh to lost.                           *)
LEMMA DropReportPlaces ==
  ASSUME TypeOK, ThreadsOK, OnePlaceEach, NEW p \in Proc, DropReport(p)
  PROVE  OnePlaceEach'
<1>1. PICK hh \in Reports : fresh' = fresh \ Range(hh) /\ lost' = lost \cup Range(hh)
  BY DEF DropReport
<1>2. Range(hh) \subseteq fresh
  BY <1>1, ReportFacts
<1>3. /\ \A t \in Thread : Held(t)' = Held(t)
      /\ pc[Main(p)] = "idle" /\ UNCHANGED <<queue, acked, rejected, overwritten>>
  BY DEF DropReport, Held, cli
<1>4. Held(Main(p)) = {} /\ Held(Extra(p)) = {} /\ Range(hh) \cap lost = {}
  BY <1>2, <1>3, HeldFacts, Threads DEF ThreadsOK, OnePlaceEach, NoneTwice, Settled
<1>. QED  BY <1>1, <1>2, <1>3, <1>4, Threads, PlacesReported

(* ConfigBroken moves heartbeats from fresh to one thread.                   *)
LEMMA ConfigBrokenPlaces ==
  ASSUME TypeOK, ThreadsOK, OnePlaceEach, NEW p \in Proc, ConfigBroken(p)
  PROVE  OnePlaceEach'
<1>1. PICK hh \in Reports :
        /\ fresh' = fresh \ Range(hh)
        /\ hold' = [hold EXCEPT ![Main(p)] = hh]
        /\ todo' = [todo EXCEPT ![Main(p)] = DOMAIN hh]
  BY DEF ConfigBroken
<1>2. Range(hh) \subseteq fresh /\ Range(hh) = At(hh, DOMAIN hh)
  BY ReportFacts
<1>3. /\ pc[Main(p)] = "idle" /\ left' = left
      /\ lost' = lost /\ UNCHANGED <<queue, acked, rejected, overwritten>>
  BY DEF ConfigBroken, fates
<1>4. left[Main(p)] = {} /\ Held(Main(p)) = {} /\ Held(Extra(p)) = {}
  BY <1>3, HeldFacts, Threads DEF ThreadsOK
<1>5. \A t \in Thread \ {Main(p)} : Held(t)' = Held(t)
  BY <1>1, <1>3 DEF Held, TypeOK
<1>6. Held(Main(p))' = Range(hh)
  BY <1>1, <1>2, <1>3, <1>4, Threads DEF Held, TypeOK
<1>. QED  BY <1>1, <1>2, <1>3, <1>4, <1>5, <1>6, Threads, PlacesReported

(* StartSend moves heartbeats from fresh to two threads, or lost.            *)
LEMMA StartSendPlaces ==
  ASSUME TypeOK, ThreadsOK, OnePlaceEach, NEW p \in Proc, StartSend(p)
  PROVE  OnePlaceEach'
<1>1. PICK hh \in Reports :
        /\ fresh' = fresh \ Range(hh)
        /\ hold' = [hold EXCEPT ![Main(p)] = Restrict(hh, First(hh)),
                                ![Extra(p)] = Restrict(hh, Saved(p, hh))]
        /\ todo' = [todo EXCEPT ![Main(p)] = First(hh), ![Extra(p)] = Saved(p, hh)]
        /\ lost' = lost \cup At(hh, DOMAIN hh \ (First(hh) \cup Saved(p, hh)))
  BY DEF StartSend
<1>. DEFINE A == At(hh, First(hh))
            B == At(hh, Saved(p, hh))
            C == At(hh, DOMAIN hh \ (First(hh) \cup Saved(p, hh)))
<1>2. /\ Range(hh) \subseteq fresh /\ Range(hh) = A \cup B \cup C
      /\ A \cap B = {} /\ (A \cup B) \cap C = {}
  BY ReportFacts, SliceFacts DEF At, Range
<1>3. /\ pc[Main(p)] = "idle" /\ left' = left
      /\ UNCHANGED <<queue, acked, rejected, overwritten>>
  BY DEF StartSend
<1>4. /\ left[Main(p)] = {} /\ left[Extra(p)] = {}
      /\ Held(Main(p)) = {} /\ Held(Extra(p)) = {}
  BY <1>3, HeldFacts, Threads DEF ThreadsOK
<1>5. \A t \in Thread \ {Main(p), Extra(p)} : Held(t)' = Held(t)
  BY <1>1, <1>3 DEF Held, TypeOK
<1>6. Held(Main(p))' = A
  <2>1. /\ hold'[Main(p)] = Restrict(hh, First(hh)) /\ todo'[Main(p)] = First(hh)
        /\ left'[Main(p)] = {}
    BY <1>1, <1>3, <1>4, Threads DEF TypeOK
  <2>. QED  BY <2>1, RestrictFacts DEF Held, At
<1>7. Held(Extra(p))' = B
  <2>1. /\ hold'[Extra(p)] = Restrict(hh, Saved(p, hh)) /\ todo'[Extra(p)] = Saved(p, hh)
        /\ left'[Extra(p)] = {}
    BY <1>1, <1>3, <1>4, Threads DEF TypeOK
  <2>. QED  BY <2>1, RestrictFacts DEF Held, At
<1>8. lost' = lost \cup C
  BY <1>1
<1>9. fresh' = fresh \ Range(hh)
  BY <1>1
<1>. HIDE DEF A, B, C
<1>10. Range(hh) \cap lost = {}
  BY <1>2 DEF OnePlaceEach, NoneTwice, Settled
<1>11. lost' \ lost = C
  BY <1>2, <1>8, <1>10
<1>. QED  BY <1>2, <1>3, <1>4, <1>5, <1>6, <1>7, <1>8, <1>9, <1>11, Threads, PlacesReported

(* ClientFails keeps heartbeats or loses them.                               *)
LEMMA ClientFailsPlaces ==
  ASSUME TypeOK, ThreadsOK, OnePlaceEach, NEW p \in Proc, ClientFails(p)
  PROVE  OnePlaceEach'
<1>1. CASE p \notin Disabled
  BY <1>1, PlacesKept DEF ClientFails, fates
<1>2. CASE p \in Disabled
  <2>1. /\ pc[Main(p)] = "send" /\ todo' = [todo EXCEPT ![Main(p)] = {}]
        /\ lost' = lost \cup Held(Main(p))
        /\ UNCHANGED <<fresh, queue, hold, left, acked, rejected, overwritten>>
    BY <1>2 DEF ClientFails
  <2>2. left[Main(p)] = {}
    BY <2>1, Threads DEF ThreadsOK
  <2>3. Held(Main(p))' = {} /\ \A t \in Thread \ {Main(p)} : Held(t)' = Held(t)
    BY <2>1, <2>2, Threads DEF Held, At, TypeOK
  <2>4. Held(Main(p)) \cap (queue \cup Settled) = {}
    BY Threads DEF OnePlaceEach, NoneTwice
  <2>5. /\ queue \cup Settled \cup Held(Main(p)) = queue' \cup Settled'
        /\ queue' \cap Settled' = {}
        /\ acked' \cap (rejected' \cup overwritten' \cup lost') = {}
        /\ rejected' \cap (overwritten' \cup lost') = {} /\ overwritten' \cap lost' = {}
    BY <2>1, <2>4 DEF Settled, OnePlaceEach, NoneTwice
  <2>6. /\ Held(Main(p)) = Held(Main(p))' \cup Held(Main(p))
        /\ Held(Main(p))' \cap Held(Main(p)) = {}
    BY <2>3
  <2>. QED  BY <2>1, <2>3, <2>5, <2>6, Threads, PlacesSettled
<1>. QED  BY <1>1, <1>2

(* handleResults settles heartbeats or keeps them to push.                   *)
LEMMA AnswerResultsPlaces ==
  ASSUME TypeOK, ThreadsOK, OnePlaceEach, NEW p \in Proc, AnswerResults(p)
  PROVE  OnePlaceEach'
<1>. DEFINE hh == hold[Main(p)]
            ok == WithStatus(hh, reply[p].statuses, "ok")
            bad == WithStatus(hh, reply[p].statuses, "bad")
            invalid == WithStatus(hh, reply[p].statuses, "other")
            leftovers == Leftovers(hh, reply[p].statuses)
            back == invalid \cup leftovers
<1>1. /\ pc[Main(p)] = "reply" /\ UNCHANGED <<fresh, queue, hold, overwritten, lost>>
      /\ acked' = acked \cup At(hh, ok) /\ rejected' = rejected \cup At(hh, bad)
      /\ todo' = [todo EXCEPT ![Main(p)] = IF invalid = {} THEN leftovers ELSE invalid]
      /\ left' = [left EXCEPT ![Main(p)] = IF invalid = {} THEN {} ELSE leftovers]
  BY DEF AnswerResults
<1>2. /\ DOMAIN hh = ok \cup bad \cup back
      /\ ok \cap bad = {} /\ (ok \cup bad) \cap back = {}
  <2>1. DOMAIN hh \subseteq Index /\ reply[p].statuses \in Seq(Status)
    BY Threads DEF TypeOK, Reply
  <2>2. DOMAIN hh = ok \cup bad \cup back
    BY <2>1, ResultParts
  <2>3. ok \cap bad = {} /\ ok \cap back = {} /\ bad \cap back = {}
    BY <2>1, ResultParts
  <2>. QED  BY <2>2, <2>3
<1>3. /\ Held(Main(p)) = At(hh, DOMAIN hh)
      /\ \A m, n \in DOMAIN hh : hh[m] = hh[n] => m = n
  BY <1>1, HeldFacts, Threads DEF ThreadsOK
<1>. HIDE DEF ok, bad, invalid, leftovers, hh
<1>4. \A t \in Thread \ {Main(p)} : Held(t)' = Held(t)
  BY <1>1 DEF Held, TypeOK
<1>5. Held(Main(p))' = At(hh, back)
  BY <1>1, Threads DEF Held, TypeOK, hh
<1>6. /\ Held(Main(p)) = At(hh, back) \cup At(hh, ok) \cup At(hh, bad)
      /\ At(hh, ok) \cap At(hh, bad) = {}
      /\ (At(hh, ok) \cup At(hh, bad)) \cap At(hh, back) = {}
  BY <1>2, <1>3 DEF At
<1>7. Held(Main(p)) \cap (queue \cup Settled) = {}
  BY Threads DEF OnePlaceEach, NoneTwice
<1>. QED
  <2>. DEFINE R == At(hh, ok) \cup At(hh, bad)
  <2>1. /\ queue \cup Settled \cup R = queue' \cup Settled'
        /\ queue' \cap Settled' = {}
        /\ acked' \cap (rejected' \cup overwritten' \cup lost') = {}
        /\ rejected' \cap (overwritten' \cup lost') = {} /\ overwritten' \cap lost' = {}
    BY <1>1, <1>6, <1>7 DEF Settled, OnePlaceEach, NoneTwice
  <2>2. Held(Main(p)) = Held(Main(p))' \cup R /\ Held(Main(p))' \cap R = {}
    BY <1>5, <1>6
  <2>. HIDE DEF R
  <2>. QED  BY <1>1, <1>4, <2>1, <2>2, Threads, PlacesSettled

(* Without WithQueue an answer settles or loses every heartbeat.             *)
LEMMA AnswerUnqueuedPlaces ==
  ASSUME TypeOK, ThreadsOK, OnePlaceEach, NEW p \in Proc, AnswerUnqueued(p)
  PROVE  OnePlaceEach'
<1>. DEFINE hh == hold[Main(p)]
            ok == WithStatus(hh, reply[p].statuses, "ok")
            bad == WithStatus(hh, reply[p].statuses, "bad")
            rest == DOMAIN hh \ (ok \cup bad)
<1>1. /\ pc[Main(p)] = "reply" /\ UNCHANGED <<fresh, queue, hold, left, overwritten>>
      /\ acked' = acked \cup At(hh, ok) /\ rejected' = rejected \cup At(hh, bad)
      /\ lost' = lost \cup At(hh, rest)
      /\ todo' = [todo EXCEPT ![Main(p)] = {}]
  BY DEF AnswerUnqueued
<1>2. DOMAIN hh = ok \cup bad \cup rest /\ ok \cap bad = {} /\ (ok \cup bad) \cap rest = {}
  <2>1. DOMAIN hh \subseteq Index /\ reply[p].statuses \in Seq(Status)
    BY Threads DEF TypeOK, Reply
  <2>. QED  BY <2>1, ResultParts
<1>3. /\ Held(Main(p)) = At(hh, DOMAIN hh) /\ left[Main(p)] = {}
      /\ \A m, n \in DOMAIN hh : hh[m] = hh[n] => m = n
  BY <1>1, HeldFacts, Threads DEF ThreadsOK
<1>. HIDE DEF ok, bad, rest, hh
<1>4. \A t \in Thread \ {Main(p)} : Held(t)' = Held(t)
  BY <1>1 DEF Held, TypeOK
<1>5. Held(Main(p))' = {}
  BY <1>1, <1>3, Threads DEF Held, TypeOK, At
<1>6. /\ Held(Main(p)) = At(hh, ok) \cup At(hh, bad) \cup At(hh, rest)
      /\ At(hh, ok) \cap At(hh, bad) = {}
      /\ (At(hh, ok) \cup At(hh, bad)) \cap At(hh, rest) = {}
  BY <1>2, <1>3 DEF At
<1>7. Held(Main(p)) \cap (queue \cup Settled) = {}
  BY Threads DEF OnePlaceEach, NoneTwice
<1>8. /\ queue \cup Settled \cup Held(Main(p)) = queue' \cup Settled'
      /\ queue' \cap Settled' = {}
      /\ acked' \cap (rejected' \cup overwritten' \cup lost') = {}
      /\ rejected' \cap (overwritten' \cup lost') = {} /\ overwritten' \cap lost' = {}
  BY <1>1, <1>6, <1>7 DEF Settled, OnePlaceEach, NoneTwice
<1>9. /\ Held(Main(p)) = Held(Main(p))' \cup Held(Main(p))
      /\ Held(Main(p))' \cap Held(Main(p)) = {}
  BY <1>5
<1>. QED  BY <1>1, <1>4, <1>8, <1>9, Threads, PlacesSettled

(* Push moves heartbeats to the queue, and what it replaces out of it.       *)
LEMMA PushPlaces ==
  ASSUME TypeOK, ThreadsOK, OnePlaceEach, NEW t \in Thread, Push(t)
  PROVE  OnePlaceEach'
<1>. DEFINE hh == Restrict(hold[t], todo[t])
<1>1. /\ pc[t] = "push" /\ CanPush(hh) /\ queue' = PushMany(queue, hh)
      /\ overwritten' = overwritten \cup ((queue \cup Range(hh)) \ queue')
      /\ UNCHANGED <<fresh, hold, acked, rejected, lost>>
      /\ todo' = [todo EXCEPT ![t] = left[t]] /\ left' = [left EXCEPT ![t] = {}]
  BY DEF Push, NextPush
<1>2. /\ Range(hh) = At(hold[t], todo[t])
      /\ DOMAIN hh \subseteq Nat /\ Range(hh) \subseteq Heartbeat
  BY RestrictFacts DEF TypeOK, ThreadsOK, At, Range, Index
<1>. HIDE DEF hh
<1>3. queue' \subseteq queue \cup Range(hh)
  <2>1. queue \in Stored
    BY DEF TypeOK
  <2>. QED  BY <1>1, <1>2, <2>1, PushFacts
<1>4. \A u \in Thread \ {t} : Held(u)' = Held(u)
  BY <1>1 DEF Held, TypeOK
<1>5. Held(t)' = At(hold[t], left[t])
  BY <1>1 DEF Held, TypeOK
<1>6. Held(t) = Held(t)' \cup Range(hh) /\ Held(t)' \cap Range(hh) = {}
  BY <1>2, <1>5, HeldFacts
<1>7. Held(t) \cap (queue \cup Settled) = {} /\ queue \cap Settled = {}
  BY DEF OnePlaceEach, NoneTwice
<1>8. /\ queue \cup Settled \cup Range(hh) = queue' \cup Settled'
      /\ queue' \cap Settled' = {}
      /\ acked' \cap (rejected' \cup overwritten' \cup lost') = {}
      /\ rejected' \cap (overwritten' \cup lost') = {} /\ overwritten' \cap lost' = {}
  BY <1>1, <1>3, <1>6, <1>7 DEF Settled, OnePlaceEach, NoneTwice
<1>. QED  BY <1>1, <1>4, <1>6, <1>8, PlacesSettled

(* GiveUp moves heartbeats to lost.                                          *)
LEMMA GiveUpPlaces ==
  ASSUME TypeOK, ThreadsOK, OnePlaceEach, NEW t \in Thread, GiveUp(t)
  PROVE  OnePlaceEach'
<1>. DEFINE R == At(hold[t], todo[t])
<1>1. /\ lost' = lost \cup R
      /\ UNCHANGED <<fresh, queue, hold, acked, rejected, overwritten>>
      /\ todo' = [todo EXCEPT ![t] = left[t]] /\ left' = [left EXCEPT ![t] = {}]
  BY DEF GiveUp, NextPush
<1>2. \A u \in Thread \ {t} : Held(u)' = Held(u)
  BY <1>1 DEF Held, TypeOK
<1>3. Held(t)' = At(hold[t], left[t])
  BY <1>1 DEF Held, TypeOK
<1>4. Held(t) = Held(t)' \cup R /\ Held(t)' \cap R = {}
  BY <1>3, HeldFacts
<1>5. Held(t) \cap (queue \cup Settled) = {} /\ queue \cap Settled = {}
  BY DEF OnePlaceEach, NoneTwice
<1>. HIDE DEF R
<1>6. /\ queue \cup Settled \cup R = queue' \cup Settled'
      /\ queue' \cap Settled' = {}
      /\ acked' \cap (rejected' \cup overwritten' \cup lost') = {}
      /\ rejected' \cap (overwritten' \cup lost') = {} /\ overwritten' \cap lost' = {}
  BY <1>1, <1>4, <1>5 DEF Settled, OnePlaceEach, NoneTwice
<1>. QED  BY <1>1, <1>2, <1>4, <1>6, PlacesSettled

(* PopBatch moves heartbeats from the queue to one thread.                   *)
LEMMA PopBatchPlaces ==
  ASSUME TypeOK, ThreadsOK, OnePlaceEach, NEW p \in Proc, PopBatch(p)
  PROVE  OnePlaceEach'
<1>1. PICK hh \in PopMany(queue, Num(p)) :
        /\ queue' = queue \ Range(hh)
        /\ hold' = [hold EXCEPT ![Main(p)] = hh]
        /\ todo' = [todo EXCEPT ![Main(p)] = DOMAIN hh]
  BY DEF PopBatch, Without
<1>2. pc[Main(p)] = "loop" /\ UNCHANGED <<fresh, left, fates>>
  BY DEF PopBatch
<1>3. Range(hh) \subseteq queue /\ Range(hh) = At(hh, DOMAIN hh)
  <2>1. queue \in SUBSET Heartbeat
    BY DEF TypeOK, Stored
  <2>. QED  BY <2>1, PopFacts DEF Range, At
<1>4. left[Main(p)] = {} /\ Held(Main(p)) = {}
  BY <1>2, HeldFacts, Threads DEF ThreadsOK
<1>5. Held(Main(p))' = Range(hh)
  BY <1>1, <1>2, <1>3, <1>4, Threads DEF Held, TypeOK
<1>6. \A t \in Thread \ {Main(p)} : Held(t)' = Held(t)
  BY <1>1, <1>2 DEF Held, TypeOK
<1>7. Settled' = Settled /\ fresh' = fresh
  BY <1>2 DEF Settled, fates
<1>8. NoneMissing'
  BY <1>1, <1>5, <1>6, <1>7, <1>4, Threads DEF OnePlaceEach, NoneMissing
<1>9. NoneTwice'
  <2>1. Range(hh) \cap (fresh \cup Settled) = {} /\ \A t \in Thread : Held(t) \cap Range(hh) = {}
    BY <1>3 DEF OnePlaceEach, NoneTwice
  <2>2. \A t \in Thread : Held(t)' \cap (fresh' \cup queue' \cup Settled') = {}
    BY <1>1, <1>5, <1>6, <1>7, <2>1 DEF OnePlaceEach, NoneTwice
  <2>3. \A t, u \in Thread : t # u => Held(t)' \cap Held(u)' = {}
    BY <1>5, <1>6, <2>1 DEF OnePlaceEach, NoneTwice
  <2>. QED  BY <1>1, <1>2, <1>7, <2>2, <2>3 DEF OnePlaceEach, NoneTwice, fates
<1>. QED  BY <1>8, <1>9 DEF OnePlaceEach

(* The end of a process loses what its threads held.                         *)
LEMMA VanishPlaces ==
  ASSUME TypeOK, ThreadsOK, OnePlaceEach, NEW p \in Proc, Vanish(p)
  PROVE  OnePlaceEach'
<1>. DEFINE M == Held(Main(p))
            X == Held(Extra(p))
<1>1. /\ UNCHANGED <<fresh, queue, acked, rejected, overwritten>>
      /\ lost' = lost \cup M \cup X
  BY DEF Vanish
<1>2. /\ todo'[Main(p)] = {} /\ left'[Main(p)] = {} /\ todo'[Extra(p)] = {} /\ left'[Extra(p)] = {}
      /\ \A t \in Thread \ {Main(p), Extra(p)} :
           hold'[t] = hold[t] /\ todo'[t] = todo[t] /\ left'[t] = left[t]
  BY Threads DEF Vanish, TypeOK
<1>3. /\ Held(Main(p))' = {} /\ Held(Extra(p))' = {}
      /\ \A t \in Thread \ {Main(p), Extra(p)} : Held(t)' = Held(t)
  BY <1>2 DEF Held, At
<1>4. (M \cup X) \cap (fresh \cup queue \cup Settled) = {}
  BY Threads DEF OnePlaceEach, NoneTwice
<1>5. NoneMissing'
  BY <1>1, <1>3 DEF OnePlaceEach, NoneMissing, Settled
<1>6. NoneTwice'
  <2>1. ASSUME NEW t \in Thread
        PROVE  /\ Held(t)' \cap (fresh' \cup queue' \cup Settled') = {}
               /\ \A u \in Thread : t # u => Held(t)' \cap Held(u)' = {}
    <3>1. CASE t \in {Main(p), Extra(p)}
      BY <1>3, <3>1
    <3>2. CASE t \notin {Main(p), Extra(p)}
      <4>1. Held(t) \cap (M \cup X) = {}
        BY <3>2, Threads DEF OnePlaceEach, NoneTwice
      <4>2. Held(t) \cap (fresh \cup queue \cup Settled) = {}
        BY DEF OnePlaceEach, NoneTwice
      <4>3. Held(t)' = Held(t)
        BY <1>3, <3>2
      <4>4. \A u \in Thread : t # u => Held(t)' \cap Held(u)' = {}
        BY <1>3, <4>3 DEF OnePlaceEach, NoneTwice
      <4>. QED  BY <1>1, <4>1, <4>2, <4>3, <4>4 DEF Settled
    <3>. QED  BY <3>1, <3>2
  <2>. HIDE DEF M, X
  <2>2. /\ fresh' \cap queue' = {} /\ (fresh' \cup queue') \cap Settled' = {}
        /\ acked' \cap (rejected' \cup overwritten' \cup lost') = {}
        /\ rejected' \cap (overwritten' \cup lost') = {} /\ overwritten' \cap lost' = {}
    BY <1>1, <1>4 DEF OnePlaceEach, NoneTwice, Settled
  <2>. QED  BY <2>1, <2>2 DEF NoneTwice
<1>. QED  BY <1>5, <1>6 DEF OnePlaceEach

(* No step leaves a heartbeat in no place or in two.                         *)
LEMMA PlacesNext == TypeOK /\ ThreadsOK /\ OnePlaceEach /\ [Next]_vars => OnePlaceEach'
<1>. SUFFICES ASSUME TypeOK, ThreadsOK, OnePlaceEach, [Next]_vars PROVE OnePlaceEach'
  OBVIOUS
<1>1. ASSUME NEW p \in Proc, Begins(p) PROVE OnePlaceEach'
  <2>1. CASE StartSync(p)
    BY <2>1, PlacesKept DEF StartSync
  <2>. QED  BY <1>1, <2>1, StartSendPlaces, ConfigBrokenPlaces, DropReportPlaces DEF Begins
<1>2. ASSUME NEW p \in Proc, Runs(p) PROVE OnePlaceEach'
  <2>1. CASE Send(p)
    BY <2>1, PlacesKept DEF Send
  <2>2. CASE AnswerError(p)
    BY <2>2, PlacesKept DEF AnswerError
  <2>3. CASE SkipSync(p) \/ BeginSync(p) \/ EndSync(p)
    BY <2>3, PlacesKept DEF SkipSync, BeginSync, EndSync
  <2>4. CASE Exit(p)
    BY <2>4, VanishPlaces DEF Exit
  <2>. QED  BY <1>2, <2>1, <2>2, <2>3, <2>4, ClientFailsPlaces, AnswerResultsPlaces,
               AnswerUnqueuedPlaces, PopBatchPlaces DEF Runs
<1>3. ASSUME NEW p \in Proc, Crash(p) PROVE OnePlaceEach'
  BY <1>3, VanishPlaces DEF Crash
<1>4. ASSUME NEW t \in Thread, Pushes(t) PROVE OnePlaceEach'
  <2>1. CASE PushFails(t)
    BY <2>1, PlacesKept DEF PushFails
  <2>. QED  BY <1>4, <2>1, PushPlaces, GiveUpPlaces DEF Pushes
<1>5. CASE UNCHANGED vars
  BY <1>5, PlacesKept DEF vars, cli
<1>. QED  BY <1>1, <1>2, <1>3, <1>4, <1>5 DEF Next

(* Every step keeps the types and the parts of the threads.                  *)
LEMMA TypeNext == TypeOK /\ ThreadsOK /\ [Next]_vars => TypeOK' /\ ThreadsOK'
<1>. SUFFICES ASSUME TypeOK, ThreadsOK, [Next]_vars PROVE TypeOK' /\ ThreadsOK'
  OBVIOUS
<1>1. ASSUME NEW p \in Proc, Begins(p) PROVE TypeOK' /\ ThreadsOK'
  BY <1>1, StartSendType, ConfigBrokenType, DropReportType, StartSyncType DEF Begins
<1>2. ASSUME NEW p \in Proc, Runs(p) PROVE TypeOK' /\ ThreadsOK'
  BY <1>2, ClientFailsType, SendType, AnswerErrorType, AnswerResultsType, AnswerUnqueuedType,
     SkipSyncType, BeginSyncType, PopBatchType, EndSyncType, ExitType DEF Runs
<1>3. ASSUME NEW p \in Proc, Crash(p) PROVE TypeOK' /\ ThreadsOK'
  BY <1>3, CrashType
<1>4. ASSUME NEW t \in Thread, Pushes(t) PROVE TypeOK' /\ ThreadsOK'
  BY <1>4, PushType, PushFailsType, GiveUpType DEF Pushes
<1>5. CASE UNCHANGED vars
  BY <1>5 DEF vars, cli, server, fates, TypeOK, ThreadsOK
<1>. QED  BY <1>1, <1>2, <1>3, <1>4, <1>5 DEF Next

(* Confirmed and Denied are heartbeats of the request.                       *)
LEMMA ConfirmedFacts ==
  ASSUME NEW hh, NEW r
  PROVE  /\ Confirmed(hh, r) \subseteq At(hh, DOMAIN hh)
         /\ Denied(hh, r) \subseteq At(hh, DOMAIN hh)
BY DEF Confirmed, Denied, At

(* At first the API has stored nothing.                                      *)
LEMMA ServerInit == Init => ServerOK /\ SettledTruly /\ DuplicatesUnsure
BY Threads DEF Init, ServerOK, SettledTruly, DuplicatesUnsure

(* Steps without an exchange with the API: a process may only leave the      *)
(* point where it looks at an answer, and then settles what was confirmed.   *)
LEMMA ServerKept ==
  ASSUME ServerOK, UNCHANGED server, acked \subseteq acked', lost \subseteq lost',
         \A q \in Proc : pc'[Main(q)] = "reply" =>
           /\ pc[Main(q)] = "reply"
           /\ hold'[Main(q)] = hold[Main(q)] /\ reply'[q] = reply[q],
         \A q \in Proc : pc[Main(q)] = "reply" =>
           \/ pc'[Main(q)] = "reply"
           \/ Confirmed(hold[Main(q)], reply[q]) \subseteq acked' \cup lost'
  PROVE  ServerOK'
<1>1. ASSUME NEW q \in Proc, pc'[Main(q)] = "reply"
      PROVE  /\ Confirmed(hold'[Main(q)], reply'[q]) \subseteq accepted'
             /\ Denied(hold'[Main(q)], reply'[q]) \cap accepted' \subseteq unsure'
  BY <1>1 DEF ServerOK, server
<1>2. ASSUME NEW h \in accepted' \ (unsure' \cup acked' \cup lost')
      PROVE  \E q \in Proc : pc'[Main(q)] = "reply" /\ h \in Confirmed(hold'[Main(q)], reply'[q])
  <2>1. PICK q \in Proc : pc[Main(q)] = "reply" /\ h \in Confirmed(hold[Main(q)], reply[q])
    BY <1>2 DEF ServerOK, server
  <2>2. pc'[Main(q)] = "reply"
    BY <1>2, <2>1
  <2>. QED  BY <2>1, <2>2
<1>. QED  BY <1>1, <1>2 DEF ServerOK, server

(* Steps that settle nothing by an answer keep SettledTruly.                 *)
LEMMA TrulyKept ==
  ASSUME SettledTruly, DuplicatesUnsure, UNCHANGED server, UNCHANGED <<acked, rejected>>
  PROVE  SettledTruly' /\ DuplicatesUnsure'
BY DEF SettledTruly, DuplicatesUnsure, server

(* What a process holds while it talks to the API, only it holds.            *)
LEMMA Answerable ==
  ASSUME TypeOK, ThreadsOK, OnePlaceEach, ServerOK,
         NEW p \in Proc, pc[Main(p)] = "send",
         NEW h \in At(hold[Main(p)], DOMAIN hold[Main(p)])
  PROVE  /\ h \in accepted => h \in unsure
         /\ h \notin rejected
         /\ \A q \in Proc : pc[Main(q)] = "reply" => h \notin At(hold[Main(q)], DOMAIN hold[Main(q)])
<1>1. h \in Held(Main(p))
  BY HeldFacts, Threads
<1>2. h \notin Settled
  BY <1>1, Threads DEF OnePlaceEach, NoneTwice
<1>3. ASSUME NEW q \in Proc, pc[Main(q)] = "reply"
      PROVE  h \notin At(hold[Main(q)], DOMAIN hold[Main(q)])
  <2>1. Held(Main(q)) = At(hold[Main(q)], DOMAIN hold[Main(q)])
    BY <1>3, HeldFacts, Threads
  <2>2. Main(p) # Main(q)
    BY <1>3
  <2>. QED  BY <1>1, <2>1, <2>2, Threads DEF OnePlaceEach, NoneTwice
<1>4. h \in accepted => h \in unsure
  BY <1>2, <1>3, ConfirmedFacts DEF ServerOK, Settled
<1>. QED  BY <1>2, <1>3, <1>4 DEF Settled

(* The API stores what it confirms; what else it stores is unsure.           *)
LEMMA SendServer ==
  ASSUME IInv, NEW p \in Proc, Send(p)
  PROVE  ServerOK' /\ SettledTruly' /\ DuplicatesUnsure'
<1>. USE DEF IInv
<1>. DEFINE hh == hold[Main(p)]
            H == At(hh, DOMAIN hh)
<1>1. PICK r \in Answers(hh), acc \in SUBSET Range(hh) :
        /\ Confirmed(hh, r) \subseteq acc /\ acc \cap Denied(hh, r) = {}
        /\ accepted' = accepted \cup acc
        /\ duplicated' = duplicated \cup (acc \cap accepted)
        /\ unsure' = unsure \cup (acc \ Confirmed(hh, r))
        /\ reply' = [reply EXCEPT ![p] = r]
  BY DEF Send
<1>2. /\ pc[Main(p)] = "send" /\ pc' = [pc EXCEPT ![Main(p)] = "reply"]
      /\ UNCHANGED <<hold, fates>>
  BY DEF Send
<1>3. acc \subseteq H
  BY DEF Range, At
<1>4. Confirmed(hh, r) \subseteq H /\ Denied(hh, r) \subseteq H
  BY ConfirmedFacts
<1>5. /\ H \cap accepted \subseteq unsure /\ H \cap rejected = {}
      /\ \A q \in Proc : pc[Main(q)] = "reply" => H \cap At(hold[Main(q)], DOMAIN hold[Main(q)]) = {}
  BY <1>2, Answerable
<1>6. /\ reply'[p] = r /\ hold'[Main(p)] = hh /\ pc'[Main(p)] = "reply"
      /\ \A q \in Proc \ {p} : /\ reply'[q] = reply[q] /\ hold'[Main(q)] = hold[Main(q)]
                               /\ pc'[Main(q)] = pc[Main(q)]
  BY <1>1, <1>2, Threads DEF TypeOK
<1>. HIDE DEF hh, H
<1>7. ServerOK'
  <2>1. unsure' \subseteq accepted'
    BY <1>1 DEF ServerOK
  <2>2. ASSUME NEW h \in accepted' \ (unsure' \cup acked' \cup lost')
        PROVE  \E q \in Proc : pc'[Main(q)] = "reply" /\ h \in Confirmed(hold'[Main(q)], reply'[q])
    <3>1. CASE h \in acc
      BY <1>1, <1>6, <2>2, <3>1
    <3>2. CASE h \notin acc
      <4>1. h \in accepted \ (unsure \cup acked \cup lost)
        BY <1>1, <1>2, <2>2, <3>2 DEF fates
      <4>2. PICK q \in Proc : pc[Main(q)] = "reply" /\ h \in Confirmed(hold[Main(q)], reply[q])
        BY <4>1 DEF ServerOK
      <4>3. q # p
        BY <1>2, <4>2
      <4>. QED  BY <1>6, <4>2, <4>3
    <3>. QED  BY <3>1, <3>2
  <2>3. ASSUME NEW q \in Proc, pc'[Main(q)] = "reply"
        PROVE  /\ Confirmed(hold'[Main(q)], reply'[q]) \subseteq accepted'
               /\ Denied(hold'[Main(q)], reply'[q]) \cap accepted' \subseteq unsure'
    <3>1. CASE q = p
      BY <1>1, <1>4, <1>5, <1>6, <3>1
    <3>2. CASE q # p
      <4>1. /\ pc[Main(q)] = "reply" /\ hold'[Main(q)] = hold[Main(q)] /\ reply'[q] = reply[q]
        BY <1>6, <2>3, <3>2
      <4>2. /\ Confirmed(hold[Main(q)], reply[q]) \subseteq accepted
            /\ Denied(hold[Main(q)], reply[q]) \cap accepted \subseteq unsure
        BY <4>1 DEF ServerOK
      <4>3. Denied(hold[Main(q)], reply[q]) \cap acc = {}
        BY <1>3, <1>5, <4>1, ConfirmedFacts
      <4>. QED  BY <1>1, <4>1, <4>2, <4>3
    <3>. QED  BY <3>1, <3>2
  <2>. QED  BY <2>1, <2>2, <2>3 DEF ServerOK
<1>8. SettledTruly'
  BY <1>1, <1>2, <1>3, <1>5 DEF SettledTruly, fates
<1>9. DuplicatesUnsure'
  BY <1>1, <1>3, <1>5 DEF DuplicatesUnsure
<1>. QED  BY <1>7, <1>8, <1>9

(* An error confirms nothing.                                                *)
LEMMA AnswerErrorServer ==
  ASSUME IInv, NEW p \in Proc, AnswerError(p)
  PROVE  ServerOK' /\ SettledTruly' /\ DuplicatesUnsure'
<1>. USE DEF IInv
<1>1. Confirmed(hold[Main(p)], reply[p]) = {}
  <2>1. reply[p].statuses = <<>>
    BY DEF AnswerError, TypeOK, Reply
  <2>. QED  BY <2>1 DEF Confirmed, WithStatus, At
<1>2. /\ pc' = [pc EXCEPT ![Main(p)] = "push"] /\ reply' = [reply EXCEPT ![p] = NoReply]
      /\ UNCHANGED <<hold, server, fates>>
  BY DEF AnswerError
<1>3. /\ pc'[Main(p)] = "push"
      /\ \A q \in Proc \ {p} : reply'[q] = reply[q] /\ pc'[Main(q)] = pc[Main(q)]
  BY <1>2, Threads DEF TypeOK
<1>4. ServerOK'
  BY <1>1, <1>2, <1>3, ServerKept DEF fates
<1>. QED  BY <1>2, <1>4, TrulyKept DEF fates

(* An answer settles exactly what was confirmed and denied.                  *)
LEMMA AnswerServer ==
  ASSUME IInv, NEW p \in Proc, AnswerResults(p) \/ AnswerUnqueued(p)
  PROVE  ServerOK' /\ SettledTruly' /\ DuplicatesUnsure'
<1>. USE DEF IInv
<1>. DEFINE ok == At(hold[Main(p)], WithStatus(hold[Main(p)], reply[p].statuses, "ok"))
            bad == At(hold[Main(p)], WithStatus(hold[Main(p)], reply[p].statuses, "bad"))
<1>1. /\ pc[Main(p)] = "reply" /\ UNCHANGED <<hold, server>>
      /\ acked' = acked \cup ok /\ rejected' = rejected \cup bad /\ lost \subseteq lost'
      /\ reply' = [reply EXCEPT ![p] = NoReply]
  BY DEF AnswerResults, AnswerUnqueued
<1>2. /\ pc'[Main(p)] # "reply"
      /\ \A q \in Proc \ {p} : reply'[q] = reply[q] /\ pc'[Main(q)] = pc[Main(q)]
  BY Threads DEF AnswerResults, AnswerUnqueued, TypeOK
<1>3. /\ ok = Confirmed(hold[Main(p)], reply[p])
      /\ bad \subseteq Denied(hold[Main(p)], reply[p])
  BY DEF Confirmed, Denied, WithStatus, At
<1>. HIDE DEF ok, bad
<1>4. ServerOK'
  BY <1>1, <1>2, <1>3, ServerKept
<1>5. SettledTruly' /\ DuplicatesUnsure'
  BY <1>1, <1>3 DEF SettledTruly, DuplicatesUnsure, ServerOK, server
<1>. QED  BY <1>4, <1>5
(* Steps without the API keep what is known of it.                           *)
LEMMA QuietServer ==
  ASSUME IInv, NEW p \in Proc,
         \/ Begins(p) \/ ClientFails(p) \/ SkipSync(p) \/ BeginSync(p) \/ PopBatch(p) \/ EndSync(p)
  PROVE  ServerOK' /\ SettledTruly' /\ DuplicatesUnsure'
<1>. USE DEF IInv
<1>1. /\ UNCHANGED <<server, reply, acked, rejected>> /\ lost \subseteq lost'
      /\ pc[Main(p)] # "reply"
  BY DEF Begins, StartSend, ConfigBroken, DropReport, StartSync, ClientFails, SkipSync, BeginSync,
         PopBatch, EndSync, cli, fates
<1>2. /\ pc'[Main(p)] # "reply"
      /\ \A q \in Proc \ {p} : pc'[Main(q)] = pc[Main(q)] /\ hold'[Main(q)] = hold[Main(q)]
  <2>1. CASE StartSend(p)
    BY <2>1, Threads DEF StartSend, TypeOK
  <2>2. CASE ConfigBroken(p) \/ DropReport(p) \/ StartSync(p)
    BY <2>2, Threads DEF ConfigBroken, DropReport, StartSync, cli, TypeOK
  <2>3. CASE ClientFails(p) \/ SkipSync(p) \/ BeginSync(p) \/ EndSync(p)
    BY <2>3, Threads DEF ClientFails, SkipSync, BeginSync, EndSync, TypeOK
  <2>4. CASE PopBatch(p)
    BY <2>4, Threads DEF PopBatch, TypeOK
  <2>. QED  BY <2>1, <2>2, <2>3, <2>4 DEF Begins
<1>3. ServerOK'
  BY <1>1, <1>2, ServerKept
<1>. QED  BY <1>1, <1>3, TrulyKept

(* So do pushes.                                                             *)
LEMMA PushesServer ==
  ASSUME IInv, NEW t \in Thread, Pushes(t)
  PROVE  ServerOK' /\ SettledTruly' /\ DuplicatesUnsure'
<1>. USE DEF IInv
<1>1. /\ UNCHANGED <<server, hold, reply, acked, rejected>> /\ lost \subseteq lost'
      /\ pc[t] = "push"
  BY DEF Pushes, Push, PushFails, GiveUp, NextPush, fates
<1>2. pc'[t] # "reply" /\ \A u \in Thread \ {t} : pc'[u] = pc[u]
  BY DEF Pushes, Push, PushFails, GiveUp, NextPush, TypeOK
<1>3. ServerOK'
  BY <1>1, <1>2, Threads, ServerKept
<1>. QED  BY <1>1, <1>3, TrulyKept

(* So does the end of a process: what was confirmed becomes lost.            *)
LEMMA VanishServer ==
  ASSUME IInv, NEW p \in Proc, Vanish(p)
  PROVE  ServerOK' /\ SettledTruly' /\ DuplicatesUnsure'
<1>. USE DEF IInv
<1>1. /\ UNCHANGED <<server, acked, rejected>> /\ lost \subseteq lost'
      /\ Held(Main(p)) \subseteq lost'
  BY DEF Vanish
<1>2. /\ pc'[Main(p)] # "reply"
      /\ \A q \in Proc \ {p} : /\ pc'[Main(q)] = pc[Main(q)] /\ hold'[Main(q)] = hold[Main(q)]
                               /\ reply'[q] = reply[q]
  BY Threads DEF Vanish, TypeOK
<1>3. pc[Main(p)] = "reply" => Confirmed(hold[Main(p)], reply[p]) \subseteq Held(Main(p))
  BY HeldFacts, ConfirmedFacts, Threads
<1>4. ServerOK'
  BY <1>1, <1>2, <1>3, ServerKept
<1>. QED  BY <1>1, <1>4, TrulyKept

(* Every step keeps what is known of the API.                                *)
LEMMA ServerNext == IInv /\ [Next]_vars => ServerOK' /\ SettledTruly' /\ DuplicatesUnsure'
<1>. SUFFICES ASSUME IInv, [Next]_vars PROVE ServerOK' /\ SettledTruly' /\ DuplicatesUnsure'
  OBVIOUS
<1>1. ASSUME NEW p \in Proc, Begins(p) \/ Runs(p) \/ Crash(p)
      PROVE  ServerOK' /\ SettledTruly' /\ DuplicatesUnsure'
  BY <1>1, QuietServer, SendServer, AnswerErrorServer, AnswerServer, VanishServer
     DEF Runs, Exit, Crash
<1>2. ASSUME NEW t \in Thread, Pushes(t)
      PROVE  ServerOK' /\ SettledTruly' /\ DuplicatesUnsure'
  BY <1>2, PushesServer
<1>3. CASE UNCHANGED vars
  BY <1>3 DEF vars, cli, server, fates, IInv, ServerOK, SettledTruly, DuplicatesUnsure
<1>. QED  BY <1>1, <1>2, <1>3 DEF Next

-----------------------------------------------------------------------------
(* The initial states satisfy the inductive invariant.                       *)
LEMMA InvInit == Init => IInv
BY TypeInit, PlacesInit, ServerInit DEF IInv

(* Every step keeps it.                                                      *)
LEMMA InvNext == IInv /\ [Next]_vars => IInv'
BY TypeNext, PlacesNext, ServerNext DEF IInv

(* The inductive invariant.                                                  *)
THEOREM Invariance == Spec => []IInv
BY InvInit, InvNext, PTL DEF Spec

(* A heartbeat an editor reported is always in exactly one place, whatever   *)
(* the processes, the API and the faults do (offline.go, cmd/heartbeat).     *)
THEOREM EveryHeartbeatInOnePlace == Spec => []OnePlaceEach
<1>1. IInv => OnePlaceEach
  BY DEF IInv
<1>. QED  BY <1>1, Invariance, PTL

(* handleResults takes nothing for delivered that the API did not store, and *)
(* gives up nothing that it stored for all the CLI could know.               *)
THEOREM AnswersBelieved == Spec => []SettledTruly
<1>1. IInv => SettledTruly
  BY DEF IInv
<1>. QED  BY <1>1, Invariance, PTL

(* Requeueing after an error or a short answer is the only source of         *)
(* duplicates: two processes never send the same heartbeat at once.          *)
THEOREM DuplicatesOnlyUnsure == Spec => []DuplicatesUnsure
<1>1. IInv => DuplicatesUnsure
  BY DEF IInv
<1>. QED  BY <1>1, Invariance, PTL
-----------------------------------------------------------------------------
(* Without faults.                                                           *)

(* The offline queue is enabled and stores everything, and no step fails.    *)
Faultless ==
  /\ Disabled = {} /\ Unstorable = {}
  /\ Faults \cap {"params", "push", "crash"} = {}

(* Then no push fails, not even once.                                        *)
Calm == \A t \in Thread : tries[t] = 0

(* A report is sent or left to the goroutine.                                *)
LEMMA WholeReport ==
  ASSUME Faultless, NEW p \in Proc, NEW hh \in Reports
  PROVE  First(hh) \cup Saved(p, hh) = DOMAIN hh
BY DEF Faultless, First, Saved

(* No push fails or is given up.                                             *)
LEMMA CalmPushes ==
  ASSUME Faultless, Calm, NEW t \in Thread
  PROVE  ~PushFails(t) /\ ~GiveUp(t)
BY SizeAssumption DEF Faultless, PushFails, GiveUp, Calm

(* So it stays.                                                              *)
LEMMA CalmNext ==
  ASSUME Faultless, IInv, Calm, [Next]_vars
  PROVE  Calm'
<1>. USE DEF IInv
<1>1. ASSUME NEW p \in Proc, Begins(p) \/ Runs(p)
      PROVE  Calm'
  <2>1. CASE StartSend(p) \/ ConfigBroken(p) \/ DropReport(p) \/ StartSync(p)
    BY <2>1 DEF StartSend, ConfigBroken, DropReport, StartSync, cli, Calm
  <2>2. CASE ClientFails(p) \/ Send(p) \/ AnswerError(p) \/ AnswerResults(p) \/ AnswerUnqueued(p)
    BY <2>2 DEF ClientFails, Send, AnswerError, AnswerResults, AnswerUnqueued, Calm
  <2>3. CASE SkipSync(p) \/ BeginSync(p) \/ EndSync(p) \/ PopBatch(p)
    BY <2>3 DEF SkipSync, BeginSync, EndSync, PopBatch, Calm
  <2>4. CASE Exit(p)
    BY <2>4, Threads DEF Exit, Vanish, Calm, TypeOK
  <2>. QED  BY <1>1, <2>1, <2>2, <2>3, <2>4 DEF Begins, Runs
<1>2. ASSUME NEW t \in Thread, Pushes(t)
      PROVE  Calm'
  <2>1. Push(t)
    BY <1>2, CalmPushes DEF Pushes
  <2>. QED  BY <2>1 DEF Push, NextPush, Calm, TypeOK
<1>3. \A p \in Proc : ~Crash(p)
  BY DEF Faultless, Crash
<1>4. CASE UNCHANGED vars
  BY <1>4 DEF vars, cli, Calm
<1>. QED  BY <1>1, <1>2, <1>3, <1>4 DEF Next

(* The main goroutine of a process that ends holds nothing.                  *)
LEMMA ExitLoses ==
  ASSUME IInv, NEW p \in Proc, Exit(p)
  PROVE  lost' = lost \cup Held(Extra(p)) /\ pc[Main(p)] = "exit"
<1>1. pc[Main(p)] = "exit" /\ lost' = lost \cup Held(Main(p)) \cup Held(Extra(p))
  BY DEF Exit, Vanish
<1>2. Held(Main(p)) = {}
  BY <1>1, Threads DEF IInv, ThreadsOK, Held, At
<1>. QED  BY <1>1, <1>2

(* Without a fault, a report that holds more than SendLimit heartbeats may   *)
(* lose those that its process leaves to a goroutine (cmd/heartbeat), and    *)
(* nothing else is lost: what the API does not settle, it may do so again    *)
(* and again, is in the queue, in some process, or replaced by its equal.    *)
THEOREM NothingElseIsLost ==
  ASSUME Faultless
  PROVE  Spec => OnlyUnsavedLost
<1>. DEFINE unsaved == UNION {Held(Extra(p)) : p \in {q \in Proc : pc[Main(q)] = "exit"}}
<1>1. Init => Calm
  BY DEF Init, Calm
<1>2. IInv /\ Calm /\ [Next]_vars => Calm'
  BY CalmNext
<1>3. IInv /\ Calm /\ [Next]_vars => [lost' \ lost \subseteq unsaved]_vars
  <2>. SUFFICES ASSUME IInv, Calm, Next PROVE lost' \ lost \subseteq unsaved
    OBVIOUS
  <2>1. ASSUME NEW p \in Proc, Begins(p) \/ Runs(p)
        PROVE  lost' \ lost \subseteq unsaved
    <3>1. CASE StartSend(p)
      <4>1. PICK hh \in Reports : lost' = lost \cup At(hh, DOMAIN hh \ (First(hh) \cup Saved(p, hh)))
        BY <3>1 DEF StartSend
      <4>. QED  BY <4>1, WholeReport DEF At
    <3>2. CASE Exit(p)
      BY <3>2, ExitLoses
    <3>3. ~DropReport(p) /\ ~AnswerUnqueued(p)
      BY DEF Faultless, DropReport, AnswerUnqueued, Queued
    <3>4. ClientFails(p) => UNCHANGED lost
      BY DEF Faultless, ClientFails
    <3>5. ConfigBroken(p) \/ StartSync(p) \/ Send(p) \/ AnswerError(p) \/ AnswerResults(p)
            => UNCHANGED lost
      BY DEF ConfigBroken, StartSync, Send, AnswerError, AnswerResults, fates
    <3>6. SkipSync(p) \/ BeginSync(p) \/ EndSync(p) \/ PopBatch(p) => UNCHANGED lost
      BY DEF SkipSync, BeginSync, EndSync, PopBatch, fates
    <3>. QED  BY <2>1, <3>1, <3>2, <3>3, <3>4, <3>5, <3>6 DEF Begins, Runs
  <2>2. ASSUME NEW t \in Thread, Pushes(t)
        PROVE  UNCHANGED lost
    BY <2>2, CalmPushes DEF Pushes, Push
  <2>3. \A p \in Proc : ~Crash(p)
    BY DEF Faultless, Crash
  <2>. QED  BY <2>1, <2>2, <2>3 DEF Next
<1>. QED  BY <1>1, <1>2, <1>3, Invariance, PTL DEF Spec, OnlyUnsavedLost
=============================================================================
