------------------------- MODULE OfflineQueue_proofs -------------------------
(* For any number of clients, any heartbeats and any batches: the invariants *)
(* of OfflineQueue, and that its sessions implement AbstractQueue.           *)
EXTENDS OfflineQueue, TLAPS

-----------------------------------------------------------------------------
(* The operations on the bucket.                                             *)

(* A push keeps the bucket well-formed and brings in nothing but its batch.  *)
LEMMA PushFacts ==
  ASSUME NEW q \in Stored, NEW hh, DOMAIN hh \subseteq Nat,
         Range(hh) \subseteq Heartbeat, CanPush(hh)
  PROVE  PushMany(q, hh) \in Stored /\ PushMany(q, hh) \subseteq q \cup Range(hh)
<1>1. LastWriters(hh) \subseteq Range(hh)
  BY DEF LastWriters, Range
<1>2. PushMany(q, hh) \subseteq q \cup Range(hh)
  BY <1>1 DEF PushMany
<1>3. PushMany(q, hh) \subseteq Heartbeat \ Unstorable
  BY <1>2 DEF Stored, CanPush
<1>4. ASSUME NEW g \in PushMany(q, hh), NEW h \in PushMany(q, hh), KeyOf[g] = KeyOf[h]
      PROVE  g = h
  <2>1. CASE g \in LastWriters(hh) /\ h \in LastWriters(hh)
    <3>1. PICK m \in DOMAIN hh :
            g = hh[m] /\ \A k \in DOMAIN hh : k > m => KeyOf[hh[k]] # KeyOf[hh[m]]
      BY <2>1 DEF LastWriters
    <3>2. PICK n \in DOMAIN hh :
            h = hh[n] /\ \A k \in DOMAIN hh : k > n => KeyOf[hh[k]] # KeyOf[hh[n]]
      BY <2>1 DEF LastWriters
    <3>3. ~(m > n) /\ ~(n > m)
      BY <1>4, <3>1, <3>2
    <3>. QED  BY <3>1, <3>2, <3>3
  <2>2. CASE g \in LastWriters(hh) /\ h \notin LastWriters(hh)
    BY <1>4, <2>2 DEF LastWriters, PushMany
  <2>3. CASE g \notin LastWriters(hh) /\ h \in LastWriters(hh)
    BY <1>4, <2>3 DEF LastWriters, PushMany
  <2>4. CASE g \notin LastWriters(hh) /\ h \notin LastWriters(hh)
    BY <1>4, <2>4 DEF PushMany, Stored, UniqueKeys
  <2>. QED  BY <2>1, <2>2, <2>3, <2>4
<1>. QED  BY <1>2, <1>3, <1>4 DEF Stored, UniqueKeys

(* Removals keep it well-formed.                                            *)
LEMMA SubsetStored ==
  ASSUME NEW q \in Stored, NEW r \in SUBSET q
  PROVE  r \in Stored
BY DEF Stored, UniqueKeys

-----------------------------------------------------------------------------
(* The outcomes of calls are told apart by their kind.                       *)
LEMMA Results ==
  /\ Failed # Pending /\ Pushed # Pending
  /\ \A hh : Popped(hh) # Pending
  /\ \A n : Counted(n) # Pending
BY DEF Failed, Pending, Pushed, Popped, Counted

(* The fields of calls are of the declared types.                            *)
LEMMA CallTypes ==
  ASSUME NEW op \in Call
  PROVE  /\ op.op \in {"pop", "push", "count"} => op # NoCall
         /\ op.op = "push" => op.hh \in Batch /\ op.hh \in Seq(Heartbeat)
BY BatchAssumption DEF Call, NoCall

(* The initial states satisfy the invariant.                                 *)
LEMMA InitInv == Init => Inv
<1>. SUFFICES ASSUME Init PROVE Inv
  OBVIOUS
<1>1. {} \in Stored
  BY DEF Stored, UniqueKeys
<1>2. TypeOK
  BY <1>1 DEF Init, TypeOK, Stage, Call
<1>3. SessionDiscipline /\ CommitsFresh
  BY ClientAssumption DEF Init, SessionDiscipline, CommitsFresh
<1>. QED  BY <1>2, <1>3 DEF Inv

(* Every step of a session keeps it.                                         *)
LEMMA NextInv == Inv /\ [Next]_vars => Inv'
<1>. SUFFICES ASSUME Inv, [Next]_vars PROVE Inv'
  OBVIOUS
<1>. USE ClientAssumption DEF Inv
<1>0. CASE UNCHANGED vars
  BY <1>0 DEF vars, TypeOK, SessionDiscipline, CommitsFresh
<1>. SUFFICES ASSUME NEW c \in Client, Invoke(c) \/ Session(c) \/ Kill(c) PROVE Inv'
  BY <1>0 DEF Next
<1>e. {} \in Stored
  BY DEF Stored, UniqueKeys
<1>1. CASE Invoke(c)
  BY <1>1 DEF Invoke, TypeOK, SessionDiscipline, CommitsFresh, Stage
<1>2. CASE Open(c)
  BY <1>2 DEF Open, TypeOK, SessionDiscipline, CommitsFresh, Stage
<1>3. CASE OpenFails(c)
  BY <1>3, Results DEF OpenFails, TypeOK, SessionDiscipline, CommitsFresh, Stage
<1>4. CASE Begin(c)
  BY <1>4 DEF Begin, TypeOK, SessionDiscipline, CommitsFresh, Stage
<1>5. CASE BeginFails(c)
  BY <1>5, Results DEF BeginFails, TypeOK, SessionDiscipline, CommitsFresh, Stage
<1>6. CASE Pop(c)
  <2>1. PICK hh \in PopMany(work, call[c].limit) : work' = Without(work, hh) /\ out' = Popped(hh)
    BY <1>6 DEF Pop
  <2>2. work' \in Stored
    BY <2>1, SubsetStored DEF TypeOK, Without
  <2>3. TypeOK' /\ SessionDiscipline'
    BY <1>6, <2>2 DEF Pop, TypeOK, SessionDiscipline, Stage
  <2>4. work = disk
    BY <1>6 DEF Pop, CommitsFresh
  <2>5. Effect(disk, call[c], work', out')
    BY <1>6, <2>1, <2>4 DEF Pop, Effect
  <2>6. CommitsFresh'
    BY <1>6, <2>5 DEF Pop, TypeOK, SessionDiscipline, CommitsFresh
  <2>. QED  BY <2>3, <2>6
<1>7. CASE PopFails(c)
  BY <1>7, <1>e, Results
     DEF PopFails, EndTransaction, TypeOK, SessionDiscipline, CommitsFresh, Stage
<1>8. CASE Push(c)
  <2>1. call[c].hh \in Seq(Heartbeat)
    BY <1>8, CallTypes DEF Push, TypeOK
  <2>2. work' \in Stored
    BY <1>8, <2>1, PushFacts DEF Push, TypeOK, Range
  <2>3. TypeOK' /\ SessionDiscipline'
    BY <1>8, <2>2 DEF Push, TypeOK, SessionDiscipline, Stage
  <2>4. Effect(disk, call[c], work', out')
    BY <1>8 DEF Push, Effect, CommitsFresh
  <2>5. CommitsFresh'
    BY <1>8, <2>4 DEF Push, TypeOK, SessionDiscipline, CommitsFresh
  <2>. QED  BY <2>3, <2>5
<1>9. CASE PushFails(c)
  BY <1>9, Results DEF PushFails, TypeOK, SessionDiscipline, CommitsFresh, Stage
<1>10. CASE Count(c) \/ CountFails(c)
  BY <1>10, <1>e, Results
     DEF Count, CountFails, EndTransaction, TypeOK, SessionDiscipline, CommitsFresh, Stage
<1>11. CASE Commit(c)
  <2>1. Effect(disk, call[c], work, out)
    BY <1>11 DEF Commit, CommitsFresh
  <2>2. out # Pending
    BY <1>11, <2>1, Results DEF Effect, SessionDiscipline
  <2>. QED
    BY <1>11, <1>e, <2>2
       DEF Commit, EndTransaction, TypeOK, SessionDiscipline, CommitsFresh, Stage
<1>12. CASE CommitFails(c)
  BY <1>12, <1>e, Results
     DEF CommitFails, EndTransaction, TypeOK, SessionDiscipline, CommitsFresh, Stage
<1>13. CASE Close(c)
  BY <1>13 DEF Close, TypeOK, SessionDiscipline, CommitsFresh, Stage
<1>14. CASE Return(c)
  BY <1>14 DEF Return, TypeOK, SessionDiscipline, CommitsFresh, Stage, Call
<1>15. CASE Kill(c)
  BY <1>15, <1>e DEF Kill, TypeOK, SessionDiscipline, CommitsFresh, Stage, Call
<1>. QED
  BY <1>1, <1>2, <1>3, <1>4, <1>5, <1>6, <1>7, <1>8, <1>9, <1>10, <1>11, <1>12, <1>13,
     <1>14, <1>15 DEF Session

(* The invariants of the sessions, for every instance.                       *)
THEOREM InvHolds == Spec => []Inv
<1>. QED  BY InitInv, NextInv, PTL DEF Spec

(* The file lock covers a session from Open to Close, its transaction is the *)
(* only one, and it has its answer exactly when it is past the commit.       *)
THEOREM SessionsDisciplined == Spec => []SessionDiscipline
<1>1. Inv => SessionDiscipline
  BY DEF Inv
<1>. QED  BY <1>1, InvHolds, PTL

(* No process overwrites the update of another: what popHeartbeats and       *)
(* pushHeartbeats commit follows from what is on disk at that moment.        *)
THEOREM NoLostUpdate == Spec => []CommitsFresh
<1>1. Inv => CommitsFresh
  BY DEF Inv
<1>. QED  BY <1>1, InvHolds, PTL

-----------------------------------------------------------------------------
(* The refinement.  A session's commit, or the failure it ends in, is the    *)
(* instant its call takes effect; every other step of a session stutters.    *)
LEMMA SameVocabulary ==
  /\ Abstract!NoCall = NoCall /\ Abstract!Call = Call
  /\ Abstract!Pending = Pending /\ Abstract!Failed = Failed
  /\ Abstract!Stored = Stored
BY DEF Abstract!NoCall, NoCall, Abstract!Call, Call, Abstract!Pending, Pending,
       Abstract!Failed, Failed, Abstract!Stored, Stored, Abstract!UniqueKeys, UniqueKeys

(* It has the same operators on the bucket.                                  *)
LEMMA SameLibrary ==
  /\ \A S : Abstract!Cardinality(S) = Cardinality(S)
  /\ \A f : Abstract!Range(f) = Range(f)
BY DEF Abstract!Cardinality, Cardinality, Abstract!Range, Range

(* A call has the same effect on both.                                       *)
LEMMA SameEffect ==
  ASSUME NEW q, NEW op, NEW r, NEW res, Effect(q, op, r, res)
  PROVE  Abstract!Effect(q, op, r, res)
<1>1. Abstract!FirstKeys(q, op.limit) = FirstKeys(q, op.limit)
  BY SameLibrary DEF Abstract!FirstKeys, FirstKeys
<1>2. Abstract!CanPop(q, op.limit) <=> CanPop(q, op.limit)
  BY <1>1 DEF Abstract!CanPop, CanPop
<1>3. Abstract!PopMany(q, op.limit) = PopMany(q, op.limit)
  BY <1>1, SameLibrary DEF Abstract!PopMany, PopMany, Abstract!InKeyOrder, InKeyOrder
<1>4. Abstract!PushMany(q, op.hh) = PushMany(q, op.hh)
  BY DEF Abstract!PushMany, PushMany, Abstract!LastWriters, LastWriters
<1>5. /\ \A hh : Abstract!Popped(hh) = Popped(hh)
      /\ \A hh : Abstract!Without(q, hh) = Without(q, hh)
      /\ Abstract!Pushed = Pushed
      /\ \A n : Abstract!Counted(n) = Counted(n)
  BY SameLibrary DEF Abstract!Popped, Popped, Abstract!Pushed, Pushed, Abstract!Counted, Counted,
                     Abstract!Without, Without
<1>. QED  BY <1>2, <1>3, <1>4, <1>5, SameLibrary DEF Effect, Abstract!Effect

(* Every step is one of the abstract queue or a stutter.                     *)
LEMMA StepRefines == Inv /\ Inv' /\ [Next]_vars => [Abstract!AbsNext]_(Abstract!absVars)
<1>. SUFFICES ASSUME Inv, Inv', [Next]_vars
              PROVE  Abstract!AbsNext \/ UNCHANGED Abstract!absVars
  OBVIOUS
<1>. USE SameVocabulary DEF Inv, Abstract!absVars
<1>0. CASE UNCHANGED vars
  BY <1>0 DEF vars
<1>. SUFFICES ASSUME NEW c \in Client, Invoke(c) \/ Session(c) \/ Kill(c)
              PROVE  Abstract!AbsNext \/ UNCHANGED Abstract!absVars
  BY <1>0 DEF Next
<1>1. CASE Invoke(c)
  BY <1>1 DEF Invoke, SessionDiscipline, Abstract!AbsNext, Abstract!Invoke
<1>2. CASE Open(c) \/ Begin(c) \/ Pop(c) \/ Push(c) \/ Close(c)
  BY <1>2 DEF Open, Begin, Pop, Push, Close
<1>3. CASE OpenFails(c) \/ BeginFails(c) \/ PushFails(c)
  <2>1. Abstract!Refuse(c)
    BY <1>3, Results
       DEF OpenFails, BeginFails, PushFails, TypeOK, SessionDiscipline, Abstract!Refuse
  <2>. QED  BY <2>1 DEF Abstract!AbsNext
<1>4. CASE PopFails(c) \/ CountFails(c) \/ CommitFails(c)
  <2>1. Abstract!Refuse(c)
    BY <1>4, Results
       DEF PopFails, CountFails, CommitFails, EndTransaction, TypeOK, SessionDiscipline, Abstract!Refuse
  <2>. QED  BY <2>1 DEF Abstract!AbsNext
<1>5. CASE Count(c)
  <2>1. work = disk
    BY <1>5 DEF Count, CommitsFresh
  <2>2. Effect(disk, call[c], disk', result'[c])
    BY <1>5, <2>1 DEF Count, EndTransaction, TypeOK, Effect
  <2>3. Abstract!Perform(c)
    BY <1>5, <2>2, SameEffect
       DEF Count, EndTransaction, TypeOK, SessionDiscipline, Abstract!Perform
  <2>. QED  BY <2>3 DEF Abstract!AbsNext
<1>6. CASE Commit(c)
  <2>1. Effect(disk, call[c], work, out)
    BY <1>6 DEF Commit, CommitsFresh
  <2>2. Abstract!Perform(c)
    BY <1>6, <2>1, SameEffect
       DEF Commit, EndTransaction, TypeOK, SessionDiscipline, Abstract!Perform
  <2>. QED  BY <2>2 DEF Abstract!AbsNext
<1>7. CASE Return(c)
  <2>1. Abstract!Return(c)
    BY <1>7 DEF Return, SessionDiscipline, Abstract!Return
  <2>. QED  BY <2>1 DEF Abstract!AbsNext
<1>8. CASE Kill(c)
  <2>1. Abstract!Abandon(c)
    BY <1>8 DEF Kill, SessionDiscipline, Abstract!Abandon
  <2>. QED  BY <2>1 DEF Abstract!AbsNext
<1>. QED
  BY <1>1, <1>2, <1>3, <1>4, <1>5, <1>6, <1>7, <1>8 DEF Session

(* Concurrent sessions of any number of processes behave as atomic calls.    *)
THEOREM QueueRefinement == Spec => ImplementsAbstractQueue
<1>1. Init => Abstract!AbsInit
  BY SameVocabulary DEF Init, Abstract!AbsInit
<1>. QED
  BY <1>1, InvHolds, StepRefines, PTL DEF Spec, ImplementsAbstractQueue, Abstract!AbsSpec
=============================================================================
