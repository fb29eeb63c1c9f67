---------------------------- MODULE OfflineQueue ----------------------------
(* The sessions that popHeartbeats, pushHeartbeats and CountHeartbeats of    *)
(* pkg/offline/offline.go hold on the bolt database: open it (an exclusive   *)
(* file lock, with a timeout), begin a write transaction, work on a copy of  *)
(* the bucket, commit or roll back, close.  Clients are goroutines of any    *)
(* number of processes; a process may be killed at any point, in which case  *)
(* the system drops its file lock and bolt ignores what it did not commit.   *)
EXTENDS QueueCalls

CONSTANTS
  Client,      \* the goroutines, of all processes, that use the database
  NoClient     \* the value of holder and tx when there is none

ASSUME ClientAssumption == NoClient \notin Client

VARIABLES
  disk,        \* the committed contents of the bucket
  holder,      \* who has the database file open (and locked)
  tx,          \* whose write transaction is open
  work,        \* the bucket as the open transaction sees it
  out,         \* what the open transaction will answer once committed
  stage,       \* how far each client's session is
  call,        \* what each client asks for
  result       \* the outcome of its call

vars == <<disk, holder, tx, work, out, stage, call, result>>

Stage == {"idle", "opening", "opened", "begun", "worked", "closing", "returning"}

TypeOK ==
  /\ disk \in Stored
  /\ holder \in Client \cup {NoClient}
  /\ tx \in Client \cup {NoClient}
  /\ work \in Stored
  /\ stage \in [Client -> Stage]
  /\ call \in [Client -> Call]
  /\ DOMAIN result = Client

-----------------------------------------------------------------------------
Init ==
  /\ disk \in Stored
  /\ holder = NoClient
  /\ tx = NoClient
  /\ work = {}
  /\ out = Pending
  /\ stage = [c \in Client |-> "idle"]
  /\ call = [c \in Client |-> NoCall]
  /\ result = [c \in Client |-> Pending]

Invoke(c) ==
  /\ stage[c] = "idle"
  /\ \E op \in Call \ {NoCall} : call' = [call EXCEPT ![c] = op]
  /\ result' = [result EXCEPT ![c] = Pending]
  /\ stage' = [stage EXCEPT ![c] = "opening"]
  /\ UNCHANGED <<disk, holder, tx, work, out>>

OpenUnlocked(c) ==    \* a mutant: no lock
  /\ stage[c] = "opening"
  /\ holder' = c
  /\ stage' = [stage EXCEPT ![c] = "opened"]
  /\ UNCHANGED <<disk, tx, work, out, call, result>>

(* bolt.Open: the file lock is taken, or awaited.                            *)
Open(c) ==
  /\ stage[c] = "opening"
  /\ holder = NoClient
  /\ holder' = c
  /\ stage' = [stage EXCEPT ![c] = "opened"]
  /\ UNCHANGED <<disk, tx, work, out, call, result>>

(* bolt.Open gives up: its timeout has expired, or the file is inaccessible. *)
OpenFails(c) ==
  /\ stage[c] = "opening"
  /\ result' = [result EXCEPT ![c] = Failed]
  /\ stage' = [stage EXCEPT ![c] = "returning"]
  /\ UNCHANGED <<disk, holder, tx, work, out, call>>

Begin(c) ==
  /\ stage[c] = "opened"
  /\ tx' = c
  /\ work' = disk
  /\ stage' = [stage EXCEPT ![c] = "begun"]
  /\ UNCHANGED <<disk, holder, out, call, result>>

BeginFails(c) ==
  /\ stage[c] = "opened"
  /\ result' = [result EXCEPT ![c] = Failed]
  /\ stage' = [stage EXCEPT ![c] = "closing"]
  /\ UNCHANGED <<disk, holder, tx, work, out, call>>

(* The end of c's transaction: nothing of it remains but what it committed.  *)
EndTransaction(c, res) ==
  /\ tx' = NoClient
  /\ work' = {}
  /\ out' = Pending
  /\ result' = [result EXCEPT ![c] = res]
  /\ stage' = [stage EXCEPT ![c] = "closing"]
  /\ UNCHANGED <<holder, call>>

PopKeeping(c) ==    \* a mutant: it answers the heartbeats and deletes none
  /\ stage[c] = "begun" /\ call[c].op = "pop"
  /\ CanPop(work, call[c].limit)
  /\ \E hh \in PopMany(work, call[c].limit) : out' = Popped(hh)
  /\ stage' = [stage EXCEPT ![c] = "worked"]
  /\ UNCHANGED <<disk, holder, tx, work, call, result>>

Pop(c) ==
  /\ stage[c] = "begun" /\ call[c].op = "pop"
  /\ CanPop(work, call[c].limit)
  /\ \E hh \in PopMany(work, call[c].limit) :
       work' = Without(work, hh) /\ out' = Popped(hh)
  /\ stage' = [stage EXCEPT ![c] = "worked"]
  /\ UNCHANGED <<disk, holder, tx, call, result>>

PopFailsOpen(c) ==    \* a mutant: no Rollback
  /\ stage[c] = "begun" /\ call[c].op = "pop"
  /\ result' = [result EXCEPT ![c] = Failed]
  /\ stage' = [stage EXCEPT ![c] = "closing"]
  /\ UNCHANGED <<disk, holder, tx, work, out, call>>

(* PopMany returns an error: a record cannot be read, or bolt does not       *)
(* create the bucket or delete a record.  The transaction is rolled back.    *)
PopFails(c) ==
  /\ stage[c] = "begun" /\ call[c].op = "pop"
  /\ EndTransaction(c, Failed)
  /\ UNCHANGED disk

Push(c) ==
  /\ stage[c] = "begun" /\ call[c].op = "push"
  /\ CanPush(call[c].hh)
  /\ work' = PushMany(work, call[c].hh)
  /\ out' = Pushed
  /\ stage' = [stage EXCEPT ![c] = "worked"]
  /\ UNCHANGED <<disk, holder, tx, call, result>>

(* PushMany returns an error: bolt cannot store a heartbeat, or does not     *)
(* create the bucket.  pushHeartbeats returns it without a Rollback: the     *)
(* deferred Close then meets an open transaction.                            *)
PushFails(c) ==
  /\ stage[c] = "begun" /\ call[c].op = "push"
  /\ result' = [result EXCEPT ![c] = Failed]
  /\ stage' = [stage EXCEPT ![c] = "closing"]
  /\ UNCHANGED <<disk, holder, tx, work, out, call>>

(* CountHeartbeats rolls its transaction back, whether it has counted or     *)
(* bolt did not create the bucket.                                           *)
Count(c) ==
  /\ stage[c] = "begun" /\ call[c].op = "count"
  /\ EndTransaction(c, Counted(Cardinality(work)))
  /\ UNCHANGED disk

CountFails(c) ==
  /\ stage[c] = "begun" /\ call[c].op = "count"
  /\ EndTransaction(c, Failed)
  /\ UNCHANGED disk

Commit(c) ==
  /\ stage[c] = "worked"
  /\ disk' = work
  /\ EndTransaction(c, out)

CommitFailsLate(c) ==    \* a mutant: the error comes after the write
  /\ stage[c] = "worked"
  /\ disk' = work
  /\ EndTransaction(c, Failed)

CommitFails(c) ==
  /\ stage[c] = "worked"
  /\ EndTransaction(c, Failed)
  /\ UNCHANGED disk

(* bolt's Close waits for the open write transaction, its own caller's too.  *)
Close(c) ==
  /\ stage[c] = "closing"
  /\ tx # c
  /\ holder' = NoClient
  /\ stage' = [stage EXCEPT ![c] = "returning"]
  /\ UNCHANGED <<disk, tx, work, out, call, result>>

Return(c) ==
  /\ stage[c] = "returning"
  /\ call' = [call EXCEPT ![c] = NoCall]
  /\ stage' = [stage EXCEPT ![c] = "idle"]
  /\ UNCHANGED <<disk, holder, tx, work, out, result>>

Kill(c) ==
  /\ stage[c] # "idle"
  /\ holder' = IF holder = c THEN NoClient ELSE holder
  /\ IF tx = c THEN tx' = NoClient /\ work' = {} /\ out' = Pending
               ELSE UNCHANGED <<tx, work, out>>
  /\ stage' = [stage EXCEPT ![c] = "idle"]
  /\ call' = [call EXCEPT ![c] = NoCall]
  /\ result' = [result EXCEPT ![c] = Pending]
  /\ UNCHANGED disk

Session(c) ==
  \/ Open(c) \/ OpenFails(c)
  \/ Begin(c) \/ BeginFails(c)
  \/ Pop(c) \/ PopFails(c)
  \/ Push(c) \/ PushFails(c)
  \/ Count(c) \/ CountFails(c)
  \/ Commit(c) \/ CommitFails(c)
  \/ Close(c) \/ Return(c)

Next == \E c \in Client : Invoke(c) \/ Session(c) \/ Kill(c)

Spec == Init /\ [][Next]_vars

(* A goroutine that can take its next step takes it; calls and kills are up  *)
(* to the environment.                                                       *)
FairSpec == Spec /\ \A c \in Client : WF_vars(Session(c))

-----------------------------------------------------------------------------
(* The file lock covers a session from Open to Close; the one open           *)
(* transaction is the lock holder's, and only a failed push leaves it open   *)
(* after the work is done; a call has its answer exactly when its session is *)
(* past the commit.                                                          *)
SessionDiscipline ==
  \A c \in Client :
    /\ stage[c] \in {"opened", "begun", "worked", "closing"} <=> holder = c
    /\ stage[c] \in {"begun", "worked"} => tx = c
    /\ tx = c => stage[c] \in {"begun", "worked"} \/ (stage[c] = "closing" /\ result[c] = Failed)
    /\ stage[c] = "idle" <=> call[c] = NoCall
    /\ stage[c] \in {"opening", "opened", "begun", "worked"} => result[c] = Pending
    /\ stage[c] \in {"closing", "returning"} => result[c] # Pending

(* A transaction is about to commit exactly what its operation makes of the  *)
(* bucket that is on disk at that very moment: popHeartbeats and             *)
(* pushHeartbeats of different processes never lose each other's update.     *)
CommitsFresh ==
  \A c \in Client :
    /\ stage[c] = "begun" => work = disk
    /\ stage[c] = "worked" => Effect(disk, call[c], work, out)

(* Together they are inductive.                                              *)
Inv == TypeOK /\ SessionDiscipline /\ CommitsFresh

(* Sessions implement calls that are atomic, and without effect if they fail *)
(* or their process is killed before the commit.                             *)
Abstract == INSTANCE AbstractQueue WITH queue <- disk
ImplementsAbstractQueue == Abstract!AbsSpec

(* Every popHeartbeats, pushHeartbeats and CountHeartbeats returns, whatever *)
(* fails or is killed: nobody waits for the lock forever, also not for one   *)
(* that is never released, and an error leaves nothing open.  The exception  *)
(* is a push that bolt itself refused, which waits in Close for its own      *)
(* transaction; it holds up no call but its own.                             *)
Stuck(c) == call[c].op = "push" /\ stage[c] = "closing" /\ tx = c

CallsReturn == \A c \in Client : call[c] # NoCall ~> call[c] = NoCall \/ Stuck(c)
=============================================================================
