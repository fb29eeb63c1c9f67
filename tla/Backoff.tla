------------------------------- MODULE Backoff -------------------------------
(* The exponential backoff of pkg/backoff.  A process of the heartbeat       *)
(* command reads backoff_retries and backoff_at when it loads its            *)
(* parameters, decides whether to send, and writes both when the request is  *)
(* over; other processes do the same in between.  Times are ages: the time   *)
(* since backoff_at, which makes no difference any more from ResetAfter on.  *)
EXTENDS Integers

CONSTANTS
  Proc,
  Factor,       \* factor, in units of time
  ResetAfter,   \* resetAfter, in the same units
  Unit,         \* the units of time.Duration in one of them
  Width         \* the width of time.Duration, in bits

ASSUME SizeAssumption ==
  /\ Factor \in Nat \ {0} /\ ResetAfter \in Nat \ {0} /\ Unit \in Nat \ {0}
  /\ Width \in Nat \ {0}

VARIABLES
  config,     \* the keys in the config file
  pc,         \* what each process does next
  loaded,     \* its Config: the keys it has read
  up,         \* the API is responsive
  failure,    \* history: the time since a process last recorded a failure
  erased,     \* history: a success was recorded after it
  unaware     \* history: the processes that have not read of it, see BackoffKept

vars == <<config, pc, loaded, up, failure, erased, unaware>>

(* Retries from Width on are all alike: see Duration.                        *)
MaxRetries == Width
Never == -1
Age == 0..ResetAfter
Setting == [retries : 0..MaxRetries, since : Age \cup {Never}]
None == [retries |-> 0, since |-> Never]

TypeOK ==
  /\ config \in Setting
  /\ pc \in [Proc -> {"idle", "loaded", "refused", "sending", "failed", "succeeded"}]
  /\ loaded \in [Proc -> Setting]
  /\ up \in BOOLEAN
  /\ failure \in Age
  /\ erased \in BOOLEAN
  /\ unaware \subseteq Proc

-----------------------------------------------------------------------------
(* math.Pow(2, n).                                                           *)
Pow2[n \in 0..Width] == IF n = 0 THEN 1 ELSE 2 * Pow2[n - 1]

(* time.Duration(15 * 2^retries) * time.Second, a signed integer of Width    *)
(* bits: from Width retries on every bit of the product is lost.             *)
Signed(n) == LET m == n % Pow2[Width] IN IF m < Pow2[Width - 1] THEN m ELSE m - Pow2[Width]
Duration(retries) == Signed(Factor * Pow2[retries] * Unit)

ShouldBackoffUncapped(c) ==    \* a mutant: no end after ResetAfter
  c.retries >= 1 /\ c.since # Never /\ c.since * Unit < Duration(c.retries)

ShouldBackoffLater(c) ==    \* a mutant: not after the first failure
  /\ c.retries >= 2 /\ c.since # Never
  /\ c.since * Unit < Duration(c.retries) /\ c.since < ResetAfter

ShouldBackoff(c) ==
  /\ c.retries >= 1 /\ c.since # Never
  /\ c.since * Unit < Duration(c.retries) /\ c.since < ResetAfter

Init ==
  /\ config = None
  /\ pc = [p \in Proc |-> "idle"]
  /\ loaded = [p \in Proc |-> None]
  /\ up \in BOOLEAN
  /\ failure = ResetAfter
  /\ erased = TRUE
  /\ unaware = {}

(* LoadAPIParams.                                                            *)
Load(p) ==
  /\ pc[p] = "idle"
  /\ loaded' = [loaded EXCEPT ![p] = config]
  /\ pc' = [pc EXCEPT ![p] = "loaded"]
  /\ unaware' = IF erased THEN unaware \cup {p} ELSE unaware
  /\ UNCHANGED <<config, up, failure, erased>>

RefuseAndPostpone(p) ==    \* a mutant: a refusal is written as the latest failure
  /\ pc[p] = "loaded" /\ ShouldBackoff(loaded[p])
  /\ pc' = [pc EXCEPT ![p] = "refused"]
  /\ config' = [loaded[p] EXCEPT !.since = 0]
  /\ UNCHANGED <<loaded, up, failure, erased, unaware>>

Refuse(p) ==
  /\ pc[p] = "loaded" /\ ShouldBackoff(loaded[p])
  /\ pc' = [pc EXCEPT ![p] = "refused"]
  /\ UNCHANGED <<config, loaded, up, failure, erased, unaware>>

Send(p) ==
  /\ pc[p] = "loaded" /\ ~ShouldBackoff(loaded[p])
  /\ pc' = [pc EXCEPT ![p] = "sending"]
  /\ UNCHANGED <<config, loaded, up, failure, erased, unaware>>

Answer(p) ==
  /\ pc[p] = "sending"
  /\ pc' = [pc EXCEPT ![p] = IF up THEN "succeeded" ELSE "failed"]
  /\ UNCHANGED <<config, loaded, up, failure, erased, unaware>>

(* The process goes on without WithBackoff.                                  *)
End(p) ==
  /\ pc' = [pc EXCEPT ![p] = "idle"]
  /\ loaded' = [loaded EXCEPT ![p] = None]
  /\ UNCHANGED up

Forget(p) == unaware' = unaware \ {p}

EndRefused(p) == pc[p] = "refused" /\ End(p) /\ Forget(p) /\ UNCHANGED <<config, failure, erased>>

(* updateBackoffSettings(retries + 1, now).                                  *)
RecordFailure(p) ==
  /\ pc[p] = "failed"
  /\ config' = [retries |-> IF loaded[p].retries = MaxRetries THEN MaxRetries
                            ELSE loaded[p].retries + 1,
                since |-> 0]
  /\ failure' = 0 /\ erased' = FALSE
  /\ unaware' = {q \in Proc \ {p} : pc[q] # "idle"}
  /\ End(p)

ResetToNow(p) ==    \* a mutant: the time of the success is written
  /\ pc[p] = "succeeded"
  /\ config' = IF loaded[p].since # Never THEN [retries |-> 0, since |-> 0] ELSE config
  /\ erased' = (erased \/ loaded[p].since # Never)
  /\ End(p) /\ Forget(p)
  /\ UNCHANGED failure

(* updateBackoffSettings(0, zero), if the process has read a time.           *)
RecordSuccess(p) ==
  /\ pc[p] = "succeeded"
  /\ config' = IF loaded[p].since # Never THEN None ELSE config
  /\ erased' = (erased \/ loaded[p].since # Never)
  /\ End(p) /\ Forget(p)
  /\ UNCHANGED failure

WriteFails(p) ==
  /\ pc[p] \in {"failed", "succeeded"}
  /\ End(p) /\ Forget(p)
  /\ UNCHANGED <<config, failure, erased>>

Step(p) ==
  \/ Refuse(p) \/ Send(p) \/ Answer(p) \/ EndRefused(p)
  \/ RecordFailure(p) \/ RecordSuccess(p) \/ WriteFails(p)

-----------------------------------------------------------------------------
Older(age) == IF age = Never \/ age = ResetAfter THEN age ELSE age + 1
Aged(c) == [c EXCEPT !.since = Older(@)]

Tick ==
  /\ config' = Aged(config)
  /\ loaded' = [p \in Proc |-> Aged(loaded[p])]
  /\ failure' = Older(failure)
  /\ UNCHANGED <<pc, up, erased, unaware>>

(* The API stops to respond, or responds again.                              *)
Flip == up' = ~up /\ UNCHANGED <<config, pc, loaded, failure, erased, unaware>>

Next == Tick \/ Flip \/ \E p \in Proc : Load(p) \/ Step(p)

Spec == Init /\ [][Next]_vars

(* Time passes, editors go on reporting, and processes that run go on.       *)
FairSpec == Spec /\ WF_vars(Tick) /\ \A p \in Proc : WF_vars(Load(p)) /\ WF_vars(Step(p))

-----------------------------------------------------------------------------
(* A process refuses to send only if some process recorded a failure within  *)
(* ResetAfter, whatever it has read and however long ago: there is nothing   *)
(* that backs off forever.                                                   *)
RefusedAfterFailure ==
  [][\A p \in Proc : pc[p] # "refused" /\ pc'[p] = "refused" => failure < ResetAfter]_vars

(* It is so because every time that is in the file or in use is the time of  *)
(* a recorded failure.                                                       *)
FailuresKnown ==
  /\ config.since # Never => config.since >= failure
  /\ \A p \in Proc : loaded[p].since # Never => loaded[p].since >= failure

(* A time is recorded with the number of failures, and reset with it.        *)
RetriesTimed ==
  /\ config.retries = 0 <=> config.since = Never
  /\ \A p \in Proc : loaded[p].retries = 0 <=> loaded[p].since = Never

(* The file has the latest failure until a success is recorded, and who has  *)
(* read it since then has it, too.                                           *)
LatestKept ==
  /\ ~erased => config.since = failure
  /\ \A p \in Proc \ unaware : pc[p] # "idle" => loaded[p].since = failure

IInv == TypeOK /\ FailuresKnown /\ RetriesTimed /\ LatestKept

(* Requests go out again and again, also while the API does not respond: a   *)
(* refusal never prolongs the backoff.                                       *)
SendsAgain == []<>(\E p \in Proc : pc[p] = "sending")

(* When the API responds for good, and resets are no longer prevented from   *)
(* being written, the backoff is forgotten for good, though processes that   *)
(* saw the API fail may still record that after others succeeded.            *)
ResetsWritten == [][\A p \in Proc : loaded[p].since # Never => ~WriteFails(p)]_vars

Recovers == <>[]up /\ <>ResetsWritten => <>[](config = None)

(* WithBackoff is there "to prevent trying to send a heartbeat when the api  *)
(* is unresponsive" (backoff.go:34).  A process that starts after a failure  *)
(* was recorded, and before a success of another one is, does not send until *)
(* the first of the periods, or ResetAfter, is over since that failure: also *)
(* if others read, retried, failed or succeeded in the meantime.  Processes  *)
(* that had started before the failure was recorded do send, and so do those *)
(* that start after a success that was under way then.  The period is not    *)
(* kept after so many failures that it overflows.                            *)
FirstPeriod == IF 2 * Factor < ResetAfter THEN 2 * Factor ELSE ResetAfter
Overflows(retries) == Factor * Pow2[retries] * Unit >= Pow2[Width - 1]

BackoffKept ==
  [][\A p \in Proc : pc[p] = "loaded" /\ pc'[p] = "sending" =>
       failure >= FirstPeriod \/ p \in unaware \/ Overflows(loaded[p].retries)]_vars
=============================================================================
