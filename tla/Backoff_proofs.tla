---------------------------- MODULE Backoff_proofs ----------------------------
(* For any number of processes, any periods and any width of a duration:     *)
(* nobody refuses to send because of a failure older than ResetAfter, and    *)
(* whoever starts between a failure and the next success does so for the     *)
(* first period.  And of the config file that keeps the backoff's settings,  *)
(* for any writers, keys and values: those that get the mutex in time        *)
(* truncate and save it one at a time.                                       *)
EXTENDS Backoff, ConfigFile, FiniteSetTheorems, WellFoundedInduction, TLAPS

(* Ages stay ages, and older ones stay older.                                *)
LEMMA OlderFacts ==
  /\ \A a \in Age : Older(a) \in Age
  /\ Older(Never) = Never
  /\ \A a, b \in Age : a >= b => Older(a) >= Older(b)
BY SizeAssumption DEF Older, Age, Never

(* Settings stay settings.                                                   *)
LEMMA AgedFacts ==
  ASSUME NEW c \in Setting
  PROVE  /\ Aged(c) \in Setting
         /\ Aged(c).since = Older(c.since) /\ Aged(c).retries = c.retries
         /\ Aged(c).since = Never <=> c.since = Never
<1>1. Older(c.since) = Never <=> c.since = Never
  BY SizeAssumption DEF Older, Setting, Age, Never
<1>. QED  BY <1>1, OlderFacts DEF Aged, Setting

(* At first nothing is recorded.                                             *)
LEMMA InvInit == Init => IInv
BY SizeAssumption DEF Init, IInv, TypeOK, FailuresKnown, RetriesTimed, LatestKept, None, Setting, MaxRetries, Age, Never

(* Time passes for all times alike.                                          *)
LEMMA TickInv == IInv /\ Tick => IInv'
<1>. SUFFICES ASSUME IInv, Tick PROVE IInv'
  OBVIOUS
<1>1. TypeOK'
  BY AgedFacts, OlderFacts DEF IInv, TypeOK, Tick
<1>2. config'.since # Never => config'.since >= failure'
  <2>1. config'.since = Older(config.since) /\ config.since \in Age \cup {Never}
    BY AgedFacts DEF IInv, TypeOK, Tick, Setting
  <2>. QED  BY <2>1, OlderFacts DEF IInv, TypeOK, FailuresKnown, Tick
<1>3. ASSUME NEW p \in Proc
      PROVE  loaded'[p].since # Never => loaded'[p].since >= failure'
  <2>1. loaded'[p].since = Older(loaded[p].since) /\ loaded[p].since \in Age \cup {Never}
    BY AgedFacts DEF IInv, TypeOK, Tick, Setting
  <2>. QED  BY <2>1, OlderFacts DEF IInv, TypeOK, FailuresKnown, Tick
<1>4. RetriesTimed'
  BY AgedFacts DEF IInv, TypeOK, Tick, RetriesTimed
<1>5. ~erased' => config'.since = failure'
  BY AgedFacts DEF IInv, TypeOK, LatestKept, Tick
<1>6. ASSUME NEW p \in Proc, p \notin unaware', pc'[p] # "idle"
      PROVE  loaded'[p].since = failure'
  <2>1. loaded[p].since = failure
    BY <1>6 DEF IInv, LatestKept, Tick
  <2>2. loaded'[p].since = Older(loaded[p].since)
    BY AgedFacts DEF IInv, TypeOK, Tick
  <2>. QED  BY <2>1, <2>2 DEF Tick
<1>7. LatestKept'
  BY <1>5, <1>6 DEF LatestKept
<1>. QED  BY <1>1, <1>2, <1>3, <1>4, <1>7 DEF IInv, FailuresKnown

(* A process that records a failure makes it the latest one.                 *)
LEMMA RecordFailureInv == \A p \in Proc : IInv /\ RecordFailure(p) => IInv'
<1>. SUFFICES ASSUME NEW p \in Proc, IInv, RecordFailure(p) PROVE IInv'
  OBVIOUS
<1>. USE SizeAssumption DEF IInv, RecordFailure, End, None, Setting, MaxRetries, Age, Never
<1>1. loaded[p] \in Setting
  BY DEF TypeOK
<1>2. TypeOK'
  <2>1. config' \in Setting /\ loaded' \in [Proc -> Setting]
    BY <1>1 DEF TypeOK
  <2>2. unaware' \subseteq Proc
    BY DEF TypeOK
  <2>3. erased' \in BOOLEAN
    BY Zenon
  <2>4. failure' \in Age
    OBVIOUS
  <2>5. pc' = [pc EXCEPT ![p] = "idle"] /\ up' = up
    OBVIOUS
  <2>. QED  BY <2>1, <2>2, <2>3, <2>4, <2>5 DEF TypeOK
<1>3. FailuresKnown'
  BY DEF TypeOK, FailuresKnown
<1>4. RetriesTimed'
  BY <1>1 DEF TypeOK, RetriesTimed
<1>5. LatestKept'
  BY DEF TypeOK, LatestKept
<1>. QED  BY <1>2, <1>3, <1>4, <1>5

(* Every step keeps the invariant.                                           *)
LEMMA InvNext == IInv /\ [Next]_vars => IInv'
<1>. SUFFICES ASSUME IInv, [Next]_vars PROVE IInv'
  OBVIOUS
<1>1. CASE Tick
  BY <1>1, TickInv
<1>2. CASE Flip
  BY <1>2 DEF IInv, TypeOK, FailuresKnown, RetriesTimed, LatestKept, Flip
<1>3. ASSUME NEW p \in Proc, Load(p) PROVE IInv'
  BY <1>3 DEF IInv, TypeOK, FailuresKnown, RetriesTimed, LatestKept, Load
<1>4. ASSUME NEW p \in Proc, Refuse(p) \/ Send(p) \/ Answer(p) PROVE IInv'
  BY <1>4 DEF IInv, TypeOK, FailuresKnown, RetriesTimed, LatestKept, Refuse, Send, Answer
<1>5. ASSUME NEW p \in Proc, EndRefused(p) \/ RecordSuccess(p) \/ WriteFails(p) PROVE IInv'
  <2>1. None \in Setting /\ None.since = Never /\ None.retries = 0
    BY SizeAssumption DEF None, Setting, MaxRetries, Never
  <2>2. /\ config' \in {config, None} /\ failure' = failure /\ up' = up
        /\ pc' = [pc EXCEPT ![p] = "idle"]
        /\ loaded' = [loaded EXCEPT ![p] = None]
        /\ unaware' = unaware \ {p}
        /\ erased' \in BOOLEAN /\ (~erased' => ~erased /\ config' = config)
    BY <1>5 DEF EndRefused, RecordSuccess, WriteFails, End, Forget, IInv, TypeOK
  <2>3. TypeOK' /\ FailuresKnown' /\ RetriesTimed'
    BY <2>1, <2>2 DEF IInv, TypeOK, FailuresKnown, RetriesTimed
  <2>4. LatestKept'
    BY <2>2 DEF IInv, TypeOK, LatestKept
  <2>. QED  BY <2>3, <2>4 DEF IInv
<1>6. ASSUME NEW p \in Proc, RecordFailure(p) PROVE IInv'
  BY <1>6, RecordFailureInv
<1>7. CASE UNCHANGED vars
  BY <1>7 DEF IInv, TypeOK, FailuresKnown, RetriesTimed, LatestKept, vars
<1>. QED  BY <1>1, <1>2, <1>3, <1>4, <1>5, <1>6, <1>7 DEF Next, Step

(* The inductive invariant: every time in use is that of a recorded failure. *)
THEOREM TimesOfFailures == Spec => []IInv
<1>. QED  BY InvInit, InvNext, PTL DEF Spec

(* WithBackoff refuses to send only within ResetAfter of a failure that some *)
(* process recorded, whatever processes overwrote in between.                *)
THEOREM NoEndlessBackoff == Spec => RefusedAfterFailure
<1>1. ASSUME IInv, [Next]_vars, NEW p \in Proc, pc[p] # "refused", pc'[p] = "refused"
      PROVE  failure < ResetAfter
  <2>1. Refuse(p)
    BY <1>1 DEF Next, Step, Tick, Flip, Load, Refuse, Send, Answer, EndRefused, RecordFailure,
                RecordSuccess, WriteFails, End, IInv, TypeOK, vars
  <2>2. loaded[p].since # Never /\ loaded[p].since < ResetAfter
    BY <2>1 DEF Refuse, ShouldBackoff
  <2>3. loaded[p].since \in Age \cup {Never} /\ failure \in Age
    BY <1>1 DEF IInv, TypeOK, Setting
  <2>. QED  BY <1>1, <2>2, <2>3, SizeAssumption DEF IInv, FailuresKnown, Age, Never
<1>2. IInv /\ [Next]_vars =>
        [\A p \in Proc : pc[p] # "refused" /\ pc'[p] = "refused" => failure < ResetAfter]_vars
  BY <1>1
<1>. QED  BY <1>2, TimesOfFailures, PTL DEF Spec, RefusedAfterFailure
-----------------------------------------------------------------------------
(* Periods.                                                                  *)

(* A set of numbers that is not empty has a least one, since a set of finite *)
(* sets has a minimal one.                                                   *)
LEMMA LeastNumber ==
  ASSUME NEW T \in SUBSET Nat, T # {}
  PROVE  \E m \in T : \A n \in T : m <= n
<1>. DEFINE Below(n) == 0..n - 1
            U == {Below(n) : n \in T}
<1>1. U \subseteq FiniteSubsetsOf(Nat) /\ U # {}
  <2>1. ASSUME NEW n \in T PROVE Below(n) \in FiniteSubsetsOf(Nat)
    <3>1. Below(n) \subseteq Nat
      OBVIOUS
    <3>2. IsFiniteSet(Below(n))
      BY FS_Interval
    <3>. HIDE DEF Below
    <3>. QED  BY <3>1, <3>2 DEF FiniteSubsetsOf
  <2>. HIDE DEF Below
  <2>. QED  BY <2>1
<1>2. PICK S \in U : \A R \in U : <<R, S>> \notin StrictSubsetOrdering(Nat)
  <2>. HIDE DEF U
  <2>. QED  BY <1>1, FS_StrictSubsetOrderingWellFounded, WFMin
<1>3. PICK m \in T : S = Below(m)
  BY <1>2
<1>4. ASSUME NEW n \in T, n < m PROVE FALSE
  <2>1. Below(n) \subseteq Below(m) /\ Below(m) \subseteq Nat
    BY <1>4
  <2>2. Below(n) # Below(m)
    BY <1>4
  <2>3. Below(n) \in U
    OBVIOUS
  <2>. HIDE DEF Below, U
  <2>. QED  BY <1>2, <1>3, <2>1, <2>2, <2>3 DEF StrictSubsetOrdering
<1>. QED  BY <1>4

(* A set that contains 0, and the successor of each of its numbers.          *)
LEMMA Induction ==
  ASSUME NEW S, 0 \in S, \A n \in Nat : n \in S => n + 1 \in S
  PROVE  Nat \subseteq S
<1>. DEFINE T == Nat \ S
<1>. SUFFICES ASSUME T # {} PROVE FALSE
  OBVIOUS
<1>1. PICK m \in T : \A n \in T : m <= n
  <2>. HIDE DEF T
  <2>. QED  BY LeastNumber DEF T
<1>2. m # 0 /\ m - 1 \in Nat /\ m - 1 \in S
  BY <1>1
<1>. QED  BY <1>1, <1>2

(* Power n, from the one before.                                             *)
Doubled(f, n) == IF n = 0 THEN 1 ELSE 2 * f[n - 1]

(* The powers exist.                                                         *)
LEMMA PowersExist == \E f : f = [n \in 0..Width |-> Doubled(f, n)]
<1>. DEFINE Runs(m) == \E f : f = [n \in 0..m |-> Doubled(f, n)]
            S == {m \in Nat : Runs(m)}
<1>1. Runs(0)
  <2>. DEFINE f == [n \in 0..0 |-> 1]
  <2>1. f = [n \in 0..0 |-> Doubled(f, n)]
    BY DEF Doubled
  <2>. HIDE DEF f
  <2>. QED  BY <2>1
<1>2. ASSUME NEW m \in Nat, Runs(m) PROVE Runs(m + 1)
  <2>1. PICK f : f = [n \in 0..m |-> Doubled(f, n)]
    BY <1>2
  <2>. DEFINE more == [n \in 0..m + 1 |-> Doubled(f, n)]
  <2>2. \A n \in 0..m : more[n] = f[n]
    BY <2>1
  <2>3. \A n \in 0..m + 1 : Doubled(f, n) = Doubled(more, n)
    <3>. SUFFICES ASSUME NEW n \in 0..m + 1, n # 0 PROVE f[n - 1] = more[n - 1]
      BY DEF Doubled
    <3>1. n - 1 \in 0..m
      OBVIOUS
    <3>. HIDE DEF more
    <3>. QED  BY <2>2, <3>1
  <2>4. more = [n \in 0..m + 1 |-> Doubled(more, n)]
    BY <2>3
  <2>. HIDE DEF more
  <2>. QED  BY <2>4
<1>3. Nat \subseteq S
  <2>1. 0 \in S
    BY <1>1
  <2>2. \A m \in Nat : m \in S => m + 1 \in S
    BY <1>2
  <2>. HIDE DEF S
  <2>. QED  BY <2>1, <2>2, Induction
<1>4. Width \in S
  BY <1>3, SizeAssumption
<1>. QED  BY <1>4

(* They are numbers, and from the first on even greater than 1.              *)
LEMMA PowerFacts ==
  /\ \A n \in 0..Width : Pow2[n] \in Nat \ {0} /\ (n >= 1 => Pow2[n] >= 2)
  /\ Pow2[Width] = 2 * Pow2[Width - 1]
<1>. DEFINE P(f) == f = [n \in 0..Width |-> Doubled(f, n)]
            S == {n \in Nat : n <= Width => Pow2[n] \in Nat \ {0} /\ (n >= 1 => Pow2[n] >= 2)}
<1>1. P(Pow2)
  <2>1. P(CHOOSE f : P(f))
    BY PowersExist
  <2>2. Pow2 = CHOOSE f : P(f)
    BY DEF Pow2, Doubled
  <2>. HIDE DEF P
  <2>. QED  BY <2>1, <2>2
<1>2. Pow2[0] = 1
  BY <1>1, SizeAssumption DEF Doubled
<1>3. ASSUME NEW n \in Nat, n + 1 <= Width PROVE Pow2[n + 1] = 2 * Pow2[n]
  <2>1. Pow2[n + 1] = Doubled(Pow2, n + 1)
    BY <1>1, <1>3, SizeAssumption
  <2>2. n + 1 # 0 /\ n + 1 - 1 = n
    OBVIOUS
  <2>. QED  BY <2>1, <2>2 DEF Doubled
<1>. HIDE DEF P
<1>4. 0 \in S
  BY <1>2
<1>5. ASSUME NEW n \in Nat, n \in S PROVE n + 1 \in S
  BY <1>3, <1>5, SizeAssumption
<1>6. Nat \subseteq S
  <2>. HIDE DEF S
  <2>. QED  BY <1>4, <1>5, Induction
<1>7. Pow2[Width] = 2 * Pow2[Width - 1]
  BY <1>3, SizeAssumption
<1>. QED  BY <1>6, <1>7, SizeAssumption

(* A period that does not overflow is that many times Factor.                *)
LEMMA DurationFacts ==
  ASSUME NEW r \in 0..Width, ~Overflows(r)
  PROVE  Duration(r) = Factor * Pow2[r] * Unit
<1>. DEFINE d == Factor * Pow2[r] * Unit  half == Pow2[Width - 1]
<1>1. half \in Nat \ {0} /\ Pow2[Width] = 2 * half /\ Pow2[r] \in Nat
  BY PowerFacts, SizeAssumption
<1>2. d \in Nat /\ d < half
  BY <1>1, SizeAssumption DEF Overflows
<1>. HIDE DEF d, half
<1>3. d % (2 * half) = d
  BY <1>1, <1>2
<1>4. Signed(d) = d
  BY <1>1, <1>2, <1>3 DEF Signed, half
<1>. QED  BY <1>4 DEF Duration, d

(* Whoever sends with the time of a failure sends long enough after it.      *)
LEMMA Waited ==
  ASSUME NEW c \in Setting, c.retries # 0, c.since # Never, ~ShouldBackoff(c), ~Overflows(c.retries)
  PROVE  c.since >= FirstPeriod
<1>1. c.retries \in 0..Width /\ c.since \in Age \cup {Never}
  BY DEF Setting, MaxRetries
<1>3. CASE c.retries >= 1 /\ c.since >= ResetAfter
  <2>1. FirstPeriod \in Nat /\ FirstPeriod <= ResetAfter
    BY SizeAssumption DEF FirstPeriod
  <2>2. c.since \in Int
    BY <1>1 DEF Age, Never
  <2>. QED  BY <1>3, <2>1, <2>2, SizeAssumption
<1>4. CASE c.retries >= 1 /\ c.since # Never /\ ~(c.since * Unit < Duration(c.retries))
  <2>. DEFINE k == Pow2[c.retries]
  <2>1. k \in Nat /\ k >= 2
    BY <1>1, <1>4, PowerFacts
  <2>2. ~(c.since * Unit < Factor * k * Unit)
    BY <1>1, <1>4, DurationFacts
  <2>. HIDE DEF k
  <2>3. c.since \in Nat /\ Factor \in Nat /\ Unit \in Nat \ {0}
    BY <1>1, <1>4, SizeAssumption DEF Age, Never
  <2>4. c.since >= Factor * k
    <3>1. \A a, b \in Nat : a < b => a * Unit < b * Unit
      <4>. SUFFICES ASSUME NEW a \in Nat, NEW b \in Nat, a < b PROVE a * Unit < b * Unit
        OBVIOUS
      <4>1. (a + 1) * Unit <= b * Unit /\ (a + 1) * Unit = a * Unit + Unit
        BY <2>3
      <4>. QED  BY <2>3, <4>1
    <3>2. Factor * k \in Nat
      BY <2>1, <2>3
    <3>. QED  BY <2>2, <2>3, <3>1, <3>2
  <2>5. Factor * k >= 2 * Factor
    BY <2>1, <2>3
  <2>6. FirstPeriod \in Nat /\ FirstPeriod <= 2 * Factor
    BY SizeAssumption DEF FirstPeriod
  <2>7. Factor * k \in Nat
    BY <2>1, <2>3
  <2>. QED  BY <2>3, <2>4, <2>5, <2>6, <2>7
<1>5. c.retries >= 1
  BY <1>1
<1>6. c.since # Never /\ ~(c.since < ResetAfter) => c.since >= ResetAfter
  BY <1>1, SizeAssumption DEF Age, Never
<1>. QED  BY <1>3, <1>4, <1>5, <1>6 DEF ShouldBackoff

(* A process that starts after a failure was recorded, and before a success  *)
(* of another one is, waits for the first period, or ResetAfter, since that  *)
(* failure, unless the period overflows (backoff.go): stale writers may      *)
(* overwrite the number of failures, never the time of the latest one.       *)
THEOREM PeriodsAreKept == Spec => BackoffKept
<1>1. ASSUME IInv, [Next]_vars, NEW p \in Proc, pc[p] = "loaded", pc'[p] = "sending",
             p \notin unaware, ~Overflows(loaded[p].retries)
      PROVE  failure >= FirstPeriod
  <2>1. Send(p)
    BY <1>1 DEF Next, Step, Tick, Flip, Load, Refuse, Send, Answer, EndRefused, RecordFailure,
                RecordSuccess, WriteFails, End, IInv, TypeOK, vars
  <2>2. ~ShouldBackoff(loaded[p]) /\ loaded[p] \in Setting
    BY <1>1, <2>1 DEF Send, IInv, TypeOK
  <2>3. loaded[p].since = failure /\ failure # Never
    BY <1>1, SizeAssumption DEF IInv, TypeOK, LatestKept, Age, Never
  <2>4. loaded[p].retries # 0 /\ loaded[p].since # Never
    BY <1>1, <2>3 DEF IInv, RetriesTimed
  <2>5. loaded[p].since >= FirstPeriod
    BY <1>1, <2>2, <2>4, Waited
  <2>. QED  BY <2>3, <2>5
<1>2. IInv /\ [Next]_vars =>
        [\A p \in Proc : pc[p] = "loaded" /\ pc'[p] = "sending" =>
           failure >= FirstPeriod \/ p \in unaware \/ Overflows(loaded[p].retries)]_vars
  BY <1>1
<1>. QED  BY <1>2, TimesOfFailures, PTL DEF Spec, BackoffKept
-----------------------------------------------------------------------------
(* The config file, in which these settings are kept                         *)

(* A contents of the config file stays one when keys are set in it.          *)
LEMMA WithContents ==
  ASSUME NEW a \in Contents, NEW b \in Contents
  PROVE  With(a, b) \in Contents
<1>1. PICK K \in SUBSET Key : a \in [K -> Value]
  BY DEF Contents
<1>2. PICK L \in SUBSET Key : b \in [L -> Value]
  BY DEF Contents
<1>3. With(a, b) \in [K \cup L -> Value]
  BY <1>1, <1>2 DEF With
<1>. QED  BY <1>3 DEF Contents

(* What is empty is a contents, and so are values for some of the keys.      *)
LEMMA SomeContents ==
  /\ Empty \in Contents
  /\ \A K \in SUBSET Key : [K -> Value] \subseteq Contents
<1>1. Empty \in [{} -> Value]
  BY DEF Empty
<1>. QED  BY <1>1 DEF Contents

(* At first nobody has the mutex.                                            *)
LEMMA IniInvInit == IniInit => IniInv
<1>. SUFFICES ASSUME IniInit PROVE IniInv
  OBVIOUS
<1>1. file \in Contents
  BY DEF IniInit
<1>. QED  BY <1>1, SomeContents, WriterAssumption DEF IniInit, IniInv, IniTypeOK, HoldersOnly, PastMutex

(* What each step leaves of the types.                                       *)
LEMMA IniTypeNext == IniTypeOK /\ [IniNext]_iniVars => IniTypeOK'
<1>. SUFFICES ASSUME IniTypeOK, [IniNext]_iniVars PROVE IniTypeOK'
  OBVIOUS
<1>1. ASSUME NEW p \in Writer, Begin(p) PROVE IniTypeOK'
  <2>1. PICK kv \in [KeysOf[p] -> Value] :
          /\ wanted' = [wanted EXCEPT ![p] = kv]
          /\ memory' = [memory EXCEPT ![p] = With(file, kv)]
    BY <1>1 DEF Begin
  <2>2. kv \in Contents
    BY SomeContents, KeyAssumption
  <2>3. With(file, kv) \in Contents
    BY <2>2, WithContents DEF IniTypeOK
  <2>. QED  BY <1>1, <2>1, <2>2, <2>3 DEF Begin, IniTypeOK
<1>2. ASSUME NEW p \in Writer, Acquire(p) \/ TimeOut(p) PROVE IniTypeOK'
  BY <1>2 DEF Acquire, TimeOut, IniTypeOK
<1>3. ASSUME NEW p \in Writer, Truncate(p) PROVE IniTypeOK'
  BY <1>3, SomeContents DEF Truncate, IniTypeOK
<1>4. ASSUME NEW p \in Writer, Save(p) PROVE IniTypeOK'
  <2>1. memory[p] \in Contents /\ With(written, wanted[p]) \in Contents
    BY WithContents DEF IniTypeOK
  <2>. QED  BY <1>4, <2>1 DEF Save, IniTypeOK
<1>5. ASSUME NEW p \in Writer, Finish(p) PROVE IniTypeOK'
  BY <1>5, SomeContents DEF Finish, IniTypeOK
<1>6. CASE UNCHANGED iniVars
  BY <1>6 DEF iniVars, IniTypeOK
<1>. QED  BY <1>1, <1>2, <1>3, <1>4, <1>5, <1>6 DEF IniNext, WriteStep, SaveFails, Return, Crash

(* Only Acquire and TimeOut let a process past the mutex, and only Finish    *)
(* gives it up.                                                              *)
LEMMA IniHoldersNext == IniTypeOK /\ HoldersOnly /\ [IniNext]_iniVars => HoldersOnly'
<1>. SUFFICES ASSUME IniTypeOK, HoldersOnly, [IniNext]_iniVars PROVE HoldersOnly'
  OBVIOUS
<1>. USE DEF IniTypeOK, HoldersOnly, PastMutex
<1>1. ASSUME NEW p \in Writer, Begin(p) PROVE HoldersOnly'
  BY <1>1 DEF Begin
<1>2. ASSUME NEW p \in Writer, Acquire(p) PROVE HoldersOnly'
  BY <1>2, WriterAssumption DEF Acquire
<1>3. ASSUME NEW p \in Writer, TimeOut(p) PROVE HoldersOnly'
  BY <1>3 DEF TimeOut
<1>4. ASSUME NEW p \in Writer, Truncate(p) \/ Save(p) PROVE HoldersOnly'
  BY <1>4 DEF Truncate, Save
<1>5. ASSUME NEW p \in Writer, Finish(p) PROVE HoldersOnly'
  BY <1>5, WriterAssumption DEF Finish
<1>6. CASE UNCHANGED iniVars
  BY <1>6 DEF iniVars
<1>. QED  BY <1>1, <1>2, <1>3, <1>4, <1>5, <1>6 DEF IniNext, WriteStep, SaveFails, Return, Crash

(* The inductive invariant of the config file.                               *)
THEOREM MutexHeld == IniSpec => []IniInv
<1>1. IniInv /\ [IniNext]_iniVars => IniInv'
  BY IniTypeNext, IniHoldersNext DEF IniInv
<1>. QED  BY <1>1, IniInvInit, PTL DEF IniSpec

(* Write's SaveTo runs in one process at a time, but for those that waited   *)
(* longer than defaultTimeout, whoever fails or is killed.                   *)
THEOREM OneSavesAtATime == IniSpec => []OneSaves
<1>1. IniInv => OneSaves
  BY DEF IniInv, HoldersOnly, OneSaves
<1>. QED  BY <1>1, MutexHeld, PTL
=============================================================================
