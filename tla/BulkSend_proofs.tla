--------------------------- MODULE BulkSend_proofs ---------------------------
(* For any heartbeats, any number of api keys and any calls of a client: its *)
(* channels hold what the goroutines put, its answers are those of the API,  *)
(* and it is a sender as the offline queue needs one.                        *)
EXTENDS BulkSend, FiniteSetTheorems, SequenceTheorems, WellFoundedInduction, TLAPS

-----------------------------------------------------------------------------
(* Induction over the positions of a sequence                                *)

(* A set of numbers that is not empty has a least one, since a set of finite *)
(* sets has a minimal one.                                                   *)
LEMMA LeastNumber ==
  ASSUME NEW T \in SUBSET Nat, T # {}
  PROVE  \E m \in T : \A n \in T : m <= n
<1>. DEFINE Below(n) == 0..n - 1
            U == {Below(n) : n \in T}
<1>1. U \subseteq FiniteSubsetsOf(Nat) /\ U # {}
  <2>1. ASSUME NEW n \in T PROVE Below(n) \in FiniteSubsetsOf(Nat)
    <3>1. Below(n) \subseteq Nat
      OBVIOUS
    <3>2. IsFiniteSet(Below(n))
      BY FS_Interval
    <3>. HIDE DEF Below
    <3>. QED  BY <3>1, <3>2 DEF FiniteSubsetsOf
  <2>. HIDE DEF Below
  <2>. QED  BY <2>1
<1>2. PICK S \in U : \A R \in U : <<R, S>> \notin StrictSubsetOrdering(Nat)
  <2>. HIDE DEF U
  <2>. QED  BY <1>1, FS_StrictSubsetOrderingWellFounded, WFMin
<1>3. PICK m \in T : S = Below(m)
  BY <1>2
<1>4. ASSUME NEW n \in T, n < m PROVE FALSE
  <2>1. Below(n) \subseteq Below(m) /\ Below(m) \subseteq Nat
    BY <1>4
  <2>2. Below(n) # Below(m)
    BY <1>4
  <2>3. Below(n) \in U
    OBVIOUS
  <2>. HIDE DEF Below, U
  <2>. QED  BY <1>2, <1>3, <2>1, <2>2, <2>3 DEF StrictSubsetOrdering
<1>. QED  BY <1>4

(* A set that contains 0, and the successor of each of its numbers.          *)
LEMMA Induction ==
  ASSUME NEW S, 0 \in S, \A n \in Nat : n \in S => n + 1 \in S
  PROVE  Nat \subseteq S
<1>. DEFINE T == Nat \ S
<1>. SUFFICES ASSUME T # {} PROVE FALSE
  OBVIOUS
<1>1. PICK m \in T : \A n \in T : m <= n
  <2>. HIDE DEF T
  <2>. QED  BY LeastNumber DEF T
<1>2. m # 0 /\ m - 1 \in Nat /\ m - 1 \in S
  BY <1>1
<1>. QED  BY <1>1, <1>2

-----------------------------------------------------------------------------
(* What groupByApiKey computes                                               *)

(* Step n of the loop, for key k.                                            *)
PartStep(part, n, hh, k) ==
  IF n = 0 THEN <<>>
  ELSE IF ApiKey[hh[n]] = k THEN Append(part[n - 1], hh[n]) ELSE part[n - 1]

(* There is a run of the loop.                                               *)
LEMMA PartExists ==
  ASSUME NEW hh \in Seq(Heartbeat), NEW k
  PROVE  \E part : part = [n \in 0..Len(hh) |-> PartStep(part, n, hh, k)]
<1>. DEFINE Runs(m) == \E part : part = [n \in 0..m |-> PartStep(part, n, hh, k)]
            S == {m \in Nat : Runs(m)}
<1>1. Runs(0)
  <2>. DEFINE part == [n \in 0..0 |-> <<>>]
  <2>1. part = [n \in 0..0 |-> PartStep(part, n, hh, k)]
    BY DEF PartStep
  <2>. HIDE DEF part
  <2>. QED  BY <2>1
<1>2. ASSUME NEW m \in Nat, Runs(m) PROVE Runs(m + 1)
  <2>1. PICK part : part = [n \in 0..m |-> PartStep(part, n, hh, k)]
    BY <1>2
  <2>. DEFINE more == [n \in 0..m + 1 |-> PartStep(part, n, hh, k)]
  <2>2. \A n \in 0..m : more[n] = part[n]
    BY <2>1
  <2>3. \A n \in 0..m + 1 : PartStep(part, n, hh, k) = PartStep(more, n, hh, k)
    <3>. SUFFICES ASSUME NEW n \in 0..m + 1, n # 0
                  PROVE  part[n - 1] = more[n - 1]
      BY DEF PartStep
    <3>. QED  BY <2>2
  <2>4. more = [n \in 0..m + 1 |-> PartStep(more, n, hh, k)]
    BY <2>3
  <2>. HIDE DEF more
  <2>. QED  BY <2>4
<1>3. Nat \subseteq S
  <2>1. 0 \in S
    BY <1>1
  <2>2. \A n \in Nat : n \in S => n + 1 \in S
    BY <1>2
  <2>. HIDE DEF S
  <2>. QED  BY <2>1, <2>2, Induction
<1>4. Len(hh) \in S
  BY <1>3
<1>. QED  BY <1>4

(* What is meant to be appended after n heartbeats: those of key k, in their *)
(* order, all of which is only said of a part that is all of them.           *)
PartOf(part, n, hh, k) ==
  /\ part \in Seq(Heartbeat) /\ Len(part) <= n
  /\ \A i \in 1..Len(part) : \E j \in 1..n : part[i] = hh[j] /\ ApiKey[hh[j]] = k
  /\ (\A i \in 1..n : ApiKey[hh[i]] = k) => Len(part) = n /\ \A i \in 1..n : part[i] = hh[i]

(* One more heartbeat keeps that.                                            *)
LEMMA PartGrows ==
  ASSUME NEW hh \in Seq(Heartbeat), NEW k, NEW n \in Nat, n + 1 <= Len(hh),
         NEW part, PartOf(part, n, hh, k)
  PROVE  PartOf(IF ApiKey[hh[n + 1]] = k THEN Append(part, hh[n + 1]) ELSE part, n + 1, hh, k)
<1>. USE DEF PartOf
<1>1. hh[n + 1] \in Heartbeat
  OBVIOUS
<1>2. CASE ApiKey[hh[n + 1]] = k
  <2>. DEFINE more == Append(part, hh[n + 1])
  <2>1. /\ more \in Seq(Heartbeat) /\ Len(more) = Len(part) + 1
        /\ \A i \in 1..Len(part) : more[i] = part[i]
        /\ more[Len(part) + 1] = hh[n + 1]
    BY <1>1
  <2>. HIDE DEF more
  <2>2. \A i \in 1..Len(more) : \E j \in 1..n + 1 : more[i] = hh[j] /\ ApiKey[hh[j]] = k
    <3>. TAKE i \in 1..Len(more)
    <3>1. CASE i = Len(part) + 1
      BY <1>2, <2>1, <3>1
    <3>2. CASE i \in 1..Len(part)
      BY <2>1, <3>2
    <3>. QED  BY <2>1, <3>1, <3>2
  <2>3. (\A i \in 1..n + 1 : ApiKey[hh[i]] = k) =>
          Len(more) = n + 1 /\ \A i \in 1..n + 1 : more[i] = hh[i]
    BY <2>1
  <2>4. PartOf(more, n + 1, hh, k)
    BY <2>1, <2>2, <2>3
  <2>. QED  BY <1>2, <2>4 DEF more
<1>3. CASE ApiKey[hh[n + 1]] # k
  BY <1>3
<1>. QED  BY <1>2, <1>3

(* After n heartbeats the loop has appended that.                            *)
LEMMA PartFacts ==
  ASSUME NEW hh \in Seq(Heartbeat), NEW k, NEW part,
         part = [n \in 0..Len(hh) |-> PartStep(part, n, hh, k)]
  PROVE  PartOf(part[Len(hh)], Len(hh), hh, k)
<1>. DEFINE S == {n \in Nat : n <= Len(hh) => PartOf(part[n], n, hh, k)}
<1>1. 0 \in S
  <2>1. part[0] = <<>>
    BY DEF PartStep
  <2>. QED  BY <2>1 DEF PartOf
<1>2. ASSUME NEW n \in Nat, n \in S PROVE n + 1 \in S
  <2>. SUFFICES ASSUME n + 1 <= Len(hh) PROVE PartOf(part[n + 1], n + 1, hh, k)
    OBVIOUS
  <2>1. PartOf(part[n], n, hh, k)
    BY <1>2
  <2>2. part[n + 1] = PartStep(part, n + 1, hh, k)
    OBVIOUS
  <2>3. part[n + 1] = IF ApiKey[hh[n + 1]] = k THEN Append(part[n], hh[n + 1]) ELSE part[n]
    BY <2>2 DEF PartStep
  <2>. QED  BY <2>1, <2>3, PartGrows
<1>3. Nat \subseteq S
  <2>. HIDE DEF S
  <2>. QED  BY <1>1, <1>2, Induction
<1>4. Len(hh) \in S
  BY <1>3
<1>. QED  BY <1>4

(* The heartbeats of a key are some of the call's, and those of its only key *)
(* are all of them.                                                          *)
LEMMA GroupFacts ==
  ASSUME NEW hh \in Seq(Heartbeat), NEW k
  PROVE  /\ Group(hh, k) \in Seq(Heartbeat) /\ Len(Group(hh, k)) <= Len(hh)
         /\ Range(Group(hh, k)) \subseteq {h \in Range(hh) : ApiKey[h] = k}
         /\ Groups(hh) = {k} => Group(hh, k) = hh
<1>. DEFINE Run(p) == p = [n \in 0..Len(hh) |-> PartStep(p, n, hh, k)]
            part == CHOOSE p : Run(p)
<1>1. Run(part)
  BY PartExists
<1>2. Group(hh, k) = part[Len(hh)]
  BY DEF Group, PartStep
<1>. HIDE DEF part
<1>3. PartOf(Group(hh, k), Len(hh), hh, k)
  BY <1>1, <1>2, PartFacts
<1>4. Groups(hh) = {k} => Group(hh, k) = hh
  <2>. SUFFICES ASSUME Groups(hh) = {k} PROVE Group(hh, k) = hh
    OBVIOUS
  <2>1. ASSUME NEW i \in 1..Len(hh) PROVE ApiKey[hh[i]] = k
    <3>1. ApiKey[hh[i]] \in Groups(hh)
      BY DEF Groups
    <3>. QED  BY <3>1
  <2>2. /\ Group(hh, k) \in Seq(Heartbeat) /\ Len(Group(hh, k)) = Len(hh)
        /\ \A i \in 1..Len(hh) : Group(hh, k)[i] = hh[i]
    BY <1>3, <2>1 DEF PartOf
  <2>. QED  BY <2>2, SeqEqual
<1>. QED  BY <1>3, <1>4 DEF PartOf, Range

(* A call has finitely many keys, and at least one.                          *)
LEMMA GroupsFacts ==
  ASSUME NEW hh \in Seq(Heartbeat)
  PROVE  /\ IsFiniteSet(Groups(hh)) /\ Groups(hh) \subseteq Key
         /\ Capacity(hh) = Cardinality(Groups(hh)) /\ Capacity(hh) \in Nat
         /\ hh = <<>> <=> Groups(hh) = {}
<1>. DEFINE keys == [n \in 1..Len(hh) |-> ApiKey[hh[n]]]
<1>1. keys \in Surjection(1..Len(hh), Groups(hh))
  BY DEF Surjection, Groups
<1>2. IsFiniteSet(1..Len(hh))
  BY FS_Interval
<1>3. IsFiniteSet(Groups(hh))
  <2>. HIDE DEF keys
  <2>. QED  BY <1>1, <1>2, FS_Surjection
<1>4. Groups(hh) \subseteq Key
  BY KeyAssumption DEF Groups
<1>5. hh = <<>> <=> Groups(hh) = {}
  <2>1. ASSUME hh # <<>> PROVE Groups(hh) # {}
    <3>1. ApiKey[hh[1]] \in Groups(hh)
      BY <2>1 DEF Groups
    <3>. QED  BY <3>1
  <2>2. ASSUME hh = <<>> PROVE Groups(hh) = {}
    BY <2>2 DEF Groups
  <2>. QED  BY <2>1, <2>2
<1>. QED  BY <1>3, <1>4, <1>5, FS_CardinalityType DEF Capacity

-----------------------------------------------------------------------------
(* The invariant                                                             *)

(* At first there is no call.                                                *)
LEMMA InvInit == Init => IInv
<1>. SUFFICES ASSUME Init PROVE IInv
  OBVIOUS
<1>. USE KeyAssumption DEF Init
<1>1. TypeOK
  <2>1. <<DefaultKey>> \in Seq(Key)
    OBVIOUS
  <2>. QED  BY <2>1, EmptySeq DEF TypeOK
<1>2. CallInHand
  BY DEF CallInHand
<1>3. OutcomesKnown
  BY DEF OutcomesKnown, NoAnswer
<1>4. ChannelsCarry
  BY DEF ChannelsCarry
<1>5. InnermostDefault
  BY DEF InnermostDefault
<1>. QED  BY <1>1, <1>2, <1>3, <1>4, <1>5 DEF IInv

(* The kinds of answers differ.                                              *)
LEMMA AnswerFacts ==
  /\ NoAnswer # Failure
  /\ \A s : /\ Success(s) # NoAnswer /\ Success(s) # Failure
           /\ Success(s).kind = "results" /\ Success(s).statuses = s
  /\ NoAnswer.kind # "results" /\ Failure.kind # "results"
BY DEF NoAnswer, Failure, Success

(* What an outcome of a request for hh is.                                   *)
LEMMA OutcomeFacts ==
  ASSUME NEW hh \in Seq(Heartbeat), NEW r \in Outcomes(hh)
  PROVE  /\ r # NoAnswer
         /\ r # Failure => r.kind = "results" /\ r = Success(r.statuses)
         /\ r # Failure => r.statuses \in Results(hh)
BY AnswerFacts DEF Outcomes

(* The heartbeats of a call, and of none.                                    *)
LEMMA RequestFacts ==
  ASSUME TypeOK
  PROVE  request \in Seq(Heartbeat) /\ (request \in Request \/ request = <<>>)
<1>1. <<>> \in Seq(Heartbeat)
  OBVIOUS
<1>. QED  BY <1>1, RequestAssumption DEF TypeOK

(* A call starts with nothing in the channels.                               *)
LEMMA CallInv == IInv /\ Call => IInv'
<1>. SUFFICES ASSUME IInv, Call PROVE IInv'
  OBVIOUS
<1>1. request' \in Seq(Heartbeat) /\ request' \in Request
  BY RequestAssumption DEF Call
<1>2. /\ sender' \in [Key -> {"none", "send", "auth"}]
      /\ \A k \in Key : sender'[k] # "none" <=> k \in Groups(request')
      /\ pc' \in {"single", "wait"} /\ (pc' = "single" => Single')
  BY DEF Call, Single
<1>3. TypeOK'
  BY <1>1, <1>2, EmptySeq DEF IInv, TypeOK, Call
<1>4. CallInHand'
  <2>1. {k \in Key : sender'[k] # "none"} = Groups(request')
    BY <1>1, <1>2, GroupsFacts
  <2>. QED  BY <1>1, <1>2, <2>1 DEF CallInHand, Call
<1>5. OutcomesKnown'
  BY <1>2, AnswerFacts DEF OutcomesKnown, Call
<1>6. ChannelsCarry'
  <2>1. ErrorsPut' = {} /\ ResultsPut' = {}
    BY <1>2 DEF ErrorsPut, ResultsPut
  <2>2. cherr' = <<>> /\ chres' = <<>>
    BY DEF Call
  <2>. QED  BY <2>1, <2>2, FS_EmptySet DEF ChannelsCarry
<1>7. InnermostDefault'
  BY <1>2 DEF IInv, InnermostDefault, Call
<1>. QED  BY <1>3, <1>4, <1>5, <1>6, <1>7 DEF IInv

(* A goroutine that wraps doFunc is still to put its values.                 *)
LEMMA WrapInv == \A k \in Key : IInv /\ (ReadDoFunc(k) \/ WrapDoFunc(k)) => IInv'
<1>. SUFFICES ASSUME NEW k \in Key, IInv, ReadDoFunc(k) \/ WrapDoFunc(k) PROVE IInv'
  OBVIOUS
<1>. USE DEF IInv
<1>1. /\ sender[k] \in {"auth", "wrap"} /\ sender' = [sender EXCEPT ![k] = sender'[k]]
      /\ sender'[k] \in {"wrap", "send"}
      /\ UNCHANGED <<pc, request, answer, outcome, cherr, chres, open, stored, sentWith>>
  BY DEF ReadDoFunc, WrapDoFunc, TypeOK
<1>2. /\ doFunc' \in Seq(Key) /\ doFunc' # <<>> /\ doFunc'[Len(doFunc')] = DefaultKey
      /\ seen' \in [Key -> Seq(Key)]
      /\ \A j \in Key : sender'[j] = "wrap" => seen'[j] # <<>> /\ seen'[j][Len(seen'[j])] = DefaultKey
  <2>1. CASE ReadDoFunc(k)
    BY <2>1 DEF ReadDoFunc, TypeOK, InnermostDefault
  <2>2. CASE WrapDoFunc(k)
    <3>1. doFunc' = <<k>> \o seen[k] /\ seen[k] \in Seq(Key)
      BY <2>2 DEF WrapDoFunc, TypeOK
    <3>2. seen[k] # <<>> /\ seen[k][Len(seen[k])] = DefaultKey
      BY <2>2 DEF WrapDoFunc, InnermostDefault
    <3>3. doFunc' \in Seq(Key) /\ doFunc' # <<>> /\ doFunc'[Len(doFunc')] = DefaultKey
      BY <3>1, <3>2
    <3>4. \A j \in Key : sender'[j] = "wrap" => j # k /\ sender[j] = "wrap" /\ seen'[j] = seen[j]
      BY <2>2 DEF WrapDoFunc, TypeOK
    <3>5. seen' \in [Key -> Seq(Key)]
      BY <2>2, EmptySeq DEF WrapDoFunc, TypeOK
    <3>. QED  BY <3>3, <3>4, <3>5 DEF InnermostDefault
  <2>. QED  BY <2>1, <2>2
<1>3. TypeOK'
  BY <1>1, <1>2 DEF TypeOK
<1>4. CallInHand'
  BY <1>1 DEF CallInHand, TypeOK, Single
<1>5. OutcomesKnown'
  BY <1>1 DEF OutcomesKnown, TypeOK
<1>6. ChannelsCarry'
  <2>1. ErrorsPut' = ErrorsPut /\ ResultsPut' = ResultsPut
    BY <1>1 DEF ErrorsPut, ResultsPut, TypeOK
  <2>. QED  BY <1>1, <2>1 DEF ChannelsCarry
<1>7. InnermostDefault'
  BY <1>2 DEF InnermostDefault
<1>. QED  BY <1>3, <1>4, <1>5, <1>6, <1>7

(* A request gives its sender an outcome, and the API stores no more than    *)
(* heartbeats of the call.                                                   *)
LEMMA SendInv == \A k \in Key : IInv /\ Send(k) => IInv'
<1>. SUFFICES ASSUME NEW k \in Key, IInv, Send(k) PROVE IInv'
  OBVIOUS
<1>. USE DEF IInv
<1>. DEFINE hh == Group(request, k)
<1>1. request \in Seq(Heartbeat) /\ hh \in Seq(Heartbeat)
  BY RequestFacts, GroupFacts
<1>2. PICK r \in Outcomes(hh), S \in SUBSET Range(hh) :
        /\ r.kind = "results" => \A n \in DOMAIN hh \cap DOMAIN r.statuses :
                                   (r.statuses[n] = "ok") <=> (hh[n] \in S)
        /\ outcome' = [outcome EXCEPT ![k] = r]
        /\ stored' = stored \cup S
  BY DEF Send
<1>3. /\ sender[k] = "send" /\ sender' = [sender EXCEPT ![k] = "put"]
      /\ UNCHANGED <<pc, request, answer, seen, doFunc, cherr, chres, open>>
      /\ sentWith' = [h \in Heartbeat |->
                        IF h \in Range(hh) THEN sentWith[h] \cup {Authorization} ELSE sentWith[h]]
  BY DEF Send
<1>4. Range(hh) \subseteq Heartbeat
  BY <1>1 DEF Range
<1>5. Authorization \in Key
  BY KeyAssumption DEF Authorization, InnermostDefault
<1>. HIDE DEF hh
<1>6. TypeOK'
  BY <1>2, <1>3, <1>4, <1>5 DEF TypeOK, hh
<1>7. CallInHand'
  BY <1>3 DEF CallInHand, TypeOK, Single
<1>8. OutcomesKnown'
  <2>1. r # NoAnswer
    BY <1>1, <1>2, OutcomeFacts
  <2>2. pc \notin {"idle", "end"}
    BY <1>3 DEF CallInHand
  <2>3. \A j \in Key : outcome'[j] = IF j = k THEN r ELSE outcome[j]
    BY <1>2 DEF TypeOK
  <2>4. \A j \in Key : sender'[j] = IF j = k THEN "put" ELSE sender[j]
    BY <1>3 DEF TypeOK
  <2>5. ASSUME NEW j \in Key, outcome'[j].kind = "results",
               NEW n \in DOMAIN Group(request, j) \cap DOMAIN outcome'[j].statuses,
               outcome'[j].statuses[n] = "ok"
        PROVE  Group(request, j)[n] \in stored'
    BY <1>2, <2>3, <2>5 DEF OutcomesKnown, hh
  <2>. QED  BY <1>3, <2>1, <2>2, <2>3, <2>4, <2>5 DEF OutcomesKnown
<1>9. ChannelsCarry'
  <2>1. k \notin ErrorsPut \cup ResultsPut /\ ErrorsPut' = ErrorsPut /\ ResultsPut' = ResultsPut
    BY <1>2, <1>3 DEF ErrorsPut, ResultsPut, TypeOK
  <2>2. \A j \in Key \ {k} : outcome'[j] = outcome[j]
    BY <1>2 DEF TypeOK
  <2>3. ErrorsPut \cup ResultsPut \subseteq Key \ {k}
    BY <2>1 DEF ErrorsPut, ResultsPut
  <2>. QED  BY <1>3, <2>1, <2>2, <2>3 DEF ChannelsCarry
<1>10. InnermostDefault'
  BY <1>3 DEF InnermostDefault, TypeOK
<1>. QED  BY <1>6, <1>7, <1>8, <1>9, <1>10

(* A channel with one more value, and with one less.                         *)
LEMMA ChannelFacts ==
  ASSUME NEW S, NEW c \in Seq(S)
  PROVE  /\ Len(c) \in Nat /\ DOMAIN c = 1..Len(c)
         /\ \A e \in S :
              /\ Append(c, e) \in Seq(S) /\ Len(Append(c, e)) = Len(c) + 1
              /\ DOMAIN Append(c, e) = 1..Len(c) + 1
              /\ \A i \in 1..Len(c) : Append(c, e)[i] = c[i]
              /\ Append(c, e)[Len(c) + 1] = e
         /\ c # <<>> =>
              /\ Tail(c) \in Seq(S)
              /\ \A i \in DOMAIN Tail(c) : i + 1 \in DOMAIN c /\ Tail(c)[i] = c[i + 1]
              /\ Head(c) = c[1] /\ 1 \in DOMAIN c /\ Head(c) \in S
<1>1. Len(c) \in Nat /\ DOMAIN c = 1..Len(c)
  OBVIOUS
<1>2. ASSUME NEW e \in S
      PROVE  /\ Append(c, e) \in Seq(S) /\ Len(Append(c, e)) = Len(c) + 1
             /\ DOMAIN Append(c, e) = 1..Len(c) + 1
             /\ \A i \in 1..Len(c) : Append(c, e)[i] = c[i]
             /\ Append(c, e)[Len(c) + 1] = e
  OBVIOUS
<1>3. ASSUME c # <<>>
      PROVE  /\ Tail(c) \in Seq(S)
             /\ \A i \in DOMAIN Tail(c) : i + 1 \in DOMAIN c /\ Tail(c)[i] = c[i + 1]
             /\ Head(c) = c[1] /\ 1 \in DOMAIN c /\ Head(c) \in S
  <2>1. Tail(c) \in Seq(S) /\ Len(Tail(c)) = Len(c) - 1 /\ Len(c) > 0
    BY <1>3
  <2>2. DOMAIN Tail(c) = 1..Len(c) - 1 /\ \A i \in 1..Len(c) - 1 : Tail(c)[i] = c[i + 1]
    BY <1>3, <2>1
  <2>. QED  BY <1>3, <2>1, <2>2
<1>. QED  BY <1>1, <1>2, <1>3

(* Those who have put a value are senders of the call.                       *)
LEMMA PutFacts ==
  ASSUME IInv, pc \in {"single", "wait"}
  PROVE  /\ ErrorsPut \subseteq Groups(request) /\ IsFiniteSet(ErrorsPut)
         /\ ResultsPut \subseteq Groups(request) /\ IsFiniteSet(ResultsPut)
         /\ IsFiniteSet(Groups(request)) /\ Capacity(request) = Cardinality(Groups(request))
<1>1. ErrorsPut \subseteq Groups(request) /\ ResultsPut \subseteq Groups(request)
  BY DEF IInv, CallInHand, ErrorsPut, ResultsPut
<1>2. IsFiniteSet(Groups(request)) /\ Capacity(request) = Cardinality(Groups(request))
  BY RequestFacts, GroupsFacts DEF IInv
<1>. QED  BY <1>1, <1>2, FS_Subset

(* A sender that puts its error is one more that has.                         *)
LEMMA PutErrorPuts ==
  ASSUME NEW k \in Key, IInv, Put(k), (outcome[k] = Failure) <=> (sender[k] = "put")
  PROVE  /\ k \notin ErrorsPut /\ ErrorsPut' = ErrorsPut \cup {k} /\ ResultsPut' = ResultsPut
         /\ \E e \in BOOLEAN : (e <=> outcome[k] = Failure) /\ cherr' = Append(cherr, e)
         /\ chres' = chres
<1>1. sender[k] \in {"put", "put second"} /\ UNCHANGED outcome
  BY DEF Put
<1>2. \A j \in Key : sender'[j] = IF j # k THEN sender[j]
                                   ELSE IF sender[k] = "put" THEN "put second" ELSE "done"
  BY DEF Put, IInv, TypeOK
<1>3. k \notin ErrorsPut
  BY <1>1 DEF ErrorsPut
<1>4. ErrorsPut' = ErrorsPut \cup {k} /\ ResultsPut' = ResultsPut
  BY <1>1, <1>2 DEF ErrorsPut, ResultsPut
<1>5. PutError(k)
  BY DEF Put
<1>. QED  BY <1>3, <1>4, <1>5 DEF PutError

(* So is one that puts its result.                                           *)
LEMMA PutResultPuts ==
  ASSUME NEW k \in Key, IInv, Put(k), ~((outcome[k] = Failure) <=> (sender[k] = "put"))
  PROVE  /\ k \notin ResultsPut /\ ResultsPut' = ResultsPut \cup {k} /\ ErrorsPut' = ErrorsPut
         /\ \E s : /\ s = IF outcome[k] = Failure THEN <<>> ELSE outcome[k].statuses
                 /\ chres' = Append(chres, s)
         /\ cherr' = cherr
<1>1. sender[k] \in {"put", "put second"} /\ UNCHANGED outcome
  BY DEF Put
<1>2. \A j \in Key : sender'[j] = IF j # k THEN sender[j]
                                   ELSE IF sender[k] = "put" THEN "put second" ELSE "done"
  BY DEF Put, IInv, TypeOK
<1>3. k \notin ResultsPut
  BY <1>1 DEF ResultsPut
<1>4. ResultsPut' = ResultsPut \cup {k} /\ ErrorsPut' = ErrorsPut
  BY <1>1, <1>2 DEF ErrorsPut, ResultsPut
<1>5. PutResult(k)
  BY DEF Put
<1>. QED  BY <1>3, <1>4, <1>5 DEF PutResult

(* Results for the heartbeats of a key are not longer than those of a call.  *)
LEMMA ResultsFacts ==
  ASSUME NEW hh \in Seq(Heartbeat), NEW k
  PROVE  Results(Group(hh, k)) \subseteq Results(hh) /\ <<>> \in Results(hh)
<1>1. Len(Group(hh, k)) \in 0..Len(hh)
  BY GroupFacts
<1>2. Results(Group(hh, k)) \subseteq Results(hh)
  BY <1>1 DEF Results
<1>3. <<>> \in [1..0 -> Status] /\ 0 \in 0..Len(hh) + 1
  OBVIOUS
<1>. QED  BY <1>2, <1>3 DEF Results

(* A value in a channel is one more value, of one more sender.               *)
LEMMA PutInv == \A k \in Key : IInv /\ Put(k) => IInv'
<1>. SUFFICES ASSUME NEW k \in Key, IInv, Put(k) PROVE IInv'
  OBVIOUS
<1>. USE DEF IInv
<1>1. /\ sender[k] \in {"put", "put second"}
      /\ sender' = [sender EXCEPT ![k] = sender'[k]] /\ sender'[k] \in {"put second", "done"}
      /\ UNCHANGED <<pc, request, answer, seen, outcome, doFunc, open, stored, sentWith>>
  BY DEF Put, TypeOK
<1>2. pc \in {"single", "wait"} /\ request \in Seq(Heartbeat)
  BY <1>1, RequestFacts DEF CallInHand
<1>3. outcome[k] \in Outcomes(Group(request, k)) /\ Group(request, k) \in Seq(Heartbeat)
  BY <1>1, <1>2, GroupFacts DEF OutcomesKnown, TypeOK
<1>4. (IF outcome[k] = Failure THEN <<>> ELSE outcome[k].statuses) \in Results(request)
  BY <1>2, <1>3, OutcomeFacts, ResultsFacts
<1>. DEFINE errorPut == (outcome[k] = Failure) <=> (sender[k] = "put")
<1>5. ASSUME errorPut
      PROVE  ChannelsCarry' /\ cherr' \in Seq(BOOLEAN) /\ chres' \in Seq(Results(request))
  <2>1. PICK e \in BOOLEAN : (e <=> outcome[k] = Failure) /\ cherr' = Append(cherr, e)
    BY <1>5, PutErrorPuts
  <2>2. /\ ErrorsPut' = ErrorsPut \cup {k} /\ ResultsPut' = ResultsPut /\ chres' = chres
        /\ Cardinality(ErrorsPut') = Cardinality(ErrorsPut) + 1
    BY <1>2, <1>5, PutErrorPuts, PutFacts, FS_AddElement
  <2>3. /\ cherr' \in Seq(BOOLEAN) /\ Len(cherr') = Len(cherr) + 1
        /\ Len(cherr) \in Nat /\ DOMAIN cherr = 1..Len(cherr) /\ DOMAIN cherr' = 1..Len(cherr) + 1
        /\ \A i \in 1..Len(cherr) : cherr'[i] = cherr[i]
        /\ cherr'[Len(cherr) + 1] = e
    <3>1. cherr \in Seq(BOOLEAN)
      BY DEF TypeOK
    <3>. QED  BY <2>1, <3>1, ChannelFacts
  <2>4. \A i \in DOMAIN cherr' : \E j \in ErrorsPut' : cherr'[i] <=> outcome'[j] = Failure
    <3>. TAKE i \in DOMAIN cherr'
    <3>1. CASE i = Len(cherr) + 1
      BY <1>1, <2>1, <2>2, <2>3, <3>1
    <3>2. CASE i \in DOMAIN cherr
      <4>1. PICK j \in ErrorsPut : cherr[i] <=> outcome[j] = Failure
        BY <3>2 DEF ChannelsCarry
      <4>2. j \in ErrorsPut' /\ cherr'[i] = cherr[i] /\ outcome'[j] = outcome[j]
        BY <1>1, <2>2, <2>3, <3>2
      <4>. QED  BY <4>1, <4>2
    <3>. QED  BY <2>3, <3>1, <3>2
  <2>5. ChannelsCarry'
    BY <1>1, <1>2, <2>2, <2>3, <2>4 DEF ChannelsCarry
  <2>. QED  BY <2>2, <2>3, <2>5 DEF TypeOK
<1>6. ASSUME ~errorPut
      PROVE  ChannelsCarry' /\ cherr' \in Seq(BOOLEAN) /\ chres' \in Seq(Results(request))
  <2>1. PICK s \in Results(request) :
          (outcome[k] # Failure => s = outcome[k].statuses) /\ chres' = Append(chres, s)
    BY <1>4, <1>6, PutResultPuts
  <2>2. /\ ResultsPut' = ResultsPut \cup {k} /\ ErrorsPut' = ErrorsPut /\ cherr' = cherr
        /\ Cardinality(ResultsPut') = Cardinality(ResultsPut) + 1
    BY <1>2, <1>6, PutResultPuts, PutFacts, FS_AddElement
  <2>3. /\ chres' \in Seq(Results(request)) /\ Len(chres') = Len(chres) + 1
        /\ Len(chres) \in Nat /\ DOMAIN chres = 1..Len(chres) /\ DOMAIN chres' = 1..Len(chres) + 1
        /\ \A i \in 1..Len(chres) : chres'[i] = chres[i]
        /\ chres'[Len(chres) + 1] = s
    <3>1. chres \in Seq(Results(request))
      BY DEF TypeOK
    <3>. QED  BY <2>1, <3>1, ChannelFacts
  <2>4. \A i \in DOMAIN chres' : \E j \in ResultsPut' :
          outcome'[j] # Failure => chres'[i] = outcome'[j].statuses
    <3>. TAKE i \in DOMAIN chres'
    <3>1. CASE i = Len(chres) + 1
      BY <1>1, <2>1, <2>2, <2>3, <3>1
    <3>2. CASE i \in DOMAIN chres
      <4>1. PICK j \in ResultsPut : outcome[j] # Failure => chres[i] = outcome[j].statuses
        BY <3>2 DEF ChannelsCarry
      <4>2. j \in ResultsPut' /\ chres'[i] = chres[i] /\ outcome'[j] = outcome[j]
        BY <1>1, <2>2, <2>3, <3>2
      <4>. QED  BY <4>1, <4>2
    <3>. QED  BY <2>3, <3>1, <3>2
  <2>5. ChannelsCarry'
    BY <1>1, <1>2, <2>2, <2>3, <2>4 DEF ChannelsCarry
  <2>. QED  BY <2>2, <2>3, <2>5 DEF TypeOK
<1>7. ChannelsCarry' /\ cherr' \in Seq(BOOLEAN) /\ chres' \in Seq(Results(request))
  BY <1>5, <1>6
<1>8. TypeOK'
  BY <1>1, <1>7 DEF TypeOK
<1>9. CallInHand'
  BY <1>1, <1>2 DEF CallInHand, TypeOK, Single
<1>10. OutcomesKnown'
  BY <1>1, <1>2 DEF OutcomesKnown, TypeOK
<1>11. InnermostDefault'
  BY <1>1 DEF InnermostDefault, TypeOK
<1>. QED  BY <1>7, <1>8, <1>9, <1>10, <1>11

(* wg.Wait leaves the channels as they are.                                  *)
LEMMA WaitInv == IInv /\ Wait => IInv'
<1>. SUFFICES ASSUME IInv, Wait PROVE IInv'
  OBVIOUS
<1>. USE DEF IInv, Wait
<1>1. TypeOK'
  BY DEF TypeOK
<1>2. CallInHand'
  BY DEF CallInHand, Single
<1>3. OutcomesKnown'
  BY DEF OutcomesKnown
<1>4. ChannelsCarry'
  BY DEF ChannelsCarry, ErrorsPut, ResultsPut
<1>5. InnermostDefault'
  BY DEF InnermostDefault
<1>. QED  BY <1>1, <1>2, <1>3, <1>4, <1>5

(* The caller takes an error from the channel.                               *)
LEMMA ReceiveInv == IInv /\ ReceiveError => IInv'
<1>. SUFFICES ASSUME IInv, ReceiveError PROVE IInv'
  OBVIOUS
<1>. USE DEF IInv, ReceiveError
<1>1. /\ pc = "errors" /\ pc' \in {"errors", "return"} /\ cherr # <<>>
      /\ answer' = IF pc' = "return" THEN Failure ELSE answer
      /\ cherr' = Tail(cherr) /\ cherr \in Seq(BOOLEAN)
      /\ UNCHANGED <<request, sender, seen, outcome, doFunc, chres, open, stored, sentWith>>
  BY DEF Answer, TypeOK
<1>. HIDE DEF IInv, ReceiveError
<1>2. /\ cherr' \in Seq(BOOLEAN)
      /\ \A i \in DOMAIN cherr' : i + 1 \in DOMAIN cherr /\ cherr'[i] = cherr[i + 1]
  BY <1>1, ChannelFacts
<1>. USE DEF IInv
<1>3. TypeOK'
  BY <1>1, <1>2 DEF TypeOK
<1>4. CallInHand'
  BY <1>1, AnswerFacts DEF CallInHand, Single
<1>5. OutcomesKnown'
  BY <1>1 DEF OutcomesKnown
<1>6. ChannelsCarry'
  <2>1. ErrorsPut' = ErrorsPut /\ ResultsPut' = ResultsPut
    BY <1>1 DEF ErrorsPut, ResultsPut
  <2>. QED  BY <1>1, <1>2, <2>1 DEF ChannelsCarry
<1>7. InnermostDefault'
  BY <1>1 DEF InnermostDefault
<1>. QED  BY <1>3, <1>4, <1>5, <1>6, <1>7

(* The deferred calls, when nobody uses the channels any more.               *)
LEMMA ReturnInv == IInv /\ Return => IInv'
<1>. SUFFICES ASSUME IInv, Return PROVE IInv'
  OBVIOUS
<1>. USE DEF IInv, Return
<1>1. TypeOK'
  BY EmptySeq DEF TypeOK
<1>2. CallInHand'
  BY DEF CallInHand, Single
<1>3. OutcomesKnown'
  BY AnswerFacts DEF OutcomesKnown
<1>4. ChannelsCarry'
  <2>1. cherr' = <<>> /\ chres' = <<>> /\ pc' \in {"idle", "end"}
    OBVIOUS
  <2>. QED  BY <2>1 DEF ChannelsCarry
<1>5. InnermostDefault'
  BY DEF InnermostDefault
<1>. QED  BY <1>1, <1>2, <1>3, <1>4, <1>5

(* The answer to a call for a single key is what its sender got.             *)
LEMMA SingleAnswer ==
  ASSUME IInv, AnswerSingle
  PROVE  \E k \in Key :
           /\ Group(request, k) = request /\ sender[k] = "done"
           /\ \A j \in Key : j # k => sender[j] = "none"
           /\ answer' = outcome[k] /\ outcome[k] \in Outcomes(request)
<1>. USE DEF IInv
<1>1. /\ pc = "single" /\ chres # <<>> /\ cherr # <<>>
      /\ answer' = IF Head(cherr) THEN Failure ELSE Success(Head(chres))
  BY DEF AnswerSingle, Answer
<1>2. request \in Seq(Heartbeat) /\ {k \in Key : sender[k] # "none"} = Groups(request)
  BY <1>1, RequestFacts DEF CallInHand
<1>3. PICK k : Groups(request) = {k}
  <2>1. Cardinality(Groups(request)) = 1 /\ IsFiniteSet(Groups(request))
    BY <1>1, <1>2, GroupsFacts DEF CallInHand, Single
  <2>. QED  BY <2>1, FS_Singleton
<1>4. k \in Key /\ Group(request, k) = request /\ \A j \in Key : j # k => sender[j] = "none"
  BY <1>2, <1>3, GroupFacts
<1>5. cherr \in Seq(BOOLEAN) /\ chres \in Seq(Results(request))
  BY DEF TypeOK
<1>6. Len(cherr) # 0 /\ Len(chres) # 0
  BY <1>1, <1>5, EmptySeq
<1>7. ErrorsPut = {k} /\ ResultsPut = {k}
  <2>1. ErrorsPut \subseteq {k} /\ ResultsPut \subseteq {k}
    BY <1>1, <1>3, PutFacts
  <2>2. ErrorsPut # {} /\ ResultsPut # {}
    BY <1>1, <1>6, FS_EmptySet DEF ChannelsCarry
  <2>. QED  BY <2>1, <2>2
<1>8. sender[k] = "done"
  BY <1>7 DEF ErrorsPut, ResultsPut
<1>9. outcome[k] \in Outcomes(request)
  BY <1>1, <1>4, <1>8 DEF OutcomesKnown, TypeOK
<1>10. /\ Head(cherr) <=> outcome[k] = Failure
       /\ outcome[k] # Failure => Head(chres) = outcome[k].statuses
  <2>1. Head(cherr) = cherr[1] /\ 1 \in DOMAIN cherr
    BY <1>1, <1>5, ChannelFacts
  <2>2. Head(chres) = chres[1] /\ 1 \in DOMAIN chres
    BY <1>1, <1>5, ChannelFacts
  <2>. QED  BY <1>7, <2>1, <2>2 DEF ChannelsCarry
<1>11. answer' = outcome[k]
  BY <1>1, <1>2, <1>9, <1>10, OutcomeFacts
<1>. QED  BY <1>4, <1>8, <1>9, <1>11

(* The caller takes the answer for the single key.                           *)
LEMMA SingleInv == IInv /\ AnswerSingle => IInv'
<1>. SUFFICES ASSUME IInv, AnswerSingle PROVE IInv'
  OBVIOUS
<1>1. PICK k \in Key :
        /\ sender[k] = "done" /\ \A j \in Key : j # k => sender[j] = "none"
        /\ answer' = outcome[k] /\ outcome[k] \in Outcomes(request)
  BY SingleAnswer
<1>. USE DEF IInv
<1>2. /\ pc = "single" /\ pc' = "return" /\ chres # <<>> /\ cherr # <<>>
      /\ chres' = Tail(chres) /\ cherr' = Tail(cherr)
      /\ UNCHANGED <<request, sender, seen, outcome, doFunc, open, stored, sentWith>>
  BY DEF AnswerSingle, Answer
<1>3. cherr \in Seq(BOOLEAN) /\ chres \in Seq(Results(request))
  BY DEF TypeOK
<1>4. /\ cherr' \in Seq(BOOLEAN)
      /\ \A i \in DOMAIN cherr' : i + 1 \in DOMAIN cherr /\ cherr'[i] = cherr[i + 1]
  BY <1>2, <1>3, ChannelFacts
<1>5. /\ chres' \in Seq(Results(request))
      /\ \A i \in DOMAIN chres' : i + 1 \in DOMAIN chres /\ chres'[i] = chres[i + 1]
  BY <1>2, <1>3, ChannelFacts
<1>6. TypeOK'
  BY <1>1, <1>2, <1>4, <1>5 DEF TypeOK
<1>7. CallInHand'
  <2>1. answer' # NoAnswer
    BY <1>1, RequestFacts, OutcomeFacts
  <2>. QED  BY <1>1, <1>2, <2>1 DEF CallInHand, Single
<1>8. OutcomesKnown'
  BY <1>2 DEF OutcomesKnown
<1>9. ChannelsCarry'
  <2>1. ErrorsPut' = ErrorsPut /\ ResultsPut' = ResultsPut
    BY <1>2 DEF ErrorsPut, ResultsPut
  <2>2. \A i \in DOMAIN cherr' : \E j \in ErrorsPut' : cherr'[i] <=> outcome'[j] = Failure
    BY <1>2, <1>4, <2>1 DEF ChannelsCarry
  <2>3. \A i \in DOMAIN chres' : \E j \in ResultsPut' :
          outcome'[j] # Failure => chres'[i] = outcome'[j].statuses
    BY <1>2, <1>5, <2>1 DEF ChannelsCarry
  <2>. QED  BY <1>2, <2>2, <2>3 DEF ChannelsCarry
<1>10. InnermostDefault'
  BY <1>2 DEF InnermostDefault
<1>. QED  BY <1>6, <1>7, <1>8, <1>9, <1>10

(* Every step keeps the invariant.                                           *)
LEMMA InvNext == IInv /\ [Next]_vars => IInv'
<1>. SUFFICES ASSUME IInv, [Next]_vars PROVE IInv'
  OBVIOUS
<1>1. CASE Call
  BY <1>1, CallInv
<1>2. CASE Caller
  BY <1>2, SingleInv, WaitInv, ReceiveInv, ReturnInv DEF Caller
<1>3. ASSUME NEW k \in Key, Sender(k) PROVE IInv'
  BY <1>3, WrapInv, SendInv, PutInv DEF Sender
<1>4. CASE UNCHANGED vars
  <2>1. TypeOK'
    BY <1>4 DEF vars, IInv, TypeOK
  <2>2. CallInHand'
    BY <1>4 DEF vars, IInv, CallInHand, Single
  <2>3. OutcomesKnown'
    BY <1>4 DEF vars, IInv, OutcomesKnown
  <2>4. ChannelsCarry'
    BY <1>4 DEF vars, IInv, ChannelsCarry, ErrorsPut, ResultsPut
  <2>5. InnermostDefault'
    BY <1>4 DEF vars, IInv, InnermostDefault
  <2>. QED  BY <2>1, <2>2, <2>3, <2>4, <2>5 DEF IInv
<1>. QED  BY <1>1, <1>2, <1>3, <1>4 DEF Next

(* The inductive invariant.                                                  *)
THEOREM SendInvariant == Spec => []IInv
<1>. QED  BY InvInit, InvNext, PTL DEF Spec

-----------------------------------------------------------------------------
(* The channels                                                              *)

(* What is not more, and not the same, is less.                              *)
LEMMA Less == \A a, b \in Nat : a <= b /\ a # b => a < b
OBVIOUS

(* No goroutine outlives the call, and whoever has something to put finds    *)
(* the channels open, and room in them for all that is still to be put.      *)
LEMMA InvChannels == IInv => ChannelsHold
<1>. SUFFICES ASSUME IInv PROVE ChannelsHold
  OBVIOUS
<1>. DEFINE putting == {k \in Key : sender[k] \in {"auth", "wrap", "send", "put", "put second"}}
<1>1. ASSUME NEW k \in putting
      PROVE  /\ open
             /\ sender[k] # "put second" =>
                  Len(cherr) < Capacity(request) /\ Len(chres) < Capacity(request)
  <2>1. pc \in {"single", "wait"} /\ open /\ k \in Groups(request)
    BY DEF IInv, TypeOK, CallInHand
  <2>2. ASSUME sender[k] # "put second"
        PROVE  Len(cherr) < Capacity(request) /\ Len(chres) < Capacity(request)
    <3>1. k \notin ErrorsPut /\ k \notin ResultsPut
      BY <2>2 DEF ErrorsPut, ResultsPut
    <3>2. ASSUME NEW S \in SUBSET Groups(request), k \notin S
          PROVE  Cardinality(S) < Capacity(request)
      <4>1. IsFiniteSet(Groups(request)) /\ Capacity(request) = Cardinality(Groups(request))
        BY <2>1, PutFacts
      <4>2. /\ IsFiniteSet(S) /\ Cardinality(S) <= Cardinality(Groups(request))
            /\ Cardinality(S) # Cardinality(Groups(request))
        BY <2>1, <3>2, <4>1, FS_Subset
      <4>3. Cardinality(S) \in Nat /\ Cardinality(Groups(request)) \in Nat
        BY <4>1, <4>2, FS_CardinalityType
      <4>5. Cardinality(S) < Cardinality(Groups(request))
        BY <4>2, <4>3, Less
      <4>. QED  BY <4>1, <4>5
    <3>. QED  BY <2>1, <3>1, <3>2, PutFacts DEF IInv, ChannelsCarry
  <2>. QED  BY <2>1, <2>2
<1>. QED  BY <1>1 DEF ChannelsHold, IInv

(* The channels of SendHeartbeats neither overflow nor outlive their users.  *)
THEOREM ChannelsNeverOverflow == Spec => []ChannelsHold
<1>. QED  BY SendInvariant, InvChannels, PTL
-----------------------------------------------------------------------------
(* The answers                                                               *)

(* While a call has its answer nobody sends for it any more.                 *)
LEMMA AnswerStays ==
  ASSUME IInv, [Next]_vars, answer # NoAnswer, answer' # NoAnswer
  PROVE  UNCHANGED <<answer, request, outcome, stored>>
<1>1. pc = "return" /\ \A k \in Key : sender[k] \in {"none", "done"}
  BY DEF IInv, CallInHand
<1>2. ~Call /\ ~AnswerSingle /\ ~Wait /\ ~ReceiveError
  BY <1>1 DEF Call, AnswerSingle, Wait, ReceiveError
<1>3. ~Return
  BY DEF Return
<1>4. \A k \in Key : ~Sender(k)
  BY <1>1 DEF Sender, ReadDoFunc, WrapDoFunc, Send, Put
<1>. QED  BY <1>2, <1>3, <1>4 DEF Next, Caller, vars

(* A call for one key has what its sender got for an answer, and a call for  *)
(* more of them the failure of one of its senders.                           *)
LEMMA AnswerComes ==
  ASSUME IInv, [Next]_vars, answer = NoAnswer, answer' # NoAnswer
  PROVE  AnswerSingle \/ (ReceiveError /\ answer' = Failure /\ Head(cherr))
<1>1. ~Call /\ ~Wait /\ ~Return /\ ~UNCHANGED vars
  BY DEF Call, Wait, Return, vars
<1>2. \A k \in Key : ~Sender(k)
  BY DEF Sender, ReadDoFunc, WrapDoFunc, Send, Put
<1>3. ReceiveError => answer' = Failure /\ Head(cherr)
  BY DEF ReceiveError, Answer
<1>. QED  BY <1>1, <1>2, <1>3 DEF Next, Caller

(* The first error in the channel is that of one of the call's senders.      *)
LEMMA FirstError ==
  ASSUME IInv, cherr # <<>>, Head(cherr)
  PROVE  \E k \in Key : outcome[k] = Failure
<1>1. cherr \in Seq(BOOLEAN)
  BY DEF IInv, TypeOK
<1>2. Head(cherr) = cherr[1] /\ 1 \in DOMAIN cherr
  BY <1>1, ChannelFacts
<1>3. \E k \in ErrorsPut : cherr[1] <=> outcome[k] = Failure
  BY <1>2 DEF IInv, ChannelsCarry
<1>. QED  BY <1>2, <1>3 DEF ErrorsPut

(* Every step keeps the answer faithful.                                     *)
LEMMA AnswerNext == IInv /\ AnswerFaithful /\ [Next]_vars => AnswerFaithful'
<1>. SUFFICES ASSUME IInv, AnswerFaithful, [Next]_vars, answer' # NoAnswer
              PROVE  AnswerFaithful'
  BY AnswerFacts DEF AnswerFaithful, NoAnswer
<1>1. CASE answer # NoAnswer
  BY <1>1, AnswerStays DEF AnswerFaithful, Failure, NoAnswer
<1>2. CASE AnswerSingle
  <2>1. PICK k \in Key :
          /\ Group(request, k) = request /\ sender[k] = "done"
          /\ \A j \in Key : j # k => sender[j] = "none"
          /\ answer' = outcome[k] /\ outcome[k] \in Outcomes(request)
    BY <1>2, SingleAnswer
  <2>2. UNCHANGED <<request, outcome, stored>>
    BY <1>2 DEF AnswerSingle
  <2>3. \A j \in Key : j # k => outcome[j] = NoAnswer
    BY <2>1 DEF IInv, OutcomesKnown
  <2>4. answer' = Failure <=> \E j \in Key : outcome[j] = Failure
    BY <2>1, <2>3, AnswerFacts
  <2>5. ASSUME answer' # Failure, NEW n \in DOMAIN request \cap DOMAIN answer'.statuses,
               answer'.statuses[n] = "ok"
        PROVE  request[n] \in stored
    <3>1. outcome[k].kind = "results"
      BY <2>1, <2>5, RequestFacts, OutcomeFacts DEF IInv
    <3>. QED  BY <2>1, <2>5, <3>1 DEF IInv, OutcomesKnown
  <2>. QED  BY <2>2, <2>4, <2>5 DEF AnswerFaithful, Failure, NoAnswer
<1>3. CASE ReceiveError /\ answer' = Failure /\ Head(cherr)
  <2>1. cherr # <<>> /\ UNCHANGED outcome
    BY <1>3 DEF ReceiveError
  <2>2. \E k \in Key : outcome'[k] = Failure
    BY <1>3, <2>1, FirstError
  <2>. QED  BY <1>3, <2>2 DEF AnswerFaithful, Failure, NoAnswer
<1>. QED  BY <1>1, <1>2, <1>3, AnswerComes

(* The caller of SendHeartbeats learns of a failure, and of nothing stored   *)
(* that is not.                                                              *)
THEOREM AnswersAreFaithful == Spec => []AnswerFaithful
<1>1. Init => AnswerFaithful
  BY DEF Init, AnswerFaithful
<1>. QED  BY <1>1, SendInvariant, AnswerNext, PTL DEF Spec

-----------------------------------------------------------------------------
(* The keys                                                                  *)

(* Every step sends heartbeats with the key of NewClient, if any.            *)
LEMMA KeyNext == IInv /\ NoForeignKey /\ [Next]_vars => NoForeignKey'
<1>. SUFFICES ASSUME IInv, NoForeignKey, [Next]_vars PROVE NoForeignKey'
  OBVIOUS
<1>1. ASSUME NEW k \in Key, Send(k) PROVE NoForeignKey'
  <2>1. Authorization = DefaultKey
    BY DEF IInv, InnermostDefault, Authorization
  <2>. DEFINE hh == Group(request, k)
  <2>2. sentWith' = [h \in Heartbeat |->
                       IF h \in Range(hh) THEN sentWith[h] \cup {DefaultKey} ELSE sentWith[h]]
    BY <1>1, <2>1 DEF Send
  <2>. HIDE DEF hh
  <2>. QED  BY <2>2 DEF NoForeignKey
<1>2. CASE UNCHANGED sentWith
  BY <1>2 DEF NoForeignKey
<1>3. Call \/ Caller \/ UNCHANGED vars => UNCHANGED sentWith
  BY DEF Call, Caller, AnswerSingle, Wait, ReceiveError, Return, vars
<1>4. \A k \in Key : ReadDoFunc(k) \/ WrapDoFunc(k) \/ Put(k) => UNCHANGED sentWith
  BY DEF ReadDoFunc, WrapDoFunc, Put
<1>. QED  BY <1>1, <1>2, <1>3, <1>4 DEF Next, Sender

(* No heartbeat leaves with the key of another project, however many         *)
(* goroutines wrap the doFunc of their client at once.                       *)
THEOREM NoForeignKeySent == Spec => []NoForeignKey
<1>1. Init => NoForeignKey
  BY DEF Init, NoForeignKey
<1>. QED  BY <1>1, SendInvariant, KeyNext, PTL DEF Spec

-----------------------------------------------------------------------------
(* The refinement                                                            *)

(* Both have the same answers.                                               *)
LEMMA SameVocabulary ==
  /\ Abstract!NoAnswer = NoAnswer /\ Abstract!Failure = Failure
  /\ \A s : Abstract!Success(s) = Success(s)
  /\ \A f : Abstract!Range(f) = Range(f)
BY DEF Abstract!NoAnswer, NoAnswer, Abstract!Failure, Failure, Abstract!Success, Success,
       Abstract!Range, Range

(* A step that gives a call its answer gives it one a sender may give.       *)
LEMMA AnswerRefines ==
  ASSUME IInv, AnswerFaithful', [Next]_vars, answer = NoAnswer, answer' # NoAnswer
  PROVE  Abstract!Fail \/ Abstract!Succeed
<1>1. AnswerSingle \/ (ReceiveError /\ answer' = Failure)
  BY AnswerComes
<1>2. UNCHANGED <<request, outcome, stored>>
  BY <1>1 DEF AnswerSingle, ReceiveError
<1>3. request # <<>> /\ request \in Seq(Heartbeat)
  <2>1. PICK k \in Key : sender[k] # "none"
    <3>1. CASE AnswerSingle
      BY <3>1, SingleAnswer
    <3>2. CASE ReceiveError
      <4>1. cherr \in Seq(BOOLEAN) /\ cherr # <<>>
        BY <3>2 DEF ReceiveError, IInv, TypeOK
      <4>2. 1 \in DOMAIN cherr
        BY <4>1, ChannelFacts
      <4>. QED  BY <4>2 DEF IInv, ChannelsCarry, ErrorsPut
    <3>. QED  BY <1>1, <3>1, <3>2
  <2>2. {l \in Key : sender[l] # "none"} = Groups(request)
    BY <1>1 DEF IInv, CallInHand, AnswerSingle, ReceiveError
  <2>. QED  BY <2>1, <2>2, RequestFacts, GroupsFacts DEF IInv
<1>4. CASE answer' = Failure
  BY <1>2, <1>3, <1>4, SameVocabulary DEF Abstract!Fail
<1>5. CASE AnswerSingle /\ answer' # Failure
  <2>1. answer' \in Outcomes(request)
    BY <1>5, SingleAnswer
  <2>2. answer' \in {Success(s) : s \in Results(request)}
    BY <1>5, <2>1 DEF Outcomes
  <2>3. \A n \in DOMAIN request \cap DOMAIN answer'.statuses :
          answer'.statuses[n] = "ok" => request[n] \in stored
    BY <1>2, <1>5 DEF AnswerFaithful
  <2>4. answer' \in {Abstract!Success(s) : s \in UNION {[1..k -> Status] : k \in 0..Len(request) + 1}}
    BY <2>2, SameVocabulary DEF Results
  <2>. QED  BY <1>2, <1>3, <2>3, <2>4, SameVocabulary DEF Abstract!Succeed
<1>. QED  BY <1>1, <1>4, <1>5

(* Every step is one of the abstract sender or a stutter.                    *)
LEMMA StepRefines ==
  IInv /\ IInv' /\ AnswerFaithful' /\ [Next]_vars => [Abstract!AbsNext]_(Abstract!absVars)
<1>. SUFFICES ASSUME IInv, IInv', AnswerFaithful', [Next]_vars
              PROVE  Abstract!AbsNext \/ UNCHANGED Abstract!absVars
  OBVIOUS
<1>. USE DEF Abstract!absVars, Abstract!AbsNext
<1>1. CASE answer = NoAnswer /\ answer' # NoAnswer
  BY <1>1, AnswerRefines
<1>2. CASE Call
  BY <1>2, SameVocabulary DEF Call, IInv, CallInHand, Abstract!Invoke
<1>3. CASE Return
  BY <1>3, SameVocabulary DEF Return, IInv, CallInHand, Abstract!Finish
<1>4. ASSUME NEW k \in Key, Send(k) PROVE Abstract!Store
  <2>1. request \in Seq(Heartbeat)
    BY RequestFacts DEF IInv
  <2>2. request # <<>> /\ answer = NoAnswer
    <3>1. sender[k] = "send"
      BY <1>4 DEF Send
    <3>2. pc \in {"single", "wait"}
      BY <3>1 DEF IInv, CallInHand
    <3>3. {j \in Key : sender[j] # "none"} = Groups(request) /\ answer = NoAnswer
      BY <3>2 DEF IInv, CallInHand
    <3>. QED  BY <2>1, <3>1, <3>3, GroupsFacts
  <2>3. PICK S \in SUBSET Range(Group(request, k)) : stored' = stored \cup S
    BY <1>4 DEF Send
  <2>4. S \in SUBSET Range(request)
    BY <2>1, <2>3, GroupFacts
  <2>5. UNCHANGED <<request, answer>>
    BY <1>4 DEF Send
  <2>. QED  BY <2>2, <2>3, <2>4, <2>5, SameVocabulary DEF Abstract!Store
<1>5. ASSUME NEW k \in Key, ReadDoFunc(k) \/ WrapDoFunc(k) \/ Put(k)
      PROVE  UNCHANGED Abstract!absVars
  BY <1>5 DEF ReadDoFunc, WrapDoFunc, Put
<1>6. ASSUME AnswerSingle \/ Wait \/ ReceiveError
      PROVE  UNCHANGED <<request, stored>> /\ answer = NoAnswer
  BY <1>6 DEF AnswerSingle, Wait, ReceiveError, IInv, CallInHand
<1>. QED  BY <1>1, <1>2, <1>3, <1>4, <1>5, <1>6 DEF Next, Caller, Sender, vars

(* SendHeartbeats, with its goroutines and channels, is a sender as the      *)
(* offline queue needs one.                                                  *)
THEOREM SenderRefinement == Spec => ImplementsAbstractSender
<1>1. Init => Abstract!AbsInit
  BY SameVocabulary DEF Init, Abstract!AbsInit
<1>. QED
  BY <1>1, SendInvariant, AnswersAreFaithful, StepRefines, PTL
     DEF Spec, ImplementsAbstractSender, Abstract!AbsSpec
=============================================================================
