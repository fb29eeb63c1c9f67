--------------------------- MODULE Command_proofs ---------------------------
(* However a process is started and whatever the API answers: requests are   *)
(* bounded, heartbeats are lost only for a reason, the api key is kept, and  *)
(* the exit code tells the truth.                                            *)
EXTENDS Command, FiniteSetTheorems, SequenceTheorems, TLAPS

-----------------------------------------------------------------------------
(* The parameters                                                            *)

(* They do not change.                                                       *)
LEMMA SameCall ==
  ASSUME call' = call
  PROVE  /\ v' = v /\ Reported' = Reported /\ Built' = Built /\ Limit' = Limit
         /\ Disabled' <=> Disabled
         /\ Loads' <=> Loads
         /\ Reports' <=> Reports
<1>1. v' = v /\ Reported' = Reported /\ Built' = Built
  BY DEF v, Reported, Built
<1>2. Limit' = Limit /\ (Disabled' <=> Disabled)
  BY <1>1 DEF Limit, Disabled
<1>3. Loads' <=> Loads
  BY <1>1 DEF Loads
<1>4. Reports' <=> Reports
  BY <1>1 DEF Reports, First, Chosen
<1>. QED  BY <1>1, <1>2, <1>3, <1>4

(* What LoadAPIParams makes of any settings.                                 *)
LEMMA APIFacts ==
  /\ LoadAPIParams(v).err \in {"", "auth", "proxy"}
  /\ LoadAPIParams(v).proxy \in {"", Proxy(v)}
BY DEF LoadAPIParams, NoAPI

(* What LoadOfflineParams makes of them.                                     *)
LEMMA OfflineFacts == Limit \in Nat
<1>. DEFINE sync == GetString(v, "sync-offline-activity")
            max == CASE ~IsSet(v, "sync-offline-activity") -> SyncMaxDefault
                     [] IsSet(v, "sync-offline-activity") /\ sync = "none" -> 0
                     [] OTHER -> IF sync \in DOMAIN Number THEN Number[sync] ELSE -1
<1>1. max \in Int
  BY DefaultAssumption, NumberAssumption
<1>2. LoadOfflineParams(v).syncMax = IF max < 0 THEN 0 ELSE max
  BY DEF LoadOfflineParams, NoOffline
<1>. HIDE DEF max
<1>. QED  BY <1>1, <1>2 DEF Limit

(* The heartbeats that are built are some of those the editor reports, and   *)
(* those are not in the queue yet.                                           *)
LEMMA ReportFacts ==
  ASSUME call \in Call
  PROVE  /\ Reported \cap Old = {} /\ IsFiniteSet(Old \cup Reported)
         /\ Old \cup Reported \subseteq Int
         /\ \E n \in Nat : Built = 1..n
         /\ IsSet(v, "entity") => Built \subseteq Reported
<1>1. call.stdin \in Seq(Range(call.stdin)) /\ Len(call.stdin) \in Nat
  BY CallAssumption
<1>2. Reported = {} \/ \E n \in 1..1 + Len(call.stdin) : Reported = 1..n
  BY <1>1 DEF Reported
<1>3. Reported \subseteq 1..1 + Len(call.stdin)
  BY <1>1, <1>2
<1>4. Old \cap (1..1 + Len(call.stdin)) = {} /\ IsFiniteSet(Old) /\ Old \subseteq Int
  BY OldAssumption
<1>5. IsFiniteSet(1..1 + Len(call.stdin))
  BY <1>1, FS_Interval
<1>6. IsFiniteSet(Reported)
  BY <1>3, <1>5, FS_Subset
<1>7. IsFiniteSet(Old \cup Reported)
  BY <1>4, <1>6, FS_Union
<1>8. Built = 1..1 + Len(ExtraHeartbeats(v, call.stdin))
  BY DEF Built, LoadHeartbeatParams
<1>9. CASE GetBool(v, "extra-heartbeats")
  <2>1. Len(ExtraHeartbeats(v, call.stdin)) \in {0, Len(call.stdin)}
    BY <1>9 DEF ExtraHeartbeats
  <2>2. IsSet(v, "entity") => Reported = 1..1 + Len(call.stdin)
    BY <1>9 DEF Reported
  <2>. QED  BY <1>1, <1>3, <1>4, <1>7, <1>8, <2>1, <2>2
<1>10. CASE ~GetBool(v, "extra-heartbeats")
  <2>1. Len(ExtraHeartbeats(v, call.stdin)) = 0
    BY <1>10 DEF ExtraHeartbeats
  <2>2. IsSet(v, "entity") => Reported = 1..1
    BY <1>10 DEF Reported
  <2>. QED  BY <1>1, <1>3, <1>4, <1>7, <1>8, <2>1, <2>2
<1>. QED  BY <1>9, <1>10
-----------------------------------------------------------------------------
(* How runCmd goes on                                                        *)

(* A command that has ended is followed by the sync, by nothing, or, if its  *)
(* process is verbose, by diagnostics.                                       *)
Ended ==
  \/ /\ pc' = "run" /\ command = "entity" /\ command' = "sync-offline-activity"
     /\ reason' = "none" /\ code' = Success
  \/ pc' = "exit" /\ command' = command /\ reason' = "none"
  \/ /\ pc' = "diagnose" /\ command' = command /\ reason' \in {"error", "panic"} /\ Verbose(v)
     /\ code' \notin {Success, ErrAuth}

(* So it is after a code was returned,                                       *)
LEMMA ReturnedFacts == \A c : Returned(c) => Ended /\ code' = c
BY DEF Returned, Ended, Return, Exit, Diagnose

(* after a panic,                                                            *)
LEMMA PanicFacts ==
  Panic => /\ Ended
           /\ code' = IF reason = "panic" THEN Crashed ELSE ErrGeneric
           /\ command' = command
BY DEF Panic, Ended, Exit, Diagnose, Success, ErrAuth, ErrGeneric

(* and after diagnostics, with which no process begins anything.             *)
LEMMA DiagnosedFacts ==
  Diagnosed /\ code # Success =>
    /\ pc' = "exit" /\ command' = command /\ reason' = "none"
    /\ code' = IF reason = "panic" THEN ErrGeneric ELSE code
BY DEF Diagnosed, Exit, Return

(* The codes differ, and so do the commands and diagnostics.                 *)
LEMMA Codes ==
  /\ Success = 0 /\ ErrGeneric = 1 /\ Crashed = 2 /\ ErrAPI = 102
  /\ ErrConfigFileParse = 103 /\ ErrAuth = 104 /\ ErrConfigFileRead = 110
  /\ ExitCodes = {0, 1, 2, 102, 103, 104, 110}
BY DEF Success, ErrGeneric, Crashed, ErrAPI, ErrConfigFileParse, ErrAuth, ErrConfigFileRead, ExitCodes

(* The commands by name.                                                     *)
LEMMA CommandNames ==
  Range(Commands) = {"useragent", "version", "config-read", "config-write", "today", "today-goal",
                     "entity", "sync-offline-activity", "offline-count"}
BY DEF Commands, Range

(* What an error gives for a code.                                           *)
LEMMA CodeFacts ==
  /\ \A outcome : ExitCode(outcome) \in {ErrGeneric, ErrAPI, ErrAuth}
  /\ \A err : LoadCode(err) \in {ErrGeneric, ErrAuth} /\ (LoadCode(err) = ErrAuth => err = "auth")
  /\ LocalCodes \subseteq {Success, ErrGeneric, ErrConfigFileParse, ErrConfigFileRead}
<1>1. \A outcome : ExitCode(outcome) \in {ErrGeneric, ErrAPI, ErrAuth}
  BY DEF ExitCode
<1>2. \A err : LoadCode(err) \in {ErrGeneric, ErrAuth} /\ (LoadCode(err) = ErrAuth => err = "auth")
  BY Codes DEF LoadCode
<1>3. LocalCodes \subseteq {Success, ErrGeneric, ErrConfigFileParse, ErrConfigFileRead}
  BY DEF LocalCodes
<1>. QED  BY <1>1, <1>2, <1>3

-----------------------------------------------------------------------------
(* The invariant                                                             *)

(* A process starts with the queue as it was left.                           *)
LEMMA InvInit == Init => IInv
<1>. SUFFICES ASSUME Init PROVE IInv
  OBVIOUS
<1>. USE DEF Init
<1>0. call \in Call /\ Range(batch) = {}
  BY DEF Range
<1>1. TypeOK
  <2>1. NoClient.doFunc = <<>> /\ NoClient.negotiator \in BOOLEAN
    BY DEF NoClient
  <2>. QED  BY <1>0, <2>1, OfflineFacts, Codes DEF TypeOK
<1>2. Course
  BY DEF Course
<1>3. OnePlace
  BY <1>0 DEF OnePlace
<1>4. ClientInUse
  BY DEF ClientInUse
<1>5. KeyKept
  BY DEF KeyKept
<1>6. CodeKnown
  BY Codes DEF CodeKnown, CodeTells, CameTo
<1>7. LossKnown
  BY DEF LossKnown
<1>. QED  BY <1>1, <1>2, <1>3, <1>4, <1>5, <1>6, <1>7 DEF IInv
(* When no command has failed so far, any code but ErrAPI is right, and      *)
(* ErrAuth is for a key that does not load.                                  *)
LEMMA CodeReturned ==
  ASSUME IInv, reason = "none", pc # "exit", call' = call, heard' = heard, NEW c \in ExitCodes, code' = c,
         c \notin {ErrAPI, Crashed}, c = ErrAuth => LoadAPIParams(v).err = "auth"
  PROVE  CodeTells'
<1>1. code = Success /\ CodeTells
  BY DEF IInv, CodeKnown
<1>2. CameTo("auth") = {} /\ CameTo("api") = {}
  BY <1>1, CommandNames DEF CodeTells, CameTo
<1>3. CameTo("auth")' = {} /\ CameTo("api")' = {}
  BY <1>2 DEF CameTo
<1>. QED  BY <1>1, <1>3, Codes, SameCall DEF CodeTells

(* A process that cannot parse its config files ends.                        *)
LEMMA ParseInv == IInv /\ ParseFails => IInv'
<1>. SUFFICES ASSUME IInv, ParseFails PROVE IInv'
  OBVIOUS
<1>. USE DEF IInv
<1>. USE SameCall
<1>1. /\ pc = "start" /\ ~call.parses /\ pc' = "exit" /\ code' = ErrConfigFileParse
      /\ reason' = "none" /\ command = "none" /\ batch = <<>>
      /\ queue = Old /\ settled = {}
      /\ queue' = queue \cup (IF IsSet(v, "entity") THEN SaveHeartbeats(Built) ELSE {})
      /\ UNCHANGED <<call, command, client, attempts, batch, alreadySent, settled, sent, heard>>
  BY DEF ParseFails, Exit, Course, history
<1>2. SaveHeartbeats(Built) \in {{}, Built} /\ (IsSet(v, "entity") => Built \subseteq Reported)
  BY ReportFacts DEF SaveHeartbeats, TypeOK
<1>3. Range(batch) = {}
  BY <1>1 DEF Range
<1>4. TypeOK'
  BY <1>1, <1>2, <1>3, Codes DEF TypeOK
<1>5. Course'
  BY <1>1 DEF Course
<1>6. OnePlace'
  BY <1>1, <1>2, <1>3 DEF OnePlace, SaveHeartbeats
<1>7. ClientInUse'
  BY <1>1 DEF ClientInUse
<1>8. KeyKept'
  BY <1>1 DEF KeyKept
<1>9. CodeKnown'
  <2>1. CodeTells'
    BY <1>1, CodeReturned, Codes DEF Course
  <2>. QED  BY <1>1, <2>1 DEF CodeKnown
<1>10. LossKnown'
  <2>1. Loads /\ ~Disabled /\ IsSet(v, "entity") => SaveHeartbeats(Built) = Reported
    BY DEF SaveHeartbeats, Loads
  <2>2. ~IsSet(v, "entity") => Reported = {}
    BY DEF Reported
  <2>. QED  BY <1>1, <1>3, <2>1, <2>2 DEF LossKnown
<1>. QED  BY <1>4, <1>5, <1>6, <1>7, <1>8, <1>9, <1>10

(* The first command of the list that was given is run.                      *)
LEMMA SelectInv == IInv /\ SelectCommand => IInv'
<1>. SUFFICES ASSUME IInv, SelectCommand PROVE IInv'
  OBVIOUS
<1>. USE DEF IInv
<1>. USE SameCall
<1>1. /\ pc = "start" /\ call.parses /\ command = "none" /\ reason = "none" /\ batch = <<>>
      /\ queue = Old /\ settled = {} /\ heard = {} /\ code = Success
      /\ UNCHANGED <<call, client, attempts, batch, alreadySent, queue, settled, sent, heard>>
  BY DEF SelectCommand, Course, CodeKnown, history
<1>2. \/ /\ pc' = "exit" /\ command' = "none" /\ reason' = "none" /\ code' \in {Success, ErrGeneric}
         /\ ~\E n \in DOMAIN Commands : First(n) /\ Commands[n] = "entity"
      \/ /\ pc' = "run" /\ UNCHANGED <<code, reason>>
         /\ \E n \in DOMAIN Commands : First(n) /\ Commands[n] # "useragent" /\ command' = Commands[n]
  <2>1. ASSUME \A n \in DOMAIN Commands : ~Chosen(Commands[n]), Exit(ErrGeneric)
        PROVE  ~\E n \in DOMAIN Commands : First(n) /\ Commands[n] = "entity"
    BY <2>1 DEF First
  <2>2. ASSUME NEW n \in DOMAIN Commands, First(n), Commands[n] = "useragent"
        PROVE  ~\E m \in DOMAIN Commands : First(m) /\ Commands[m] = "entity"
    BY <2>2 DEF First, Commands
  <2>. QED  BY <1>1, <2>1, <2>2 DEF SelectCommand, Exit
<1>3. Range(batch) = {}
  BY <1>1 DEF Range
<1>4. command' \in Range(Commands) \cup {"none"}
  BY <1>2 DEF Range
<1>5. command' = "entity" => IsSet(v, "entity")
  BY <1>2 DEF First, Chosen, Commands
<1>6. TypeOK'
  BY <1>1, <1>2, <1>3, <1>4, Codes DEF TypeOK
<1>7. Course'
  BY <1>1, <1>2, <1>5, CommandNames DEF Course, Commands
<1>8. OnePlace'
  BY <1>1, <1>3 DEF OnePlace
<1>9. ClientInUse'
  BY <1>2 DEF ClientInUse
<1>10. KeyKept'
  BY <1>1 DEF KeyKept
<1>11. CodeKnown'
  <2>1. CodeTells'
    BY <1>1, <1>2, CodeReturned, Codes
  <2>. QED  BY <1>1, <1>2, <2>1 DEF CodeKnown
<1>12. LossKnown'
  <2>1. Reports => pc' = "run" /\ command' = "entity"
    BY <1>1, <1>2 DEF Reports, First, Commands
  <2>. QED  BY <1>1, <1>3, <2>1 DEF LossKnown
<1>. QED  BY <1>6, <1>7, <1>8, <1>9, <1>10, <1>11, <1>12
(* A command other than heartbeats that ends without a request of its own.   *)
LEMMA EndsInv ==
  ASSUME IInv, reason = "none", pc \in {"run", "loop"}, command # "entity",
         NEW c \in ExitCodes, Returned(c), c \notin {ErrAPI, Crashed},
         c = ErrAuth => LoadAPIParams(v).err = "auth",
         UNCHANGED <<call, client, attempts, batch, alreadySent, queue, settled, sent, heard>>
  PROVE  IInv'
<1>. USE SameCall DEF IInv
<1>1. Ended /\ code' = c /\ command' = command
  BY ReturnedFacts DEF Ended
<1>2. TypeOK'
  BY <1>1 DEF Ended, TypeOK
<1>3. Course'
  BY <1>1 DEF Ended, Course
<1>4. OnePlace'
  BY <1>1 DEF OnePlace
<1>5. ClientInUse'
  BY <1>1 DEF Ended, ClientInUse
<1>6. KeyKept'
  BY DEF KeyKept
<1>7. CodeKnown'
  <2>1. CodeTells'
    BY <1>1, CodeReturned
  <2>2. reason' # "panic"
    BY DEF Returned, Return, Exit, Diagnose
  <2>. QED  BY <1>1, <2>1, <2>2 DEF CodeKnown, Ended
<1>8. LossKnown'
  BY <1>1 DEF LossKnown, Ended
<1>. QED  BY <1>2, <1>3, <1>4, <1>5, <1>6, <1>7, <1>8

(* A command that sends nothing.                                             *)
LEMMA LocalInv == IInv /\ RunLocal => IInv'
<1>. SUFFICES ASSUME IInv, RunLocal PROVE IInv'
  OBVIOUS
<1>1. PICK c \in LocalCodes : Returned(c)
  BY DEF RunLocal
<1>2. pc = "run" /\ reason = "none" /\ command # "entity"
  BY <1>1 DEF RunLocal, IInv, Course, LocalCodes
<1>3. c \in ExitCodes \ {ErrAPI, Crashed, ErrAuth}
  BY <1>1, CodeFacts, Codes
<1>. QED  BY <1>1, <1>2, <1>3, EndsInv DEF RunLocal, history

(* A sync that has nothing more to send.                                     *)
LEMMA DoneInv == IInv /\ SyncDone => IInv'
<1>. SUFFICES ASSUME IInv, SyncDone PROVE IInv'
  OBVIOUS
<1>1. pc = "loop" /\ reason = "none" /\ command # "entity"
  BY DEF SyncDone, IInv, Course
<1>. QED  BY <1>1, EndsInv, Codes DEF SyncDone, history

Layer == {"key", "ntlm", "retry"}

(* One layer around others.                                                  *)
LEMMA Layered ==
  ASSUME NEW a \in Layer, NEW b \in Layer, NEW c \in Layer
  PROVE  /\ <<>> \o <<a>> = <<a>> /\ <<a, b>> \o <<>> = <<a, b>> /\ <<a>> \o <<>> = <<a>>
         /\ <<a>> \o <<b>> = <<a, b>>
         /\ <<a>> \o <<b, c>> = <<a, b, c>>
         /\ <<a, b>> \o <<c>> = <<a, b, c>>
<1>1. <<>> \o <<a>> = <<a>> /\ <<a, b>> \o <<>> = <<a, b>> /\ <<a>> \o <<>> = <<a>>
  BY ConcatEmptySeq
<1>2. <<a>> \o <<b>> = <<a, b>>
  <2>1. <<a>> \o <<b>> \in Seq(Layer) /\ Len(<<a>> \o <<b>>) = 2
    OBVIOUS
  <2>2. <<a, b>> \in Seq(Layer) /\ Len(<<a, b>>) = 2
    OBVIOUS
  <2>3. \A i \in 1..2 : <<a, b>>[i] = (<<a>> \o <<b>>)[i]
    OBVIOUS
  <2>. QED  BY <2>1, <2>2, <2>3, SeqEqual
<1>3. <<a>> \o <<b, c>> = <<a, b, c>>
  <2>1. <<a>> \o <<b, c>> \in Seq(Layer) /\ Len(<<a>> \o <<b, c>>) = 3
    OBVIOUS
  <2>2. <<a, b, c>> \in Seq(Layer) /\ Len(<<a, b, c>>) = 3
    OBVIOUS
  <2>3. \A i \in 1..3 : <<a, b, c>>[i] = (<<a>> \o <<b, c>>)[i]
    OBVIOUS
  <2>. QED  BY <2>1, <2>2, <2>3, SeqEqual
<1>4. <<a, b>> \o <<c>> = <<a, b, c>>
  <2>1. <<a, b>> \o <<c>> \in Seq(Layer) /\ Len(<<a, b>> \o <<c>>) = 3
    OBVIOUS
  <2>2. <<a, b, c>> \in Seq(Layer) /\ Len(<<a, b, c>>) = 3
    OBVIOUS
  <2>3. \A i \in 1..3 : <<a, b, c>>[i] = (<<a, b>> \o <<c>>)[i]
    OBVIOUS
  <2>. QED  BY <2>1, <2>2, <2>3, SeqEqual
<1>. QED  BY <1>1, <1>2, <1>3, <1>4

(* The client of a command.                                                  *)
LEMMA NewClientFacts ==
  ASSUME NEW api
  PROVE  LET c == NewClient(api)
         IN  /\ c.doFunc \in {<<"key">>, <<"retry", "key">>} /\ c.negotiator = FALSE
             /\ "retry" \in Range(c.doFunc) => api.proxy \in Ntlm
             /\ c.verified = api.verify
             /\ c.doFunc \in Seq({"key", "ntlm", "retry"}) /\ DOMAIN c = DOMAIN NoClient
<1>1. NewClient(api).doFunc = IF api.proxy \in Ntlm THEN <<"retry", "key">> ELSE <<"key">>
  <2>1. <<"retry">> \o <<"key">> = <<"retry", "key">> /\ <<>> \o <<"key">> = <<"key">>
    BY Layered DEF Layer
  <2>. QED  BY <2>1 DEF NewClient, newClient
<1>2. /\ NewClient(api).negotiator = FALSE /\ NewClient(api).verified = api.verify
      /\ DOMAIN NewClient(api) = DOMAIN NoClient
  BY DEF NewClient, newClient, NoClient
<1>3. <<"retry", "key">> \in Seq({"key", "ntlm", "retry"}) /\ <<"key">> \in Seq({"key", "ntlm", "retry"})
  OBVIOUS
<1>4. "retry" \notin Range(<<"key">>)
  BY DEF Range
<1>. QED  BY <1>1, <1>2, <1>3, <1>4

(* A client that a command has just got is one it may use.                   *)
LEMMA ClientNew ==
  ASSUME IInv, client' = NewClient(LoadAPIParams(v)), call' = call, reason' = "none",
         pc' # "loop" => attempts' = 0
  PROVE  /\ ClientInUse'
         /\ client'.doFunc \in Seq({"key", "ntlm", "retry"}) /\ client'.negotiator \in BOOLEAN
         /\ DOMAIN client' = DOMAIN NoClient
<1>. DEFINE api == LoadAPIParams(v)
<1>1. /\ client'.doFunc \in {<<"key">>, <<"retry", "key">>} /\ client'.negotiator = FALSE
      /\ "retry" \in Range(client'.doFunc) => api.proxy \in Ntlm
      /\ client'.verified = api.verify
      /\ client'.doFunc \in Seq({"key", "ntlm", "retry"}) /\ DOMAIN client' = DOMAIN NoClient
  BY NewClientFacts
<1>2. api.proxy \in Ntlm => Proxy(v) \in Ntlm
  BY APIFacts, ProxyAssumption
<1>3. client'.doFunc \in {<<"key">>, <<"retry", "key">>} /\ ~client'.negotiator
  BY <1>1
<1>4. "retry" \in Range(client'.doFunc) => Proxy(v') \in Ntlm
  BY <1>1, <1>2, SameCall
<1>5. client'.verified = LoadAPIParams(v').verify
  BY <1>1, SameCall
<1>6. pc' # "loop" => attempts' <= IF client'.negotiator THEN 1 ELSE 0
  BY <1>3
<1>7. ClientInUse'
  <2>. HIDE DEF api
  <2>. QED  BY <1>3, <1>4, <1>5, <1>6 DEF ClientInUse
<1>. QED  BY <1>1, <1>7

(* today and todaygoal.                                                      *)
LEMMA FetchInv == IInv /\ RunFetch => IInv'
<1>. SUFFICES ASSUME IInv, RunFetch PROVE IInv'
  OBVIOUS
<1>1. /\ pc = "run" /\ reason = "none" /\ command \in {"today", "today-goal"} /\ batch = <<>>
      /\ UNCHANGED <<call, batch, alreadySent, queue, settled, sent, heard>>
  BY DEF RunFetch, IInv, Course, history
<1>. DEFINE api == LoadAPIParams(v)
<1>2. CASE Returned(LoadCode(api.err)) /\ UNCHANGED <<client, attempts>>
  <2>1. LoadCode(api.err) \in ExitCodes \ {ErrAPI, Crashed} /\ (LoadCode(api.err) = ErrAuth => api.err = "auth")
    BY Codes DEF LoadCode
  <2>. QED  BY <1>1, <1>2, <2>1, EndsInv
<1>3. CASE /\ client' = NewClient(api) /\ attempts' = 0 /\ pc' = "do"
           /\ UNCHANGED <<command, reason, code>>
  <2>. USE SameCall DEF IInv
  <2>1. /\ ClientInUse' /\ DOMAIN client' = DOMAIN NoClient
        /\ client'.doFunc \in Seq({"key", "ntlm", "retry"}) /\ client'.negotiator \in BOOLEAN
    BY <1>1, <1>3, ClientNew
  <2>2. TypeOK'
    BY <1>1, <1>3, <2>1 DEF TypeOK
  <2>3. Course'
    BY <1>1, <1>3 DEF Course
  <2>4. OnePlace'
    BY <1>1, <1>3 DEF OnePlace
  <2>5. KeyKept'
    BY <1>1 DEF KeyKept
  <2>6. CodeKnown'
    BY <1>1, <1>3 DEF CodeKnown, CodeTells, CameTo
  <2>7. LossKnown'
    BY <1>1, <1>3 DEF LossKnown
  <2>. QED  BY <2>1, <2>2, <2>3, <2>4, <2>5, <2>6, <2>7
<1>. QED  BY <1>2, <1>3 DEF RunFetch

(* offlinesync.                                                              *)
LEMMA SyncInv == IInv /\ RunSync => IInv'
<1>. SUFFICES ASSUME IInv, RunSync PROVE IInv'
  OBVIOUS
<1>1. /\ pc = "run" /\ reason = "none" /\ command = "sync-offline-activity" /\ batch = <<>>
      /\ UNCHANGED <<call, attempts, batch, queue, settled, sent, heard>>
  BY DEF RunSync, IInv, Course, history
<1>. DEFINE api == LoadAPIParams(v)
<1>2. ASSUME NEW c \in {ErrGeneric, LoadCode(api.err), Success}, Returned(c), UNCHANGED <<client, alreadySent>>
      PROVE  IInv'
  <2>1. c \in ExitCodes \ {ErrAPI, Crashed} /\ (c = ErrAuth => api.err = "auth")
    BY Codes DEF LoadCode
  <2>. QED  BY <1>1, <1>2, <2>1, EndsInv
<1>3. CASE /\ client' = NewClient(api) /\ alreadySent' = 0 /\ pc' = "loop"
           /\ UNCHANGED <<command, reason, code>>
  <2>. USE SameCall DEF IInv
  <2>1. /\ ClientInUse' /\ DOMAIN client' = DOMAIN NoClient
        /\ client'.doFunc \in Seq({"key", "ntlm", "retry"}) /\ client'.negotiator \in BOOLEAN
    BY <1>1, <1>3, ClientNew
  <2>2. TypeOK'
    BY <1>1, <1>3, <2>1, OfflineFacts DEF TypeOK
  <2>3. Course'
    BY <1>1, <1>3 DEF Course
  <2>4. OnePlace'
    BY <1>1, <1>3 DEF OnePlace
  <2>5. KeyKept'
    BY <1>1 DEF KeyKept
  <2>6. CodeKnown'
    BY <1>1, <1>3 DEF CodeKnown, CodeTells, CameTo
  <2>7. LossKnown'
    BY <1>1, <1>3 DEF LossKnown
  <2>. QED  BY <2>1, <2>2, <2>3, <2>4, <2>5, <2>6, <2>7
<1>. QED  BY <1>2, <1>3 DEF RunSync
(* The heartbeat command that ends before it sends its heartbeats, and if    *)
(* they were built has saved them.                                           *)
LEMMA ReportEnds ==
  ASSUME IInv, pc = "run", command = "entity",
         NEW c \in ExitCodes, Returned(c), c \notin {ErrAPI, Crashed},
         c = ErrAuth => LoadAPIParams(v).err = "auth",
         queue' \in {queue, queue \cup SaveHeartbeats(Built)},
         Loads => queue' = queue \cup SaveHeartbeats(Built),
         UNCHANGED <<call, client, attempts, batch, alreadySent, settled, sent, heard>>
  PROVE  IInv'
<1>. USE SameCall DEF IInv
<1>1. Ended /\ code' = c
  BY ReturnedFacts
<1>2. reason = "none" /\ batch = <<>> /\ IsSet(v, "entity") /\ queue = Old /\ settled = {}
  BY DEF Course
<1>3. Range(batch) = {}
  BY <1>2 DEF Range
<1>4. SaveHeartbeats(Built) \in {{}, Built} /\ Built \subseteq Reported /\ Reported \cap Old = {}
  BY <1>2, ReportFacts DEF SaveHeartbeats, TypeOK
<1>5. TypeOK'
  BY <1>1, <1>2, <1>3, <1>4, CommandNames DEF Ended, TypeOK
<1>6. Course'
  BY <1>1, <1>2 DEF Ended, Course
<1>7. OnePlace'
  BY <1>1, <1>2, <1>3, <1>4 DEF OnePlace, SaveHeartbeats
<1>8. ClientInUse'
  BY <1>1 DEF Ended, ClientInUse
<1>9. KeyKept'
  BY DEF KeyKept
<1>10. CodeKnown'
  <2>1. CodeTells'
    BY <1>1, <1>2, CodeReturned
  <2>2. reason' # "panic"
    BY DEF Returned, Return, Exit, Diagnose
  <2>. QED  BY <1>1, <2>1, <2>2 DEF CodeKnown, Ended
<1>11. LossKnown'
  <2>1. Loads /\ ~Disabled => Reported \subseteq queue'
    BY DEF SaveHeartbeats, Loads
  <2>. QED  BY <1>2, <2>1 DEF LossKnown
<1>. QED  BY <1>5, <1>6, <1>7, <1>8, <1>9, <1>10, <1>11

(* The heartbeat command.                                                    *)
LEMMA HeartbeatInv == IInv /\ RunHeartbeat => IInv'
<1>. SUFFICES ASSUME IInv, RunHeartbeat PROVE IInv'
  OBVIOUS
<1>. DEFINE api == LoadAPIParams(v)
            loaded == LoadHeartbeatParams(v, call.stdin).err = "" /\ LoadOfflineParams(v).err = "" /\ api.err = ""
<1>1. /\ pc = "run" /\ command = "entity" /\ reason = "none" /\ batch = <<>> /\ code = Success
      /\ queue = Old /\ settled = {} /\ heard = {} /\ IsSet(v, "entity") /\ call.parses
      /\ UNCHANGED <<call, alreadySent, settled, sent, heard>>
  BY DEF RunHeartbeat, IInv, Course, CodeKnown, history
<1>2. CASE /\ ~loaded
           /\ Returned(LoadCode(IF LoadHeartbeatParams(v, call.stdin).err = "" THEN api.err ELSE "heartbeat"))
           /\ UNCHANGED <<client, attempts, batch, queue>>
  <2>. DEFINE err == IF LoadHeartbeatParams(v, call.stdin).err = "" THEN api.err ELSE "heartbeat"
              c == LoadCode(err)
  <2>0. err = "auth" => api.err = "auth"
    OBVIOUS
  <2>1. c \in ExitCodes \ {ErrAPI, Crashed} /\ (c = ErrAuth => api.err = "auth")
    <3>. HIDE DEF err, api
    <3>. QED  BY <2>0, CodeFacts, Codes
  <2>2. ~Loads
    BY <1>1, <1>2 DEF Loads
  <2>. QED  BY <1>1, <1>2, <2>1, <2>2, ReportEnds
<1>3. CASE /\ pc' = "stdin"
           /\ UNCHANGED <<command, client, attempts, batch, queue, reason, code>>
  <2>. USE SameCall DEF IInv
  <2>1. TypeOK'
    BY <1>1, <1>3 DEF TypeOK
  <2>2. Course'
    BY <1>1, <1>3 DEF Course
  <2>3. OnePlace'
    BY <1>1, <1>3 DEF OnePlace
  <2>4. ClientInUse'
    BY <1>3 DEF ClientInUse
  <2>5. KeyKept'
    BY <1>1 DEF KeyKept
  <2>6. CodeKnown'
    BY <1>1, <1>3 DEF CodeKnown, CodeTells, CameTo
  <2>7. LossKnown'
    BY <1>1, <1>3 DEF LossKnown
  <2>. QED  BY <2>1, <2>2, <2>3, <2>4, <2>5, <2>6, <2>7
<1>4. CASE /\ queue' = queue \cup SaveHeartbeats(Built)
           /\ Returned(ErrGeneric)
           /\ UNCHANGED <<client, attempts, batch>>
  BY <1>1, <1>4, ReportEnds, Codes
<1>5. CASE /\ client' = NewClient(api) /\ attempts' = 0
           /\ batch' = [n \in Built |-> n]
           /\ pc' = "send"
           /\ UNCHANGED <<command, queue, reason, code>>
  <2>. USE SameCall DEF IInv
  <2>1. /\ ClientInUse' /\ DOMAIN client' = DOMAIN NoClient
        /\ client'.doFunc \in Seq({"key", "ntlm", "retry"}) /\ client'.negotiator \in BOOLEAN
    BY <1>1, <1>5, ClientNew
  <2>2. Built \subseteq Reported /\ Reported \cap Old = {}
    BY <1>1, ReportFacts DEF TypeOK
  <2>3. Range(batch') = Built /\ \A n \in DOMAIN batch' : batch'[n] = n
    BY <1>5 DEF Range
  <2>4. TypeOK'
    <3>1. Range(batch') \subseteq Old \cup Reported /\ Range(batch') \cap (queue \cup settled) = {}
      BY <1>1, <2>2, <2>3
    <3>2. attempts' \in 0..2 /\ pc' = "send" /\ UNCHANGED <<command, queue, reason, code>>
      BY <1>5
    <3>. HIDE DEF api, loaded
    <3>. QED  BY <1>1, <2>1, <3>1, <3>2 DEF TypeOK
  <2>5. Course'
    BY <1>1, <1>5 DEF Course
  <2>6. OnePlace'
    BY <1>1, <1>5, <2>2, <2>3 DEF OnePlace
  <2>7. KeyKept'
    BY <1>1 DEF KeyKept
  <2>8. CodeKnown'
    BY <1>1, <1>5 DEF CodeKnown, CodeTells, CameTo
  <2>9. LossKnown'
    BY <1>1, <1>5, <2>3 DEF LossKnown, Loads
  <2>. QED  BY <2>1, <2>4, <2>5, <2>6, <2>7, <2>8, <2>9
<1>. QED  BY <1>2, <1>3, <1>4, <1>5 DEF RunHeartbeat

(* What is popped is part of the queue, and no more than the limits allow.   *)
LEMMA PopFacts ==
  ASSUME IInv, PopBatch
  PROVE  \E k \in Nat : \E hh \in [1..k -> queue] :
           /\ k <= SendLimit /\ alreadySent + k <= Limit
           /\ \A m, n \in DOMAIN hh : m < n => hh[m] < hh[n]
           /\ queue' = queue \ Range(hh) /\ batch' = hh
           /\ alreadySent' \in 0..Limit
<1>. DEFINE k == Min({Num, Cardinality(queue)})
<1>1. Cardinality(queue) \in Nat
  <2>1. queue \subseteq Old \cup Reported /\ IsFiniteSet(Old \cup Reported)
    BY ReportFacts DEF IInv, TypeOK
  <2>. QED  BY <2>1, FS_Subset, FS_CardinalityType
<1>2. /\ Num \in Nat /\ Num <= SendLimit /\ alreadySent + Num <= Limit
      /\ alreadySent + Counted \in 0..Limit
  <2>1. alreadySent \in Nat /\ Limit \in Nat /\ alreadySent < Limit
    BY OfflineFacts DEF PopBatch, IInv, TypeOK
  <2>. QED  BY <2>1, LimitAssumption DEF Num, Counted
<1>3. k \in Nat /\ k <= Num
  <2>. HIDE DEF Num
  <2>. QED  BY <1>1, <1>2 DEF Min
<1>4. alreadySent \in Nat /\ Limit \in Nat /\ SendLimit \in Nat
  BY OfflineFacts, LimitAssumption DEF IInv, TypeOK
<1>. HIDE DEF k
<1>5. k <= SendLimit /\ alreadySent + k <= Limit
  BY <1>2, <1>3, <1>4
<1>6. PICK hh \in [1..k -> queue] :
        /\ \A m, n \in DOMAIN hh : m < n => hh[m] < hh[n]
        /\ queue' = queue \ Range(hh) /\ batch' = hh
  BY DEF PopBatch, k
<1>7. alreadySent' \in 0..Limit
  BY <1>2 DEF PopBatch
<1>. QED  BY <1>3, <1>5, <1>6, <1>7

(* A sync takes a batch out of the queue.                                    *)
LEMMA PopInv == IInv /\ PopBatch => IInv'
<1>. SUFFICES ASSUME IInv, PopBatch PROVE IInv'
  OBVIOUS
<1>. USE SameCall DEF IInv
<1>1. /\ pc = "loop" /\ reason = "none" /\ command = "sync-offline-activity" /\ batch = <<>>
      /\ pc' = "do" /\ attempts' = 0
      /\ UNCHANGED <<call, command, client, reason, code, settled, sent, heard>>
  BY DEF PopBatch, Course, history, run
<1>2. PICK k \in Nat : \E hh \in [1..k -> queue] :
        /\ \A m, n \in DOMAIN hh : m < n => hh[m] < hh[n]
        /\ queue' = queue \ Range(hh) /\ batch' = hh
        /\ alreadySent' \in 0..Limit
  BY PopFacts
<1>3. PICK hh \in [1..k -> queue] :
        /\ \A m, n \in DOMAIN hh : m < n => hh[m] < hh[n]
        /\ queue' = queue \ Range(hh) /\ batch' = hh
        /\ alreadySent' \in 0..Limit
  BY <1>2
<1>4. Range(batch') \subseteq queue
  BY <1>3 DEF Range
<1>5. \A m, n \in DOMAIN batch' : batch'[m] = batch'[n] => m = n
  <2>. SUFFICES ASSUME NEW m \in 1..k, NEW n \in 1..k, hh[m] = hh[n] PROVE m = n
    BY <1>3
  <2>1. hh[m] \in Int /\ hh[n] \in Int
    BY ReportFacts DEF TypeOK
  <2>. QED  BY <1>3, <2>1
<1>6. Range(batch) = {}
  BY <1>1 DEF Range
<1>. HIDE DEF PopBatch
<1>7. TypeOK'
  BY <1>1, <1>3, <1>4 DEF TypeOK, OnePlace
<1>8. Course'
  BY <1>1 DEF Course
<1>9. OnePlace'
  BY <1>1, <1>3, <1>4, <1>5 DEF OnePlace
<1>10. ClientInUse'
  BY <1>1 DEF ClientInUse, TypeOK
<1>11. KeyKept'
  BY <1>1 DEF KeyKept
<1>12. CodeKnown'
  BY <1>1 DEF CodeKnown, CodeTells, CameTo
<1>13. LossKnown'
  BY <1>1, <1>3, <1>4, <1>6 DEF LossKnown
<1>. QED  BY <1>7, <1>8, <1>9, <1>10, <1>11, <1>12, <1>13
-----------------------------------------------------------------------------
(* Requests                                                                  *)

(* A client without the layer of the key sends no key.                       *)
LEMMA CredentialFacts ==
  ASSUME NEW c, c.doFunc \in {<<>>, <<"retry">>, <<"ntlm", "retry">>}
  PROVE  Credentials(c) # "key"
<1>. DEFINE set == {n \in DOMAIN c.doFunc : c.doFunc[n] \in {"key", "ntlm"}}
<1>1. CASE c.doFunc \in {<<>>, <<"retry">>}
  <2>1. set = {}
    BY <1>1
  <2>. QED  BY <2>1 DEF Credentials
<1>2. CASE c.doFunc = <<"ntlm", "retry">>
  <2>1. set = {1} /\ c.doFunc[1] = "ntlm"
    BY <1>2
  <2>2. Max({1}) = 1
    BY DEF Max
  <2>. QED  BY <2>1, <2>2 DEF Credentials
<1>. QED  BY <1>1, <1>2

(* What leaves the process leaves with the credentials it may have.          *)
LEMMA LeavesKept ==
  ASSUME IInv, pc = "do", Leaves \/ sent' = sent, call' = call
  PROVE  KeyKept'
<1>. USE SameCall DEF IInv
<1>1. CASE sent' = sent
  BY <1>1 DEF KeyKept
<1>2. CASE Leaves
  <2>. DEFINE r == [what |-> Purpose, credentials |-> Credentials(client), verified |-> client.verified]
  <2>1. sent' = sent \cup {r}
    BY <1>2 DEF Leaves
  <2>2. r.what = "diagnostics" => Verbose(v) /\ r.credentials # "key"
    <3>1. command # "diagnostics"
      BY CommandNames DEF TypeOK
    <3>2. reason # "none" => Verbose(v) /\ Credentials(client) # "key"
      BY CredentialFacts DEF Course, ClientInUse
    <3>. QED  BY <3>1, <3>2 DEF Purpose
  <2>3. r.credentials = "key" => r.verified = LoadAPIParams(v).verify
    <3>1. reason # "none" => Credentials(client) # "key"
      BY CredentialFacts DEF ClientInUse
    <3>. QED  BY <3>1 DEF ClientInUse
  <2>. HIDE DEF r
  <2>. QED  BY <2>1, <2>2, <2>3 DEF KeyKept
<1>. QED  BY <1>1, <1>2

(* What the failure of a request means for the exit code.                    *)
LEMMA CodeFailed ==
  ASSUME IInv, pc \in {"send", "do"}, NEW outcome \in {"auth", "bad", "api"}, Failed(outcome), call' = call
  PROVE  CodeKnown'
<1>. USE SameCall DEF IInv
<1>1. heard' = heard \cup {<<Purpose, outcome>>}
  BY DEF Failed
<1>2. command \in Range(Commands) /\ "diagnostics" \notin Range(Commands)
  BY CommandNames DEF TypeOK, Course
<1>3. CASE reason = "none"
  <2>1. Returned(ExitCode(outcome)) /\ Purpose = command
    BY <1>3 DEF Failed, Purpose
  <2>2. Ended /\ code' = ExitCode(outcome) /\ reason' # "panic"
    BY <2>1, ReturnedFacts DEF Returned, Return, Exit, Diagnose
  <2>3. CameTo("auth") = {} /\ CameTo("api") = {}
    BY <1>2, <1>3 DEF CodeKnown, CodeTells, CameTo
  <2>4. CameTo("auth")' = (IF outcome = "auth" THEN {command} ELSE {})
    BY <1>1, <1>2, <2>1, <2>3 DEF CameTo
  <2>5. CameTo("api")' = (IF outcome = "api" THEN {command} ELSE {})
    BY <1>1, <1>2, <2>1, <2>3 DEF CameTo
  <2>6. CASE command = "sync-offline-activity"
    <3>1. code' = ErrGeneric
      BY <2>2, <2>6 DEF ExitCode
    <3>2. CodeTells'
      BY <2>4, <2>5, <2>6, <3>1, Codes DEF CodeTells
    <3>. QED  BY <2>2, <3>1, <3>2, Codes DEF CodeKnown, Ended
  <2>7. CASE command # "sync-offline-activity"
    <3>1. code' = IF outcome = "auth" THEN ErrAuth ELSE IF outcome = "api" THEN ErrAPI ELSE ErrGeneric
      BY <2>2, <2>7 DEF ExitCode
    <3>2. CodeTells'
      BY <2>4, <2>5, <3>1, Codes DEF CodeTells
    <3>. QED  BY <2>2, <3>1, <3>2, Codes DEF CodeKnown, Ended
  <2>. QED  BY <2>6, <2>7
<1>4. CASE reason # "none"
  <2>1. Diagnosed /\ Purpose = "diagnostics" /\ code \notin {Success, ErrAuth}
    BY <1>4 DEF Failed, Purpose, CodeKnown
  <2>2. pc' = "exit" /\ reason' = "none" /\ code' = code
    BY <1>4, <2>1, DiagnosedFacts DEF CodeKnown
  <2>3. CameTo("auth")' = CameTo("auth") /\ CameTo("api")' = CameTo("api")
    BY <1>1, <1>2, <2>1 DEF CameTo
  <2>4. CodeTells'
    BY <2>1, <2>2, <2>3 DEF CodeKnown, CodeTells
  <2>. QED  BY <2>2, <2>4 DEF CodeKnown
<1>. QED  BY <1>3, <1>4

(* A request that fails gives its heartbeats back, unless they are those of  *)
(* a process whose queue is disabled.                                        *)
LEMMA FailedInv ==
  ASSUME IInv, pc \in {"send", "do"}, NEW outcome \in {"auth", "bad", "api"}, Failed(outcome),
         UNCHANGED <<call, client, alreadySent>>, attempts' \in 0..2, KeyKept'
  PROVE  IInv'
<1>. USE SameCall DEF IInv
<1>1. Ended /\ code' \in ExitCodes /\ command' \in Range(Commands)
  <2>1. CASE reason = "none"
    <3>1. Returned(ExitCode(outcome))
      BY <2>1 DEF Failed
    <3>2. ExitCode(outcome) \in ExitCodes
      BY CodeFacts, Codes
    <3>. QED  BY <3>1, <3>2, ReturnedFacts, CommandNames DEF Ended, TypeOK, Course
  <2>2. CASE reason # "none"
    <3>1. Diagnosed /\ code # Success
      BY <2>2 DEF Failed, CodeKnown
    <3>2. pc' = "exit" /\ command' = command /\ reason' = "none" /\ code' \in {ErrGeneric, code}
      BY <3>1, DiagnosedFacts
    <3>. QED  BY <3>2, Codes DEF Ended, TypeOK, Course
  <2>. QED  BY <2>1, <2>2
<1>2. batch' = <<>> /\ settled' = settled /\ heard' = heard \cup {<<Purpose, outcome>>} /\ Range(batch') = {}
  BY DEF Failed, Range
<1>3. /\ queue' \in {queue, queue \cup Range(batch)}
      /\ Requeues => Range(batch) \subseteq queue'
      /\ ~Requeues => queue' = queue
  <2>1. reason # "none" => Range(batch) = {} /\ queue' = queue
    BY DEF Failed, Course, Range
  <2>2. reason = "none" => queue' = queue \cup (IF Requeues THEN Range(batch) ELSE {})
    BY DEF Failed
  <2>. QED  BY <2>1, <2>2
<1>4. TypeOK'
  BY <1>1, <1>2, <1>3 DEF TypeOK, Ended
<1>5. Course'
  BY <1>1, <1>2 DEF Course, Ended
<1>6. OnePlace'
  BY <1>2, <1>3 DEF OnePlace, TypeOK, Requeues
<1>7. ClientInUse'
  BY <1>1 DEF ClientInUse, Ended
<1>8. CodeKnown'
  BY CodeFailed
<1>9. LossKnown'
  <2>1. Old \cap Range(batch) # {} => Requeues
    BY ReportFacts DEF Course, OnePlace, Requeues, TypeOK, Range
  <2>2. ~Disabled => Requeues
    BY DEF Requeues
  <2>3. queue \subseteq queue' /\ heard \subseteq heard'
    BY <1>2, <1>3
  <2>. QED  BY <1>2, <1>3, <2>1, <2>2, <2>3 DEF LossKnown
<1>. QED  BY <1>4, <1>5, <1>6, <1>7, <1>8, <1>9
(* A panic takes the heartbeats of its request with it.                      *)
LEMMA PanickedInv ==
  ASSUME IInv, pc = "do", Panicked, reason # "none" => Proxy(v) \in Ntlm,
         UNCHANGED <<call, client, alreadySent>>, attempts' \in 0..2, KeyKept'
  PROVE  IInv'
<1>. USE SameCall DEF IInv
<1>1. Ended /\ code' = (IF reason = "panic" THEN Crashed ELSE ErrGeneric) /\ command' = command
  BY PanicFacts DEF Panicked
<1>2. /\ batch' = <<>> /\ heard' = heard \cup {<<Purpose, "panic">>} /\ Range(batch') = {}
      /\ UNCHANGED <<queue, settled>>
  BY DEF Panicked, Range
<1>3. command \in Range(Commands) /\ "diagnostics" \notin Range(Commands)
  BY CommandNames DEF TypeOK, Course
<1>4. TypeOK'
  BY <1>1, <1>2, Codes DEF TypeOK, Ended
<1>5. Course'
  BY <1>1, <1>2 DEF Course, Ended
<1>6. OnePlace'
  BY <1>1, <1>2 DEF OnePlace
<1>7. ClientInUse'
  BY <1>1 DEF ClientInUse, Ended
<1>8. CodeKnown'
  <2>1. CameTo("auth")' = CameTo("auth") /\ CameTo("api")' = CameTo("api")
    BY <1>2 DEF CameTo
  <2>2. CameTo("auth") \ {"sync-offline-activity"} = {}
    BY CommandNames, Codes DEF CodeKnown, CodeTells, CameTo
  <2>3. CameTo("api") \ {"sync-offline-activity"} # {} => Verbose(v) /\ Proxy(v) \in Ntlm
    <3>1. CASE reason = "none"
      BY <1>3, <3>1 DEF CodeKnown, CodeTells, CameTo, Course
    <3>2. CASE reason # "none"
      BY <3>2 DEF Course
    <3>. QED  BY <3>1, <3>2
  <2>4. CodeTells'
    BY <1>1, <2>1, <2>2, <2>3, Codes DEF CodeTells, Course
  <2>5. reason' = "panic" => code' = ErrGeneric
    BY <1>1 DEF Panicked, Panic, Exit, Diagnose
  <2>. QED  BY <1>1, <2>4, <2>5, Codes DEF CodeKnown, Ended
<1>9. LossKnown'
  <2>1. CASE reason = "none"
    <3>1. <<command, "panic">> \in heard'
      BY <1>2, <2>1 DEF Purpose
    <3>2. Old \cap Range(batch) # {} => command = "sync-offline-activity"
      BY ReportFacts DEF Course, OnePlace, TypeOK, Range
    <3>3. heard \subseteq heard'
      BY <1>2
    <3>. QED  BY <1>2, <1>3, <3>1, <3>2, <3>3 DEF LossKnown
  <2>2. CASE reason # "none"
    <3>1. Range(batch) = {}
      BY <2>2 DEF Course, Range
    <3>2. heard \subseteq heard'
      BY <1>2
    <3>. QED  BY <1>2, <3>1, <3>2 DEF LossKnown
  <2>. QED  BY <2>1, <2>2
<1>. QED  BY <1>4, <1>5, <1>6, <1>7, <1>8, <1>9

(* WithBackoff refuses a request or lets it pass.                            *)
LEMMA BackoffInv == IInv /\ Backoff => IInv'
<1>. SUFFICES ASSUME IInv, Backoff PROVE IInv'
  OBVIOUS
<1>1. /\ pc = "send" /\ reason = "none" /\ command = "entity" /\ call.parses
      /\ UNCHANGED <<call, client, attempts, alreadySent, sent>>
  BY DEF Backoff, IInv, Course
<1>2. CASE Failed("api")
  <2>1. attempts' \in 0..2 /\ KeyKept'
    BY <1>1, SameCall DEF IInv, TypeOK, KeyKept
  <2>. QED  BY <1>1, <1>2, <2>1, FailedInv
<1>3. CASE pc' = "do" /\ UNCHANGED <<command, batch, reason, code, queue, settled, heard>>
  <2>. USE SameCall DEF IInv
  <2>1. TypeOK'
    BY <1>1, <1>3 DEF TypeOK
  <2>2. Course'
    BY <1>1, <1>3 DEF Course
  <2>3. OnePlace'
    BY <1>1, <1>3 DEF OnePlace
  <2>4. ClientInUse'
    BY <1>1, <1>3 DEF ClientInUse
  <2>5. KeyKept'
    BY <1>1 DEF KeyKept
  <2>6. CodeKnown'
    BY <1>1, <1>3 DEF CodeKnown, CodeTells, CameTo
  <2>7. LossKnown'
    BY <1>1, <1>3 DEF LossKnown
  <2>. QED  BY <2>1, <2>2, <2>3, <2>4, <2>5, <2>6, <2>7
<1>. QED  BY <1>2, <1>3 DEF Backoff
(* A request without an answer is sent again, once, if there is a layer that *)
(* retries.                                                                  *)
LEMMA UnansweredInv == IInv /\ Unanswered => IInv'
<1>. SUFFICES ASSUME IInv, Unanswered PROVE IInv'
  OBVIOUS
<1>1. /\ pc = "do" /\ attempts' = attempts + 1 /\ UNCHANGED <<call, alreadySent>>
      /\ Leaves \/ sent' = sent
  BY DEF Unanswered
<1>2. /\ attempts \in 0..2 /\ attempts <= (IF client.negotiator THEN 1 ELSE 0)
      /\ client.negotiator \in BOOLEAN
      /\ "retry" \in Range(client.doFunc) => Proxy(v) \in Ntlm
  BY <1>1 DEF IInv, TypeOK, ClientInUse
<1>3. attempts' \in 0..2 /\ (~client.negotiator => attempts' = 1)
  BY <1>1, <1>2
<1>4. KeyKept'
  BY <1>1, LeavesKept
<1>5. CASE Failed("api") /\ UNCHANGED client
  BY <1>1, <1>3, <1>4, <1>5, FailedInv
<1>6. CASE "retry" \in Range(client.doFunc) /\ Panicked /\ UNCHANGED client
  BY <1>1, <1>2, <1>3, <1>4, <1>6, PanickedInv
<1>7. CASE /\ "retry" \in Range(client.doFunc) /\ PlainTransport(client)
           /\ client' = WithNTLM(client)
           /\ UNCHANGED <<pc, command, batch, reason, code, queue, settled, heard>>
  <2>. USE SameCall DEF IInv
  <2>1. ~client.negotiator
    BY <1>7 DEF PlainTransport
  <2>2. client.doFunc = IF reason = "none" THEN <<"retry", "key">> ELSE <<"retry">>
    <3>1. "retry" \notin Range(<<"key">>) /\ "retry" \notin Range(<<>>)
      BY DEF Range
    <3>. QED  BY <1>1, <1>7, <2>1, <3>1 DEF ClientInUse
  <2>3. DOMAIN client = {"url", "doFunc", "negotiator", "verified"}
    BY DEF TypeOK, NoClient
  <2>4. /\ client'.doFunc = <<"ntlm">> \o client.doFunc /\ DOMAIN client' = DOMAIN client
        /\ client'.negotiator = TRUE /\ client'.verified = client.verified
    BY <1>7, <2>3 DEF WithNTLM
  <2>5. client'.doFunc = IF reason = "none" THEN <<"ntlm", "retry", "key">> ELSE <<"ntlm", "retry">>
    BY <2>2, <2>4, Layered DEF Layer
  <2>6. client'.doFunc \in Seq({"key", "ntlm", "retry"})
    <3>1. /\ <<"ntlm", "retry", "key">> \in Seq({"key", "ntlm", "retry"})
          /\ <<"ntlm", "retry">> \in Seq({"key", "ntlm", "retry"})
      OBVIOUS
    <3>. QED  BY <2>5, <3>1
  <2>7. TypeOK'
    BY <1>1, <1>3, <1>7, <2>4, <2>6 DEF TypeOK
  <2>8. Course'
    BY <1>1, <1>7 DEF Course
  <2>9. OnePlace'
    BY <1>1, <1>7 DEF OnePlace
  <2>10. ClientInUse'
    <3>1. Proxy(v') \in Ntlm
      BY <1>1, <1>2, <1>7
    <3>2. attempts' <= IF client'.negotiator THEN 1 ELSE 0
      BY <1>3, <2>1, <2>4
    <3>3. reason' = "none" => client'.verified = LoadAPIParams(v').verify
      BY <1>1, <1>7, <2>4 DEF ClientInUse
    <3>4. pc' = "do" /\ reason' = reason
      BY <1>1, <1>7
    <3>. QED  BY <2>4, <2>5, <3>1, <3>2, <3>3, <3>4 DEF ClientInUse
  <2>11. CodeKnown'
    BY <1>1, <1>7 DEF CodeKnown, CodeTells, CameTo
  <2>12. LossKnown'
    BY <1>1, <1>7 DEF LossKnown
  <2>. QED  BY <1>4, <2>7, <2>8, <2>9, <2>10, <2>11, <2>12
<1>. QED  BY <1>5, <1>6, <1>7 DEF Unanswered
(* The results of a request are handled once: what they settle is not queued *)
(* again, and if all of them can be read nothing is forgotten.               *)
LEMMA ResultsHandled ==
  ASSUME IInv, NEW parts \in Seq({"ok", "bad", "other"} \cup Unparsable)
  PROVE  /\ Settled(batch, parts) \subseteq Range(batch)
         /\ Again(batch, parts) \subseteq Range(batch)
         /\ Settled(batch, parts) \cap Again(batch, parts) = {}
         /\ (\A n \in DOMAIN parts : parts[n] \notin Unparsable) =>
              Range(batch) \subseteq Settled(batch, parts) \cup Again(batch, parts)
<1>1. DOMAIN parts = 1..Len(parts) /\ Len(parts) \in Nat
  OBVIOUS
<1>2. /\ \A m, n \in DOMAIN batch : batch[m] = batch[n] => m = n
      /\ DOMAIN batch \subseteq Nat \ {0}
  BY DEF IInv, OnePlace
<1>3. Settled(batch, parts) \subseteq Range(batch) /\ Again(batch, parts) \subseteq Range(batch)
  BY DEF Settled, Again, Range
<1>4. Settled(batch, parts) \cap Again(batch, parts) = {}
  <2>. SUFFICES ASSUME NEW m \in DOMAIN batch \cap DOMAIN parts, NEW n \in DOMAIN batch,
                       parts[m] \in {"ok", "bad"}, batch[m] = batch[n],
                       n > Len(parts) \/ (n \in DOMAIN parts /\ parts[n] = "other")
                PROVE  FALSE
    BY DEF Settled, Again
  <2>1. m = n
    BY <1>2
  <2>. QED  BY <1>1, <2>1
<1>5. ASSUME \A n \in DOMAIN parts : parts[n] \notin Unparsable, NEW m \in DOMAIN batch
      PROVE  batch[m] \in Settled(batch, parts) \cup Again(batch, parts)
  <2>1. CASE m \in DOMAIN parts
    <3>1. parts[m] \in {"ok", "bad", "other"}
      BY <1>5, <2>1
    <3>. QED  BY <2>1, <3>1 DEF Settled, Again
  <2>2. CASE m \notin DOMAIN parts
    <3>1. m > Len(parts)
      BY <1>1, <1>2, <2>2
    <3>. QED  BY <3>1 DEF Again
  <2>. QED  BY <2>1, <2>2
<1>6. ASSUME \A n \in DOMAIN parts : parts[n] \notin Unparsable
      PROVE  Range(batch) \subseteq Settled(batch, parts) \cup Again(batch, parts)
  BY <1>5, <1>6 DEF Range
<1>. QED  BY <1>3, <1>4, <1>6

(* What an answer comes to.                                                  *)
LEMMA OutcomeFacts ==
  ASSUME NEW answer \in Answer
  PROVE  /\ Outcome(answer) \in {"ok", "auth", "bad", "api", "panic"}
         /\ Outcome(answer) = "ok" /\ command \notin {"today", "today-goal"} =>
              \A n \in DOMAIN answer.parts : answer.parts[n] \notin Unparsable
<1>1. /\ ParseHeartbeatResponses(answer.parts) \in {"ok", "api", "panic"}
      /\ ParseHeartbeatResponses(answer.parts) = "ok" =>
           \A n \in DOMAIN answer.parts : answer.parts[n] \notin Unparsable
  BY DEF ParseHeartbeatResponses
<1>. QED  BY <1>1 DEF Outcome
(* A request that was answered settles its heartbeats, or queues them again. *)
LEMMA AcceptedInv ==
  ASSUME IInv, pc = "do", NEW answer \in Answer, reason = "none" => Outcome(answer) = "ok",
         heard' = heard \cup {<<Purpose, "ok">>}, batch' = <<>>,
         settled' = settled \cup Settled(batch, answer.parts),
         queue' = queue \cup (IF Requeues THEN Again(batch, answer.parts) ELSE {}),
         IF reason # "none"
         THEN Diagnosed
         ELSE IF command = "sync-offline-activity"
         THEN pc' = "loop" /\ UNCHANGED <<command, reason, code>>
         ELSE Returned(Success),
         UNCHANGED <<call, client, alreadySent>>, attempts' \in 0..2, KeyKept'
  PROVE  IInv'
<1>. USE SameCall DEF IInv
<1>. DEFINE parts == answer.parts
<1>1. /\ Settled(batch, parts) \subseteq Range(batch) /\ Again(batch, parts) \subseteq Range(batch)
      /\ Settled(batch, parts) \cap Again(batch, parts) = {}
      /\ (\A n \in DOMAIN parts : parts[n] \notin Unparsable) =>
           Range(batch) \subseteq Settled(batch, parts) \cup Again(batch, parts)
  <2>1. parts \in Seq({"ok", "bad", "other"} \cup Unparsable)
    BY AnswerAssumption
  <2>. HIDE DEF parts
  <2>. QED  BY <2>1, ResultsHandled
<1>2. Range(batch) \subseteq Settled(batch, parts) \cup Again(batch, parts)
  <2>1. CASE batch = <<>>
    BY <2>1 DEF Range
  <2>2. CASE batch # <<>>
    BY <1>1, <2>2, OutcomeFacts DEF Course
  <2>. QED  BY <2>1, <2>2
<1>3. Range(batch') = {}
  BY DEF Range
<1>4. \/ /\ pc' = "loop" /\ command = "sync-offline-activity" /\ reason = "none"
         /\ UNCHANGED <<command, reason, code>>
      \/ Ended /\ code' = Success /\ reason = "none" /\ reason' = "none"
      \/ Ended /\ code' \in {ErrGeneric, code} /\ reason # "none" /\ reason' = "none" /\ pc' = "exit"
         /\ (reason # "panic" => code' = code)
  <2>1. CASE reason # "none"
    <3>1. Diagnosed /\ code # Success
      BY <2>1 DEF CodeKnown
    <3>2. /\ pc' = "exit" /\ command' = command /\ reason' = "none"
          /\ code' = IF reason = "panic" THEN ErrGeneric ELSE code
      BY <3>1, DiagnosedFacts
    <3>. QED  BY <2>1, <3>2 DEF Ended
  <2>2. CASE reason = "none" /\ command # "sync-offline-activity"
    <3>1. Returned(Success)
      BY <2>2
    <3>2. reason' = "none"
      BY <3>1 DEF Returned, Return, Exit
    <3>. QED  BY <2>2, <3>1, <3>2, ReturnedFacts
  <2>. QED  BY <2>1, <2>2
<1>. HIDE DEF parts
<1>5. /\ queue' = queue \cup (IF Requeues THEN Again(batch, parts) ELSE {})
      /\ settled' = settled \cup Settled(batch, parts)
  BY DEF parts
<1>6. command' \in Range(Commands) /\ command # "none" /\ call.parses
  BY <1>4, CommandNames DEF Ended, TypeOK, Course
<1>7. TypeOK'
  <2>1. pc' \in {"run", "exit", "diagnose", "loop"} /\ reason' \in {"none", "error", "panic"} /\ code' \in ExitCodes
    BY <1>4, Codes DEF Ended, TypeOK
  <2>2. queue' \subseteq Old \cup Reported /\ settled' \subseteq Old \cup Reported
    BY <1>1, <1>5 DEF TypeOK
  <2>. QED  BY <1>3, <1>6, <2>1, <2>2 DEF TypeOK
<1>8. Course'
  BY <1>4, <1>6 DEF Course, Ended
<1>9. OnePlace'
  <2>1. queue' \cap settled' = {}
    BY <1>1, <1>5 DEF OnePlace, TypeOK
  <2>2. Disabled => queue' \subseteq Old
    BY <1>1, <1>5 DEF OnePlace, Requeues
  <2>. QED  BY <1>3, <2>1, <2>2 DEF OnePlace
<1>10. ClientInUse'
  BY <1>4 DEF ClientInUse, Ended
<1>11. CodeKnown'
  <2>1. command \in Range(Commands) /\ "diagnostics" \notin Range(Commands)
    BY <1>6, CommandNames DEF TypeOK
  <2>2. CameTo("auth")' = CameTo("auth") /\ CameTo("api")' = CameTo("api")
    BY DEF CameTo
  <2>3. CASE reason = "none"
    <3>1. code = Success /\ code' = Success /\ reason' = "none"
      BY <1>4, <2>3 DEF CodeKnown, Course
    <3>2. \A h \in heard' : h[1] # "diagnostics" => h[2] = "ok"
      BY <3>1 DEF CodeKnown, CodeTells
    <3>3. CodeTells'
      BY <2>2, <3>1, <3>2, Codes DEF CodeKnown, CodeTells
    <3>. QED  BY <3>1, <3>3, Codes DEF CodeKnown
  <2>4. CASE reason # "none"
    <3>1. code \notin {Success, ErrAuth} /\ code' = code /\ pc' = "exit" /\ reason' = "none"
      BY <1>4, <2>4 DEF CodeKnown
    <3>2. CodeTells'
      BY <2>2, <3>1 DEF CodeKnown, CodeTells
    <3>. QED  BY <3>1, <3>2 DEF CodeKnown
  <2>. QED  BY <2>3, <2>4
<1>12. LossKnown'
  <2>1. Old \cap Range(batch) # {} => Requeues
    BY ReportFacts DEF Course, OnePlace, Requeues, TypeOK, Range
  <2>2. ~Disabled => Requeues
    BY DEF Requeues
  <2>3. Requeues => queue \cup settled \cup Range(batch) \subseteq queue' \cup settled'
    BY <1>2, <1>5
  <2>4. queue \subseteq queue' /\ settled \subseteq settled' /\ heard \subseteq heard'
    BY <1>5
  <2>. QED  BY <1>3, <2>1, <2>2, <2>3, <2>4 DEF LossKnown
<1>. QED  BY <1>7, <1>8, <1>9, <1>10, <1>11, <1>12

(* Whatever the answer to a request is.                                      *)
LEMMA AnsweredInv == IInv /\ Answered => IInv'
<1>. SUFFICES ASSUME IInv, Answered PROVE IInv'
  OBVIOUS
<1>1. pc = "do" /\ attempts' = attempts + 1 /\ Leaves /\ UNCHANGED <<call, client, alreadySent>>
  BY DEF Answered
<1>2. attempts' \in 0..2
  BY <1>1 DEF IInv, TypeOK, ClientInUse
<1>3. KeyKept'
  BY <1>1, LeavesKept
<1>4. PICK answer \in Answer :
        LET outcome == IF reason = "none" THEN Outcome(answer) ELSE "ok"
        IN  \/ outcome = "panic" /\ Panicked
            \/ outcome \in {"auth", "bad", "api"} /\ Failed(outcome)
            \/ /\ outcome = "ok"
               /\ heard' = heard \cup {<<Purpose, "ok">>}
               /\ batch' = <<>>
               /\ settled' = settled \cup Settled(batch, answer.parts)
               /\ queue' = queue \cup (IF Requeues THEN Again(batch, answer.parts) ELSE {})
               /\ IF reason # "none"
                  THEN Diagnosed
                  ELSE IF command = "sync-offline-activity"
                  THEN pc' = "loop" /\ UNCHANGED <<command, reason, code>>
                  ELSE Returned(Success)
  BY DEF Answered
<1>. DEFINE outcome == IF reason = "none" THEN Outcome(answer) ELSE "ok"
<1>5. CASE outcome = "panic" /\ Panicked
  BY <1>1, <1>2, <1>3, <1>5, PanickedInv
<1>6. CASE outcome \in {"auth", "bad", "api"} /\ Failed(outcome)
  <2>. HIDE DEF outcome
  <2>. QED  BY <1>1, <1>2, <1>3, <1>6, FailedInv
<1>7. CASE outcome = "ok" /\ ~(outcome = "panic" /\ Panicked)
                          /\ ~(outcome \in {"auth", "bad", "api"} /\ Failed(outcome))
  <2>1. reason = "none" => Outcome(answer) = "ok"
    BY <1>7
  <2>. QED  BY <1>1, <1>2, <1>3, <1>4, <1>7, <2>1, AcceptedInv
<1>. QED  BY <1>4, <1>5, <1>6, <1>7
(* The client of diagnostics has no key.                                     *)
LEMMA DiagnosticsClientFacts ==
  ASSUME NEW api
  PROVE  LET c == DiagnosticsClient(api)
         IN  /\ c.doFunc \in {<<>>, <<"retry">>} /\ c.negotiator = FALSE
             /\ "retry" \in Range(c.doFunc) => api.proxy \in Ntlm
             /\ c.doFunc \in Seq({"key", "ntlm", "retry"}) /\ DOMAIN c = DOMAIN NoClient
<1>1. newClient(api, <<>>).doFunc = IF api.proxy \in Ntlm THEN <<"retry">> ELSE <<>>
  <2>1. <<"retry">> \o <<>> = <<"retry">> /\ <<>> \o <<>> = <<>>
    BY Layered, ConcatEmptySeq DEF Layer
  <2>. QED  BY <2>1 DEF newClient
<1>2. newClient(api, <<>>).negotiator = FALSE /\ DOMAIN newClient(api, <<>>) = DOMAIN NoClient
  BY DEF newClient, NoClient
<1>3. /\ DiagnosticsClient(api).doFunc = newClient(api, <<>>).doFunc
      /\ DiagnosticsClient(api).negotiator = newClient(api, <<>>).negotiator
      /\ DOMAIN DiagnosticsClient(api) = DOMAIN newClient(api, <<>>)
  <2>. DEFINE n == newClient(api, <<>>)
  <2>1. DiagnosticsClient(api) = [n EXCEPT !.verified = FALSE]
    BY DEF DiagnosticsClient, WithDisableSSLVerify
  <2>2. DOMAIN n = {"url", "doFunc", "negotiator", "verified"}
    BY DEF newClient
  <2>. HIDE DEF n
  <2>3. /\ [n EXCEPT !.verified = FALSE].doFunc = n.doFunc
        /\ [n EXCEPT !.verified = FALSE].negotiator = n.negotiator
        /\ DOMAIN [n EXCEPT !.verified = FALSE] = DOMAIN n
    BY <2>2
  <2>. QED  BY <2>1, <2>3 DEF n
<1>4. "retry" \notin Range(<<>>)
  BY DEF Range
<1>5. <<"retry">> \in Seq({"key", "ntlm", "retry"}) /\ <<>> \in Seq({"key", "ntlm", "retry"})
  OBVIOUS
<1>. QED  BY <1>1, <1>2, <1>3, <1>4, <1>5

(* Diagnostics are sent, or there is no client to send them.                 *)
LEMMA DiagnosticsInv == IInv /\ SendDiagnostics => IInv'
<1>. SUFFICES ASSUME IInv, SendDiagnostics PROVE IInv'
  OBVIOUS
<1>. USE SameCall DEF IInv
<1>. DEFINE api == LoadAPIParams(v)
<1>1. /\ pc = "diagnose" /\ reason # "none" /\ batch = <<>> /\ code \notin {Success, ErrAuth}
      /\ reason = "panic" => code = ErrGeneric
      /\ UNCHANGED <<call, batch, alreadySent, queue, settled, sent, heard>>
  BY DEF SendDiagnostics, Course, CodeKnown, history
<1>2. KeyKept' /\ OnePlace'
  <2>1. KeyKept'
    BY <1>1 DEF KeyKept
  <2>2. Diagnosed => command' = command
    BY <1>1, DiagnosedFacts
  <2>3. command' = command
    BY <2>2 DEF SendDiagnostics
  <2>. QED  BY <1>1, <2>1, <2>3 DEF OnePlace
<1>3. CASE Diagnosed /\ UNCHANGED <<client, attempts>>
  <2>1. pc' = "exit" /\ command' = command /\ reason' = "none" /\ code' = code
    BY <1>1, <1>3, DiagnosedFacts
  <2>2. TypeOK'
    BY <1>1, <1>3, <2>1 DEF TypeOK
  <2>3. Course'
    BY <1>1, <2>1 DEF Course
  <2>4. ClientInUse'
    BY <2>1 DEF ClientInUse
  <2>5. CodeKnown'
    BY <1>1, <2>1 DEF CodeKnown, CodeTells, CameTo
  <2>6. LossKnown'
    BY <1>1, <2>1 DEF LossKnown
  <2>. QED  BY <1>2, <2>2, <2>3, <2>4, <2>5, <2>6
<1>4. CASE /\ client' = DiagnosticsClient(api) /\ attempts' = 0 /\ pc' = "do"
           /\ UNCHANGED <<command, reason, code>>
  <2>1. /\ client'.doFunc \in {<<>>, <<"retry">>} /\ client'.negotiator = FALSE
        /\ "retry" \in Range(client'.doFunc) => api.proxy \in Ntlm
        /\ client'.doFunc \in Seq({"key", "ntlm", "retry"}) /\ DOMAIN client' = DOMAIN NoClient
    <3>. HIDE DEF api
    <3>. QED  BY <1>4, DiagnosticsClientFacts
  <2>2. "retry" \in Range(client'.doFunc) => Proxy(v') \in Ntlm
    BY <1>1, <2>1, APIFacts, ProxyAssumption
  <2>3. TypeOK'
    <3>1. attempts' \in 0..2 /\ pc' = "do" /\ UNCHANGED <<command, reason, code>>
      BY <1>4
    <3>2. /\ client'.doFunc \in Seq({"key", "ntlm", "retry"}) /\ DOMAIN client' = DOMAIN NoClient
          /\ client'.negotiator \in BOOLEAN
      BY <2>1
    <3>. HIDE DEF api
    <3>. QED  BY <1>1, <3>1, <3>2 DEF TypeOK
  <2>4. Course'
    BY <1>1, <1>4 DEF Course
  <2>5. ClientInUse'
    <3>1. reason' # "none" /\ attempts' <= IF client'.negotiator THEN 1 ELSE 0
      BY <1>1, <1>4, <2>1
    <3>2. client'.doFunc \in {<<>>, <<"retry">>} /\ ~client'.negotiator
      BY <2>1
    <3>. HIDE DEF api
    <3>. QED  BY <2>2, <3>1, <3>2 DEF ClientInUse
  <2>6. CodeKnown'
    BY <1>1, <1>4 DEF CodeKnown, CodeTells, CameTo
  <2>7. LossKnown'
    BY <1>1, <1>4 DEF LossKnown
  <2>. QED  BY <1>2, <2>3, <2>4, <2>5, <2>6, <2>7
<1>. QED  BY <1>3, <1>4 DEF SendDiagnostics

-----------------------------------------------------------------------------
(* The theorems                                                              *)

(* Every step keeps the invariant.                                           *)
LEMMA InvNext == IInv /\ [Next]_vars => IInv'
<1>. SUFFICES ASSUME IInv, [Next]_vars PROVE IInv'
  OBVIOUS
<1>1. CASE UNCHANGED vars
  <2>. USE <1>1, SameCall DEF IInv, vars, run, history
  <2>1. TypeOK'
    BY DEF TypeOK
  <2>2. Course'
    BY DEF Course
  <2>3. OnePlace'
    BY DEF OnePlace
  <2>4. ClientInUse'
    BY DEF ClientInUse
  <2>5. KeyKept'
    BY DEF KeyKept
  <2>6. CodeKnown'
    BY DEF CodeKnown, CodeTells, CameTo
  <2>7. LossKnown'
    BY DEF LossKnown
  <2>. QED  BY <2>1, <2>2, <2>3, <2>4, <2>5, <2>6, <2>7
<1>. QED
  BY <1>1, ParseInv, SelectInv, LocalInv, HeartbeatInv, FetchInv, SyncInv, PopInv, DoneInv,
     BackoffInv, UnansweredInv, AnsweredInv, DiagnosticsInv
     DEF Next

(* The inductive invariant.                                                  *)
THEOREM CommandInvariant == Spec => []IInv
<1>. QED  BY InvInit, InvNext, PTL DEF Spec

(* Requests are bounded: no more than one retry with NTLM, and no heartbeat  *)
(* in a request that is somewhere else too.                                  *)
THEOREM TypeCorrect == Spec => []TypeOK
<1>1. IInv => TypeOK
  BY DEF IInv
<1>. QED  BY <1>1, CommandInvariant, PTL

(* Diagnostics never carry the api key, and requests with it are verified    *)
(* unless the user wants otherwise.                                          *)
THEOREM KeyIsKept == Spec => []KeyKept
<1>1. IInv => KeyKept
  BY DEF IInv
<1>. QED  BY <1>1, CommandInvariant, PTL

(* The exit code tells what the requests came to.                            *)
THEOREM ExitCodeIsTrue == Spec => []ExitCodeTells
<1>1. IInv => ExitCodeTells
  BY DEF IInv, CodeKnown, ExitCodeTells
<1>. QED  BY <1>1, CommandInvariant, PTL

(* A process loses heartbeats only with a reason.                            *)
THEOREM LossHasReason == Spec => []LossExplained
<1>1. ASSUME IInv PROVE LossExplained
  <2>. SUFFICES ASSUME pc = "exit" PROVE LossExplained
    BY DEF LossExplained
  <2>1. Range(batch) = {}
    BY <1>1 DEF IInv, Course, Range
  <2>2. Lost \cap Old # {} => <<"sync-offline-activity", "panic">> \in heard
    BY <1>1, <2>1, ReportFacts DEF IInv, LossKnown, Lost, TypeOK
  <2>3. Lost \ Old # {} => Reports /\ ~(Reported \subseteq queue \cup settled)
    BY DEF Lost
  <2>. QED  BY <1>1, <2>1, <2>2, <2>3 DEF IInv, LossKnown, LossExplained
<1>. QED  BY <1>1, CommandInvariant, PTL

(* What a disabled queue takes in is what a sync has taken out.              *)
THEOREM DisabledQueueStays == Spec => DisabledStaysOut
<1>1. IInv' /\ [Next]_vars => [Disabled => queue' \ queue \subseteq Old]_vars
  <2>. SUFFICES ASSUME IInv', [Next]_vars, Disabled PROVE queue' \ queue \subseteq Old
    OBVIOUS
  <2>1. call' = call
    BY DEF Next, vars, run, ParseFails, SelectCommand, RunLocal, RunHeartbeat, RunFetch, RunSync, PopBatch,
           SyncDone, Backoff, Unanswered, Answered, SendDiagnostics
  <2>. QED  BY <2>1, SameCall DEF IInv, OnePlace
<1>. QED  BY <1>1, CommandInvariant, PTL DEF Spec, DisabledStaysOut

(* A batch of a sync is within its limits.                                   *)
THEOREM BatchesAreBounded == Spec => BatchesBounded
<1>1. IInv /\ [Next]_vars =>
        [pc = "loop" /\ pc' = "do" =>
           Len(batch') <= SendLimit /\ alreadySent + Len(batch') <= Limit /\ alreadySent' <= Limit]_vars
  <2>. SUFFICES ASSUME IInv, [Next]_vars, pc = "loop", pc' = "do"
                PROVE  Len(batch') <= SendLimit /\ alreadySent + Len(batch') <= Limit /\ alreadySent' <= Limit
    OBVIOUS
  <2>1. PopBatch
    <3>1. ~UNCHANGED vars
      BY DEF vars
    <3>2. SyncDone => Ended
      BY ReturnedFacts DEF SyncDone
    <3>. QED  BY <3>1, <3>2 DEF Next, Ended, ParseFails, SelectCommand, RunLocal, RunHeartbeat, RunFetch,
                   RunSync, Backoff, Unanswered, Answered, SendDiagnostics
  <2>2. PICK k \in Nat : \E hh \in [1..k -> queue] :
          /\ k <= SendLimit /\ alreadySent + k <= Limit
          /\ \A m, n \in DOMAIN hh : m < n => hh[m] < hh[n]
          /\ queue' = queue \ Range(hh) /\ batch' = hh
          /\ alreadySent' \in 0..Limit
    BY <2>1, PopFacts
  <2>3. Len(batch') = k
    BY <2>2
  <2>. QED  BY <2>2, <2>3, OfflineFacts
<1>. QED  BY <1>1, CommandInvariant, PTL DEF Spec, BatchesBounded
=============================================================================
