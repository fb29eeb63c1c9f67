------------------------------ MODULE Command -------------------------------
(* One process of wakatime-cli from its start to its exit code: cmd/run.go   *)
(* with the commands it runs, the client of the API they share, the          *)
(* diagnostics sent when one of them fails, and the panics on the way.       *)
(*                                                                           *)
(* The offline queue works and holds Old at first, heartbeats have one api   *)
(* key, and a report fits into one request: other modules are about what     *)
(* happens when that is not so.                                              *)
EXTENDS Parameters, FiniteSets, FiniteSetsExt

CONSTANTS
  Call,          \* the ways to start the process: [v, stdin, open, parses]
  Old,           \* the heartbeats in the offline queue at first
  Answer,        \* the answers of the API: [status, json, parts]
  SendLimit,     \* offline.SendLimit
  ValidGoal,     \* identifiers in the format of a goal's
  Ntlm,          \* proxies with a domain, which are credentials for NTLM
  UrlError,      \* proxies in a known format that url.Parse refuses
  BadCert        \* certificate files that cannot be read

ASSUME LimitAssumption == SendLimit \in Nat \ {0}
ASSUME ProxyAssumption == "" \notin Ntlm
ASSUME CallAssumption == \A c \in Call : c.stdin \in Seq(Range(c.stdin))

Success == 0
ErrGeneric == 1
Crashed == 2                 \* of Go's runtime, after a panic nobody recovers
ErrAPI == 102
ErrConfigFileParse == 103
ErrAuth == 104
ErrConfigFileRead == 110
ExitCodes == {Success, ErrGeneric, Crashed, ErrAPI, ErrConfigFileParse, ErrAuth, ErrConfigFileRead}

VARIABLES
  call,         \* how the process was started
  pc,           \* start, run (a command), send, do (a request), loop (of Sync), diagnose, stdin, exit
  command,      \* the flag that chose the command
  client,       \* the client of the API in use
  attempts,     \* how often the request in hand was sent
  batch,        \* the heartbeats in the request, which are nowhere else
  alreadySent,  \* of Sync
  reason,       \* why diagnostics are being sent: none (they are not), error, panic
  code,         \* the exit code, unless something changes it
  queue,        \* the offline queue
  settled,      \* heartbeats the API has accepted or rejected for good
  sent,         \* what requests left the process, with which credentials
  heard         \* what each command's requests came to

run == <<call, command>>
history == <<settled, sent, heard>>
vars == <<run, pc, client, attempts, batch, alreadySent, reason, code, queue, history>>

v == call.v
Disabled == LoadOfflineParams(v).disabled
Purpose == IF reason = "none" THEN command ELSE "diagnostics"

(* The heartbeats an editor reports, and those that are built of them        *)
Reported ==
  IF IsSet(v, "entity") THEN 1..1 + (IF GetBool(v, "extra-heartbeats") THEN Len(call.stdin) ELSE 0) ELSE {}
Built == 1..LoadHeartbeatParams(v, call.stdin).count

(* Those in the queue at first are none of them.                             *)
ASSUME OldAssumption ==
  /\ Old \subseteq Int /\ IsFiniteSet(Old)
  /\ \A c \in Call : Old \cap (1..1 + Len(c.stdin)) = {}

-----------------------------------------------------------------------------
(* The client: doFunc is its layers, outermost first.  A layer that sets the *)
(* Authorization header overwrites what those around it have set.            *)

NoClient == [url |-> "", doFunc |-> <<>>, negotiator |-> FALSE, verified |-> TRUE]

ClientFails(api) == (api.verify /\ api.cert \in BadCert) \/ api.proxy \in UrlError

newClient(api, auth) ==
  [url |-> api.url,
   doFunc |-> (IF api.proxy \in Ntlm THEN <<"retry">> ELSE <<>>) \o auth,
   negotiator |-> FALSE,
   verified |-> api.verify]

NewClient(api) == newClient(api, <<"key">>)
WithDisableSSLVerify(c) == [c EXCEPT !.verified = FALSE]
DiagnosticsClientKeyed(api) == WithDisableSSLVerify(NewClient(api))    \* a mutant
DiagnosticsClient(api) == WithDisableSSLVerify(newClient(api, <<>>))

Credentials(c) ==
  LET set == {n \in DOMAIN c.doFunc : c.doFunc[n] \in {"key", "ntlm"}}
  IN  IF set = {} THEN "none" ELSE c.doFunc[Max(set)]

(* Its transport is asserted to be a plain one, which it is until WithNTLM   *)
(* has wrapped it for the first time                                         *)
PlainTransportAssumed(c) == TRUE    \* a mutant
PlainTransport(c) == ~c.negotiator
WithNTLM(c) == [c EXCEPT !.doFunc = <<"ntlm">> \o @, !.negotiator = TRUE]

-----------------------------------------------------------------------------
(* What an answer comes to.  A part of it is about one heartbeat: ok or bad  *)
(* (accepted, rejected), other (an error that may pass), unexplained (an     *)
(* error without a text), short (fewer than two values), malformed (errors   *)
(* of a field that are not a list).  Of a goal, it is a day of its chart.    *)

Unparsable == {"short", "malformed", "unexplained"}

ASSUME AnswerAssumption == \A a \in Answer : a.parts \in Seq({"ok", "bad", "other"} \cup Unparsable)

ParseHeartbeatResponses(parts) ==
  LET failing == {n \in DOMAIN parts : parts[n] \in Unparsable}
  IN  CASE failing = {} -> "ok"
        [] failing # {} -> IF parts[Min(failing)] = "unexplained" THEN "api" ELSE "panic"

Outcome(answer) ==
  CASE answer.status # "ok" -> IF answer.status \in {"auth", "bad"} THEN answer.status ELSE "api"
    [] answer.status = "ok" /\ ~answer.json -> "api"
    [] answer.status = "ok" /\ answer.json ->
         CASE command = "today" -> "ok"
           [] command = "today-goal" -> IF answer.parts = <<>> THEN "panic" ELSE "ok"
           [] OTHER -> ParseHeartbeatResponses(answer.parts)

(* The exit code of an error: WithSync keeps the text of it and not its type *)
ExitCode(outcome) ==
  CASE command = "sync-offline-activity" -> ErrGeneric
    [] command # "sync-offline-activity" ->
         CASE outcome = "auth" -> ErrAuth [] outcome = "api" -> ErrAPI [] OTHER -> ErrGeneric

LoadCode(err) == IF err = "auth" THEN ErrAuth ELSE ErrGeneric

-----------------------------------------------------------------------------
(* SaveHeartbeats: parameters of the API or the queue that do not load leave *)
(* their zero values, with which the queue is enabled                        *)
SaveHeartbeatsAlways(hh) == hh    \* a mutant
SaveHeartbeats(hh) ==
  IF LoadHeartbeatParams(v, call.stdin).err # "" \/ Disabled THEN {} ELSE hh

Requeues == command = "sync-offline-activity" \/ ~Disabled

(* handleResults: what is queued again, results being in the order of hh     *)
WithInvalidStatusOnly(hh, parts) ==    \* a mutant: the leftovers are forgotten
  {hh[n] : n \in {m \in DOMAIN hh \cap DOMAIN parts : parts[m] = "other"}}
Again(hh, parts) ==
  {hh[n] : n \in {m \in DOMAIN hh : m > Len(parts) \/ (m \in DOMAIN parts /\ parts[m] = "other")}}
Settled(hh, parts) ==
  {hh[n] : n \in {m \in DOMAIN hh \cap DOMAIN parts : parts[m] \in {"ok", "bad"}}}

-----------------------------------------------------------------------------
(* How runCmd goes on.  Each sets pc', code', reason' and command'.          *)

Exit(c) == pc' = "exit" /\ code' = c /\ reason' = "none" /\ UNCHANGED command

(* RunCmdWithOfflineSync: a sync follows the heartbeat command's success     *)
ReturnAlways(c) ==    \* a mutant: whatever the heartbeat command returned
  IF command = "entity"
  THEN pc' = "run" /\ command' = "sync-offline-activity" /\ code' = c /\ reason' = "none"
  ELSE Exit(c)
Return(c) ==
  IF command = "entity" /\ c = Success
  THEN pc' = "run" /\ command' = "sync-offline-activity" /\ code' = c /\ reason' = "none"
  ELSE Exit(c)

Diagnose(why) == pc' = "diagnose" /\ reason' = why /\ UNCHANGED command

(* The command returns a code, and an error unless it is Success             *)
Returned(c) ==
  IF c \notin {Success, ErrAuth} /\ Verbose(v) THEN Diagnose("error") /\ code' = c ELSE Return(c)

(* A panic is recovered, but not one while the handler of another is running *)
PanicRecovered ==    \* a mutant: every panic is
  IF Verbose(v) THEN Diagnose("panic") /\ code' = ErrGeneric ELSE Exit(ErrGeneric)
Panic ==
  \/ reason = "panic" /\ Exit(Crashed)
  \/ reason # "panic" /\ Verbose(v) /\ Diagnose("panic") /\ code' = ErrGeneric
  \/ reason # "panic" /\ ~Verbose(v) /\ Exit(ErrGeneric)

(* Diagnostics are sent, or cannot be, which is only logged                  *)
Diagnosed == IF reason = "panic" THEN Exit(ErrGeneric) ELSE Return(code)

-----------------------------------------------------------------------------
Init ==
  /\ call \in Call
  /\ pc = "start" /\ command = "none"
  /\ client = NoClient /\ attempts = 0
  /\ batch = <<>> /\ alreadySent = 0
  /\ reason = "none" /\ code = Success
  /\ queue = Old /\ settled = {} /\ sent = {} /\ heard = {}

(* Run cannot parse the config files: the heartbeats are saved               *)
ParseFails ==
  /\ pc = "start" /\ ~call.parses
  /\ queue' = queue \cup (IF IsSet(v, "entity") THEN SaveHeartbeats(Built) ELSE {})
  /\ Exit(ErrConfigFileParse)
  /\ UNCHANGED <<call, client, attempts, batch, alreadySent, history>>

Commands ==
  <<"useragent", "version", "config-read", "config-write", "today", "today-goal", "entity",
    "sync-offline-activity", "offline-count">>

Chosen(name) ==
  IF name \in {"useragent", "version", "today", "offline-count"} THEN GetBool(v, name) ELSE IsSet(v, name)

First(n) == Chosen(Commands[n]) /\ \A m \in 1..n - 1 : ~Chosen(Commands[m])

SelectCommand ==
  /\ pc = "start" /\ call.parses
  /\ \/ /\ \A n \in DOMAIN Commands : ~Chosen(Commands[n])
        /\ Exit(ErrGeneric)
     \/ \E n \in DOMAIN Commands :
          /\ First(n)
          /\ IF Commands[n] = "useragent"
             THEN Exit(Success)
             ELSE pc' = "run" /\ command' = Commands[n] /\ UNCHANGED <<code, reason>>
  /\ UNCHANGED <<call, client, attempts, batch, alreadySent, queue, history>>

(* The commands that send nothing; the files they use may fail them          *)
LocalCodes ==
  CASE command = "version" -> {Success}
    [] command = "config-read" ->
         LET section == GetString(v, "config-section")
             key == GetString(v, "config-read")
         IN  {IF section = "" \/ key = "" \/ GetString(v, section \o "." \o key) = ""
              THEN ErrConfigFileRead ELSE Success}
    [] command = "config-write" ->
         {ErrConfigFileParse, ErrGeneric}
           \cup (IF GetString(v, "config-section") = "" \/ v["config-write"] = "" THEN {} ELSE {Success})
    [] command = "offline-count" ->
         {ErrGeneric} \cup (IF LoadOfflineParams(v).err = "" THEN {Success} ELSE {})
    [] OTHER -> {}

RunLocal ==
  /\ pc = "run"
  /\ \E c \in LocalCodes : Returned(c)
  /\ UNCHANGED <<call, client, attempts, batch, alreadySent, queue, history>>

(* SaveHeartbeats loads the parameters again, the extra heartbeats included: *)
(* it waits for another line on a stdin that the editor keeps open           *)
ReadsAgain == ~Disabled /\ GetBool(v, "extra-heartbeats") /\ call.open

(* cmd/heartbeat: the parameters are loaded in the order of params.Load      *)
RunHeartbeat ==
  /\ pc = "run" /\ command = "entity"
  /\ LET api == LoadAPIParams(v)
         loaded == LoadHeartbeatParams(v, call.stdin).err = "" /\ LoadOfflineParams(v).err = "" /\ api.err = ""
     IN  \/ /\ ~loaded
            /\ Returned(LoadCode(IF LoadHeartbeatParams(v, call.stdin).err = "" THEN api.err ELSE "heartbeat"))
            /\ UNCHANGED <<client, attempts, batch, queue>>
         \/ /\ loaded /\ ClientFails(api) /\ ReadsAgain
            /\ pc' = "stdin"
            /\ UNCHANGED <<command, client, attempts, batch, queue, reason, code>>
         \/ /\ loaded /\ ClientFails(api) /\ ~ReadsAgain
            /\ queue' = queue \cup SaveHeartbeats(Built)
            /\ Returned(ErrGeneric)
            /\ UNCHANGED <<client, attempts, batch>>
         \/ /\ loaded /\ ~ClientFails(api)
            /\ client' = NewClient(api) /\ attempts' = 0
            /\ batch' = [n \in Built |-> n]
            /\ pc' = "send"
            /\ UNCHANGED <<command, queue, reason, code>>
  /\ UNCHANGED <<call, alreadySent, history>>

(* cmd/today and cmd/todaygoal                                               *)
RunFetch ==
  /\ pc = "run" /\ command \in {"today", "today-goal"}
  /\ LET api == LoadAPIParams(v)
         invalid == command = "today-goal" /\ GetString(v, command) \notin ValidGoal
     IN  \/ /\ api.err # "" \/ invalid \/ ClientFails(api)
            /\ Returned(LoadCode(api.err))
            /\ UNCHANGED <<client, attempts>>
         \/ /\ api.err = "" /\ ~invalid /\ ~ClientFails(api)
            /\ client' = NewClient(api) /\ attempts' = 0
            /\ pc' = "do"
            /\ UNCHANGED <<command, reason, code>>
  /\ UNCHANGED <<call, batch, alreadySent, queue, history>>

(* cmd/offlinesync, by itself or after the heartbeat command                 *)
RunSync ==
  /\ pc = "run" /\ command = "sync-offline-activity"
  /\ LET offline == LoadOfflineParams(v)
         api == LoadAPIParams(v)
     IN  \/ /\ offline.err # ""
            /\ Returned(ErrGeneric)
            /\ UNCHANGED <<client, alreadySent>>
         \/ /\ offline.err = "" /\ api.err # ""
            /\ Returned(LoadCode(api.err))
            /\ UNCHANGED <<client, alreadySent>>
         \/ /\ offline.err = "" /\ api.err = ""
            /\ offline.syncMax = 0 \/ ClientFails(api)
            /\ Returned(IF offline.syncMax = 0 THEN Success ELSE ErrGeneric)
            /\ UNCHANGED <<client, alreadySent>>
         \/ /\ offline.err = "" /\ api.err = "" /\ offline.syncMax # 0 /\ ~ClientFails(api)
            /\ client' = NewClient(api) /\ alreadySent' = 0
            /\ pc' = "loop"
            /\ UNCHANGED <<command, reason, code>>
  /\ UNCHANGED <<call, attempts, batch, queue, history>>

-----------------------------------------------------------------------------
(* Sync: the limit counts only the batch that would go beyond it             *)
Limit == LoadOfflineParams(v).syncMax
NumFull == SendLimit    \* a mutant: every batch is a full one
Num == IF alreadySent + SendLimit > Limit THEN Limit - alreadySent ELSE SendLimit
Counted == IF alreadySent + SendLimit > Limit THEN Num ELSE 0

PopBatch ==
  /\ pc = "loop" /\ alreadySent < Limit /\ queue # {}
  /\ alreadySent' = alreadySent + Counted
  /\ \E hh \in [1..Min({Num, Cardinality(queue)}) -> queue] :
       /\ \A m, n \in DOMAIN hh : m < n => hh[m] < hh[n]
       /\ queue' = queue \ Range(hh)
       /\ batch' = hh
  /\ attempts' = 0
  /\ pc' = "do"
  /\ UNCHANGED <<run, client, reason, code, history>>

SyncDone ==
  /\ pc = "loop" /\ (alreadySent >= Limit \/ queue = {})
  /\ Returned(Success)
  /\ UNCHANGED <<call, client, attempts, batch, alreadySent, queue, history>>

-----------------------------------------------------------------------------
(* Requests                                                                  *)

(* A command's request failed: WithQueue and Sync put its heartbeats back    *)
Failed(outcome) ==
  /\ heard' = heard \cup {<<Purpose, outcome>>}
  /\ batch' = <<>>
  /\ IF reason # "none"
     THEN Diagnosed /\ UNCHANGED queue
     ELSE /\ queue' = queue \cup (IF Requeues THEN Range(batch) ELSE {})
          /\ Returned(ExitCode(outcome))
  /\ UNCHANGED settled

(* Nothing is put back when a panic unwinds                                  *)
Panicked ==
  /\ heard' = heard \cup {<<Purpose, "panic">>}
  /\ batch' = <<>>
  /\ Panic
  /\ UNCHANGED <<queue, settled>>

(* WithBackoff refuses some requests after failures, or lets them pass       *)
Backoff ==
  /\ pc = "send"
  /\ \/ /\ pc' = "do"
        /\ UNCHANGED <<command, batch, reason, code, queue, settled, heard>>
     \/ IsSet(v, "internal.backoff_at") /\ Failed("api")
  /\ UNCHANGED <<call, client, attempts, alreadySent, sent>>

Leaves ==
  sent' = sent \cup {[what |-> Purpose, credentials |-> Credentials(client), verified |-> client.verified]}

(* No answer, or no connection: WithNTLMRequestRetry changes the client it   *)
(* is a layer of and has it send the request again, through this very layer. *)
(* Without a URL there is nowhere to send a request.                         *)
Unanswered ==
  /\ pc = "do"
  /\ IF client.url = "" THEN UNCHANGED sent ELSE Leaves
  /\ attempts' = attempts + 1
  /\ \/ "retry" \notin Range(client.doFunc) /\ Failed("api") /\ UNCHANGED client
     \/ /\ "retry" \in Range(client.doFunc) /\ PlainTransport(client)
        /\ client' = WithNTLM(client)
        /\ UNCHANGED <<pc, command, batch, reason, code, queue, settled, heard>>
     \/ /\ "retry" \in Range(client.doFunc) /\ ~PlainTransport(client)
        /\ Panicked /\ UNCHANGED client
  /\ UNCHANGED <<call, alreadySent>>

Answered ==
  /\ pc = "do" /\ client.url # ""
  /\ Leaves
  /\ attempts' = attempts + 1
  /\ \E answer \in Answer :
       LET outcome == IF reason = "none" THEN Outcome(answer) ELSE "ok"
       IN  \/ outcome = "panic" /\ Panicked
           \/ outcome \in {"auth", "bad", "api"} /\ Failed(outcome)
           \/ /\ outcome = "ok"
              /\ heard' = heard \cup {<<Purpose, "ok">>}
              /\ batch' = <<>>
              /\ settled' = settled \cup Settled(batch, answer.parts)
              /\ queue' = queue \cup (IF Requeues THEN Again(batch, answer.parts) ELSE {})
              /\ IF reason # "none"
                 THEN Diagnosed
                 ELSE IF command = "sync-offline-activity"
                 THEN pc' = "loop" /\ UNCHANGED <<command, reason, code>>
                 ELSE Returned(Success)
  /\ UNCHANGED <<call, client, alreadySent>>

(* sendDiagnostics: an api key that cannot be loaded is no obstacle, but the *)
(* parameters that come with that error have no URL either                   *)
SendDiagnostics ==
  /\ pc = "diagnose"
  /\ LET api == LoadAPIParams(v)
     IN  \/ /\ api.err \notin {"", "auth"} \/ ClientFails(api)
            /\ Diagnosed
            /\ UNCHANGED <<client, attempts>>
         \/ /\ api.err \in {"", "auth"} /\ ~ClientFails(api)
            /\ client' = DiagnosticsClient(api) /\ attempts' = 0
            /\ pc' = "do"
            /\ UNCHANGED <<command, reason, code>>
  /\ UNCHANGED <<call, batch, alreadySent, queue, history>>

Next ==
  \/ ParseFails \/ SelectCommand
  \/ RunLocal \/ RunHeartbeat \/ RunFetch \/ RunSync
  \/ PopBatch \/ SyncDone
  \/ Backoff \/ Unanswered \/ Answered
  \/ SendDiagnostics

Spec == Init /\ [][Next]_vars /\ WF_vars(Next)

-----------------------------------------------------------------------------
(* Every variable has its type; Sync never counts beyond its limit, the      *)
(* heartbeats in a request are nowhere else, and one call of Do sends its    *)
(* request once, and once more with NTLM: the layer that retries, in the way *)
(* of its own retry, ends it with a panic (option.go:108).                   *)
TypeOK ==
  /\ call \in Call
  /\ pc \in {"start", "run", "send", "do", "loop", "diagnose", "stdin", "exit"}
  /\ command \in Range(Commands) \cup {"none"}
  /\ DOMAIN client = DOMAIN NoClient
  /\ client.doFunc \in Seq({"key", "ntlm", "retry"}) /\ client.negotiator \in BOOLEAN
  /\ attempts \in 0..2
  /\ Range(batch) \subseteq Old \cup Reported
  /\ Range(batch) \cap (queue \cup settled) = {}
  /\ alreadySent \in 0..Limit
  /\ reason \in {"none", "error", "panic"} /\ code \in ExitCodes
  /\ queue \subseteq Old \cup Reported /\ settled \subseteq Old \cup Reported

(* The heartbeats of the queue and of a heartbeat command that are no longer *)
(* in the queue, and that the API has neither accepted nor rejected.         *)
Reports == call.parses => \E n \in DOMAIN Commands : First(n) /\ Commands[n] = "entity"
Lost == (Old \cup IF Reports THEN Reported ELSE {}) \ (queue \cup settled)

(* All that must load for a heartbeat to be handled, and for no other        *)
(* heartbeat of the same report to be dropped with a malformed one.          *)
Loads ==
  /\ LoadHeartbeatParams(v, call.stdin).err = "" /\ Built = Reported
  /\ call.parses => LoadAPIParams(v).err = "" /\ LoadOfflineParams(v).err = ""

(* A heartbeat is missing at the end only for a reason: its parameters did   *)
(* not load, its queue is disabled, or a panic went through its request      *)
(* (offline.go:60-76, 150-163; SaveHeartbeats; params.go:344).               *)
LossExplained ==
  pc = "exit" =>
    /\ Lost \cap Old # {} => <<"sync-offline-activity", "panic">> \in heard
    /\ Lost \ Old # {} => ~Loads \/ Disabled \/ \E c \in Range(Commands) : <<c, "panic">> \in heard

(* Who reads the exit code is told the truth by it: ErrAuth means a key that *)
(* the process or the API refused, Success that no request failed, ErrAPI    *)
(* that one did; a key the API refuses for a report is told whatever follows,*)
(* and diagnostics hide another error only if a proxy asks for NTLM          *)
(* (run.go:207-250, heartbeat.go:35-66 of cmd/heartbeat).                    *)
CameTo(outcome) == {c \in Range(Commands) : <<c, outcome>> \in heard}

CodeTells ==
  /\ code = Success => \A h \in heard : h[1] # "diagnostics" => h[2] = "ok"
  /\ code = ErrAuth => LoadAPIParams(v).err = "auth" \/ CameTo("auth") # {}
  /\ code = ErrAPI => CameTo("api") # {}
  /\ CameTo("auth") \ {"sync-offline-activity"} # {} => code = ErrAuth
  /\ CameTo("api") \ {"sync-offline-activity"} # {} => code = ErrAPI \/ (Verbose(v) /\ Proxy(v) \in Ntlm)
  /\ code = Crashed => Verbose(v) /\ Proxy(v) \in Ntlm

ExitCodeTells == pc = "exit" => CodeTells

(* Diagnostics are sent only by a verbose process and never with the api     *)
(* key; and the key never goes over a connection that is not verified,       *)
(* unless the user asked for that, although diagnostics do (run.go:253-285). *)
KeyKept ==
  \A request \in sent :
    /\ request.what = "diagnostics" => Verbose(v) /\ request.credentials # "key"
    /\ request.credentials = "key" => request.verified = LoadAPIParams(v).verify

(* The reports of a process whose queue is disabled never enter the queue,   *)
(* whichever way the process fails; a sync may put back what it took.        *)
DisabledStaysOut == [][Disabled => queue' \ queue \subseteq Old]_vars

(* A batch of a sync is no larger than SendLimit, nor than what is left of a *)
(* limit that it counts towards, which full batches do not                   *)
(* (offline.go:126-135).                                                     *)
BatchesBounded ==
  [][pc = "loop" /\ pc' = "do" =>
       Len(batch') <= SendLimit /\ alreadySent + Len(batch') <= Limit /\ alreadySent' <= Limit]_vars

(* A process ends, however its requests fail and its diagnostics panic, or   *)
(* else Sync puts heartbeats back into the queue again and again, or there   *)
(* is no client and the stdin of extra heartbeats is kept open.              *)
Exits ==
  \/ <>(pc = "exit")
  \/ []<><<queue' \ queue # {}>>_vars
  \/ ClientFails(LoadAPIParams(v)) /\ ReadsAgain
-----------------------------------------------------------------------------
(* Why this is so: what is invariant in every step, on every path a process  *)
(* can take.                                                                 *)

(* The course of a process: heartbeats are in a request only while that of a *)
(* command is on its way, and diagnostics are sent by a verbose process.     *)
Course ==
  /\ pc = "start" => command = "none" /\ queue = Old /\ settled = {} /\ heard = {}
  /\ pc \notin {"start", "exit"} => command # "none" /\ call.parses
  /\ command = "entity" =>
       IsSet(v, "entity") /\ (pc = "run" => queue = Old /\ settled = {} /\ heard = {})
  /\ pc \in {"start", "run", "send", "loop", "stdin", "exit"} => reason = "none"
  /\ pc = "diagnose" => reason # "none"
  /\ pc \in {"send", "stdin"} => command = "entity"
  /\ pc = "loop" => command = "sync-offline-activity"
  /\ reason # "none" => Verbose(v)
  /\ batch # <<>> =>
       /\ pc \in {"send", "do"} /\ reason = "none"
       /\ command \in {"entity", "sync-offline-activity"}

(* A heartbeat is in one place, and once in a request.                       *)
OnePlace ==
  /\ queue \cap settled = {}
  /\ DOMAIN batch \subseteq Nat \ {0}
  /\ \A m, n \in DOMAIN batch : batch[m] = batch[n] => m = n
  /\ command = "entity" => Range(batch) \subseteq Reported
  /\ Disabled =>
       queue \subseteq Old /\ (command = "sync-offline-activity" => Range(batch) \subseteq Old)

(* The layers of the client in use.  The one that retries is there for a     *)
(* proxy that asks for NTLM, and for the second request there is NTLM.       *)
ClientInUse ==
  pc \in {"loop", "send", "do"} =>
    /\ client.doFunc \in
         IF reason = "none"
         THEN IF client.negotiator THEN {<<"ntlm", "retry", "key">>} ELSE {<<"key">>, <<"retry", "key">>}
         ELSE IF client.negotiator THEN {<<"ntlm", "retry">>} ELSE {<<>>, <<"retry">>}
    /\ "retry" \in Range(client.doFunc) => Proxy(v) \in Ntlm
    /\ reason = "none" => client.verified = LoadAPIParams(v).verify
    /\ pc # "loop" => attempts <= IF client.negotiator THEN 1 ELSE 0

(* Until diagnostics are sent nothing has failed.                            *)
CodeKnown ==
  /\ CodeTells
  /\ IF reason = "none" THEN pc # "exit" => code = Success ELSE code \notin {Success, ErrAuth}
  /\ reason = "panic" => code = ErrGeneric

(* What is lost, once the heartbeats of the report are built.                *)
LossKnown ==
  LET kept == queue \cup settled \cup Range(batch)
  IN  /\ Old \subseteq kept \/ <<"sync-offline-activity", "panic">> \in heard
      /\ Reports /\ Loads /\ ~Disabled =>
           \/ pc \in {"start", "stdin"} \/ (pc = "run" /\ command = "entity")
           \/ Reported \subseteq kept
           \/ \E c \in Range(Commands) : <<c, "panic">> \in heard

IInv == TypeOK /\ Course /\ OnePlace /\ ClientInUse /\ KeyKept /\ CodeKnown /\ LossKnown
=============================================================================
