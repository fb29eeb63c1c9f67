# A TLA+ development for wakatime-cli

wakatime-cli is started by editor plugins, once per event. Each process turns
an event into *heartbeats*, tries to deliver them to the WakaTime API, and keeps
in a database file, shared by all processes, what it could not deliver. This
directory holds a model of that system: TLA+ modules translated from the Go
code, TLC configurations that check them on small instances, and proofs, checked
by TLAPS, of the theorems that matter most. Paths are relative to the repository.

## 1. Inventory

### Components, their state and their operations

| component | code | state it keeps | operations |
| --- | --- | --- | --- |
| offline queue | `pkg/offline` | the bucket `heartbeats` of the bolt file `~/.wakatime.bdb`; the file's lock | `popHeartbeats`, `pushHeartbeats`, `CountHeartbeats`, `WithQueue`, `Sync`, `handleResults`, `pushHeartbeatsWithRetry` |
| heartbeat command | `cmd/heartbeat` | the heartbeats of one report, in two goroutines | `SendHeartbeats`, `buildHeartbeats`, `initHandleOptions` |
| offline commands | `cmd/offline`, `cmd/offlinesync`, `cmd/offlinecount` | none of their own | `SaveHeartbeats`, `SyncOfflineActivity`, `Run` |
| run and exit codes | `cmd/run.go`, `cmd/root.go` | the exit code; whether a panic is being handled | `Run`, `RunCmd`, `RunCmdWithOfflineSync`, `sendDiagnostics` |
| API client | `pkg/api`, `cmd/api` | `Client.doFunc` and its transport; two channels per call | `NewClient`, the options, `SendHeartbeats`, `ParseHeartbeatResponses`, the retry of `WithNTLMRequestRetry` |
| backoff | `pkg/backoff` | `backoff_at`, `backoff_retries` in the config file | `WithBackoff` |
| config file | `pkg/ini`, `cmd/configread`, `cmd/configwrite` | `~/.wakatime.cfg`; a mutex of the system | `NewIniWriter`, `Write`, `ReadInConfig` |
| parameters | `cmd/params`, `pkg/vipertools` | stdin, which is read once per load | `LoadAPIParams`, `LoadHeartbeatParams`, `LoadOfflineParams` |
| heartbeat pipeline | `pkg/heartbeat`, `pkg/filter`, `pkg/apikey`, `pkg/filestats` | none; reads the disk | one `HandleOption` each, in the order of `initHandleOptions` |
| remote files | `pkg/remote` | a temporary file | `WithDetection`, `NewClient`, `Download` |
| project detection | `pkg/project` | reads `.git`, `.hg`, ...; reads and writes `.wakatime-project` | `WithDetection`, `Detect`, `DetectWithRevControl`, `WithFiltering` |
| language detection | `pkg/language` | none; reads the disk | `WithDetection`, `Detect` |
| dependency parsers | `pkg/deps` | a small state machine per language | `WithDetection`, `Detect`, one `Parse` each |
| summaries, goals, diagnostics, logging, windows drives, patterns, transport | `pkg/summary`, `pkg/goal`, `pkg/diagnostic`, `pkg/log`, `pkg/windows`, `pkg/regex`, `pkg/api/transport*.go` | none | one request, or pure output |

### How they interact

An editor starts a process (`cmd/root.go`, `cmd/run.go`). `Run` merges the
config files into the parameters and picks a command; if that fails, or a
command cannot have a client, heartbeats are saved without being sent. A command
that fails, or panics, in a verbose process sends diagnostics before it exits.
The heartbeat command builds heartbeats, sends the first `SendLimit` of them
through a chain of `HandleOption`s, which complete and hide what a heartbeat
says and drop what is excluded, and the last of which are `offline.WithQueue`
and `backoff.WithBackoff`, to `api.Client.SendHeartbeats`, and leaves the others
to a goroutine that saves them in the queue. On the way back `WithBackoff`
writes the config file, and `WithQueue` pushes what has not been delivered.
After a success the same process runs the offline sync, which pops a batch,
sends it and deals with the results until the queue is empty or its limit is
reached. Several processes run at once. They share the database file, the config
files, the API, and the files they look at, of which they write the project
files.

### What is hard

* **Interleavings.** Processes share files. Only the database has a
  transaction; the config file is read before its mutex is taken, and a project
  file is looked for, truncated and written without any. Inside one process,
  the goroutine for extra heartbeats races with `os.Exit`, and the goroutines
  for several api keys share the client.
* **Failures.** Each of opening, beginning, working, committing may fail; a
  request may fail before or after the API stored the heartbeats; a push is
  retried; a process may be killed anywhere. Files vanish and downloads fail
  between two options. A panic may unwind through a request, and the diagnostics
  about it may panic too.
* **Order.** Every option works on what the options before it made of a
  heartbeat. Hiding too early breaks those that need the path or the project,
  hiding too late lets something out; and a heartbeat in the queue has not seen
  the options below the queue. A token machine works on what earlier tokens left.
* **Answers.** One answer settles some heartbeats, refuses others, and may have
  fewer or more parts than the request.
* **Time.** The backoff depends on when processes read and write it.
* **Limits.** `SendLimit`, the limit of a sync, the number of retries, the 64
  bits of a `time.Duration`.

### What makes each component correct

* *Offline queue:* calls of any processes behave as if each took effect at one
  instant, or not at all; every call returns.
* *Delivery:* every heartbeat is in exactly one place; results are matched to
  the right heartbeats; nothing is sent twice without a reason; without a fault
  only what a goroutine had still to save is lost; a sync ends.
* *API client:* an answer is an error exactly if a request failed, and result n
  belongs to heartbeat n; every call returns; no heartbeat leaves with the api
  key of another project.
* *Backoff:* nobody backs off forever; an API that is back is noticed; while it
  does not respond, processes do back off.
* *Config file:* what is written stays; nobody else's setting is changed; a
  write ends.
* *Pipeline:* what is excluded or hidden reaches the API on no way; what is
  neither, and has all it needs, does, unless the whole command breaks off; the
  sender groups it under a key the user has given for the entity; a header and
  its source have one language.
* *Remote files:* a file comes only from a host whose key is the known one, or
  whose key the user was not strict about.
* *Project detection:* hidden names stay hidden; a generated name lasts, and
  concurrent commands leave one in the file.
* *Dependency parsers:* a file whose statements are complete gives the
  dependencies of each and no other, in order; what an interrupted import makes
  a parser misread ends with the next import.
* *Run and exit codes:* a process ends; its exit code tells what happened;
  heartbeats go missing only for a reason; a disabled queue is not used; the api
  key does not go where it should not.

`PROJECT.json` lists the components with their status, and under "hazards"
every hazard at its line with the properties that cover it.

## 2. Modules

```
Bucket <- QueueCalls <- AbstractQueue            AbstractSender
   ^          ^               : refined by            : refined by
   |          +--------- OfflineQueue               BulkSend
   +---- Delivery                         Backoff     ConfigFile

TokenParsers <- Dependencies      LanguageDetection <- Pipeline -> RemoteFiles
      ^- MCStatements
                ProjectDetection                       Parameters <- Command
```

| module | what it models |
| --- | --- |
| `Bucket` | the bucket as a set of heartbeats, with `PushMany`, `PopMany` and their failures |
| `QueueCalls` | the three calls on the queue, their outcomes, and the effect of each |
| `AbstractQueue` | what the queue promises: a call is atomic, or has no effect |
| `OfflineQueue` | the sessions on the bolt file: lock, transaction, work, commit or rollback, close; kills |
| `Delivery` | the life of heartbeats through processes, requests, answers, pushes and syncs |
| `AbstractSender` | what a `heartbeat.Sender` promises to the handles above it |
| `BulkSend` | `Client.SendHeartbeats`: a goroutine per api key, two channels, one shared `doFunc` |
| `Backoff` | `WithBackoff` in several processes while time passes and the API comes and goes |
| `ConfigFile` | `NewIniWriter` and `Write` in several processes |
| `TokenParsers` | the token state machine of each parser in `pkg/deps` |
| `Dependencies` | the option that runs a parser for each heartbeat and filters what it found |
| `ProjectDetection` | the option that finds and names projects, in several commands on one file tree |
| `LanguageDetection` | special cases, lexers and modelines |
| `RemoteFiles` | the client of a remote file: its address, `ssh_config`, host keys, logging in |
| `Pipeline` | all options in their order, down to the API and the queue, while files vanish |
| `Parameters` | the loading of parameters, with its errors and its precedences |
| `Command` | a process from its start to its exit code: commands, client, retries, diagnostics, panics |
| `MCStatements` | sample statements of every parsed language, for the instance of `Dependencies` and for the hypotheses of its theorems |
| `MC...` | the small instances |
| `..._proofs` | the theorems about the module so named; `Backoff_proofs` has those about `ConfigFile` too |

Every module names mutated copies of some of its operators ("a mutant" in the
comment). They are plausible bugs of the same code, and no specification uses
them: they are there to show that a property notices the bug. A module about which
there are proofs ends with a section "Why this is so": the parts of its inductive
invariant `IInv` (`Inv` in some), each with what it means in the code.

### Bucket, QueueCalls, OfflineQueue

`Bucket` keeps of a heartbeat what the queue sees: itself, and its key
`KeyOf` (`Heartbeat.ID`), a natural number since bolt iterates in key order.
Two heartbeats may have one key, in which case the later replaces the earlier.
`Unreadable` records make `PopMany` fail as a whole. `Unstorable` heartbeats
make `PushMany` fail (bolt refuses a key longer than its limit).

In `OfflineQueue`, `stage[c]` is how far client c is in the body of
`popHeartbeats`, `pushHeartbeats` or `CountHeartbeats`, which have the same
form; `holder` is the file lock of `bolt.Open`, `tx` and `work` are the write
transaction and its copy of the bucket, `disk` is what is committed. There is
an action for each call that may fail and for its failure, whatever fails in
it: a record that cannot be read, or bolt. `PushFails`
deserves a word: `pushHeartbeats` returns the error of `PushMany` with the
transaction still open, and `Close` waits for open transactions, so that
`Close(c)` requires `tx # c`. External to `src/`, and modelled from its use:
that bolt locks the file exclusively, that a commit is atomic, that `Close`
waits, and that the system drops a dead process's lock.

### Delivery

A process slot p has a main goroutine and, for extra heartbeats, another.
`pc` says where each is; `hold` is the slice it works on, `todo` and `left` are
the indices of it that await an answer or a push. `StartSend` is `SendHeartbeats`
up to the request, `Send` is the request together with everything the API may
do and answer, `AnswerError`, `AnswerResults` and `AnswerUnqueued` are what
`WithQueue` and `handleResults` make of it, `Push`, `PushFails` and `GiveUp`
are `pushHeartbeatsWithRetry`, `BeginSync`, `PopBatch` and `EndSync` the loop of
`Sync`, `Exit` is `os.Exit`, and `Crash` ends a process anywhere. The queue is
atomic, which is `AbstractQueue` and what `OfflineQueue` is shown to implement.
The answers are those of `AbstractSender`, which `BulkSend` is shown to
implement. `accepted`, `duplicated` and `unsure` are the API's side;
`acked`, `rejected`, `overwritten` and `lost` record how heartbeats end.
The constant `Faults` names what goes wrong in an instance. An extra heartbeat
whose process exits before the goroutine has pushed it is `lost` (`Exit`,
`Vanish`).

### AbstractSender, BulkSend

`sender[k]` is how far the goroutine for api key k is. An option reads
`c.doFunc` and then assigns it, two steps between which other goroutines may
act; `doFunc` is the list of the keys its wrappers set, and a request leaves
with the innermost. `cherr` and `chres` are the channels with their capacity
`len(grouped)`. The caller receives both (a single key), or waits for all
goroutines and then ranges over `cherr`. The requests of a call are answered
independently, in any of the ways `sendHeartbeats` may end. A call without
heartbeats has no group and no goroutine.

### Backoff

`config` is the pair of keys in the config file, `loaded[p]` what a process has
read of them. Three variables are histories: `failure` remembers when a failure
was last really recorded, `erased` that a success was recorded since, and
`unaware` which of the running processes cannot have read of that failure: they
had loaded their parameters before it, or did so after a success had erased it.
Times
are ages that stop to grow at `ResetAfter`, from where on they make no
difference to `shouldBackoff`. `Duration` keeps its width: it is a signed
integer of `Width` bits that wraps around. Writing the keys may fail at any
time. Counts of retries from `Width` on all give 0, so `MaxRetries` loses
nothing. (Go leaves the conversion of a float that is too large open, which
concerns counts from 60 on; what its compilers produce there is not positive
either after the multiplication, and the model's 0 stands for it.) Loading and
storing the keys are atomic here; `ConfigFile` shows what else may happen to
them.

### ConfigFile

`file` maps keys to values; `memory[p]` is the `ini.File` a process has loaded
and set its keys in; `mutex` is the named mutex of the system. `TimeOut` is the
path on which the mutex is not had in time: the error is logged and the file
saved all the same; only the processes in `Impatient` take it. Saving is
truncating and then writing, since `ini.File.SaveTo` is an `os.WriteFile`, and
loading in between finds nothing.

### TokenParsers, Dependencies

A text is a sequence of atoms, that is names and the characters a parser looks
at, so that trimming and splitting are done, not assumed. The state of a parser
is the fields of its struct; each operator stands for a method, and its `CASE`
for the `switch` of that method. `Token` is `processToken` of a parser, and
`Run` the loop of its `Parse` over the tokens of a file. Lexers are external:
what tokens they deliver for a statement is taken from the parsers' tests. In
`Dependencies` a file is any sequence of statements, each with its tokens and
with the dependencies a reader takes from it; `Parse`, `Filter`, `Store`, `Fail`
and `Skip` are the steps of `WithDetection` and `Detect` for the heartbeat at
`n`. The part of `TokenParsers` called "Statements, one at a time" says what has
to be true of single statements for files of any length to be read well
(`Separable`, `Recovering`). A statement is `regular` if it is complete and of a
form that its parser means to read.

### ProjectDetection

`files` is a file tree, with `.git` directories and files, worktrees,
submodules, `.hg`, `.svn`, `.tf` and project files in it. `DetectConfigured(c)`
is the first half of the loop of `WithDetection` for one heartbeat (`Detect` and
the override), `DetectRevControl(c)` its second half, which reads the tree
again; what one of them reads, other commands may write before the other. A
generated name is written in two steps, since `os.WriteFile` truncates and then
writes, and a command may be killed before either. The write begins at the start
of the file: if another command has written a longer name since the truncation,
its end shows behind the new name (`Overlaid`; the constant `Left` says what is
left of which name). `WriteBreaksOff` is a write that fails, after which the
file is empty and the name used nevertheless; `Panic` is the end of a process in
`findGitBranch`. Searches go up at most `maxRecursiveIteration` directories, and
end at a project file that cannot be read (`Finds`). `ProjectFileIn(d)` is where
the project file of a folder is, `Emptied` what `os.Create` makes of it. Two
variables are histories: `named`, the folders whose project file held a name
when the command last looked for one, and `lost`, the files in which a write
failed.

### LanguageDetection, RemoteFiles, Pipeline

`LanguageDetection` and `RemoteFiles` are operators: what language a path has on
the current disk, which keys of a host a client accepts, how it logs in.
`Pipeline` has a variable `option` for how far down the chain of
`initHandleOptions` a command is and `n` for where the loop of that option is;
there is an action for each option, which handles heartbeat `n`, and `PassOn`
calls the next option. `Send`, `Push` and `Sync` end the chain: what is queued
has the entity the options below the queue began with (`EntityRaw`), and a later
sync has the replacing of api keys for its only option. What is sent has the
header that `BulkSend` finds it to have, with the default key: the key of a
heartbeat is not part of it (`json:"-"`). Two values of `pc`, "panicked" and
"exited", are ends of the whole command: `ModifyPanics` (`isDir`) and
`DownloadExits` (`log.Fatalf`). The credentials in a remote address are given
with what the pattern of `remote.go:28` leaves of them, and keywords that are
not set in the ssh configuration have the library's defaults (`Default`).
Between any two steps `Vanish` may remove a file or a directory. Without `send`
the chain is that of `SaveHeartbeats`. Patterns are the set of what they match.
Files count their lines and have a weight for each lexer that analyses text.
`Root` are the names that begin a path (of a disk, of a remote host). Project
detection and dependencies are here what they contribute to a heartbeat.

### Parameters, Command

The parameters that were set are a function `v` from names to strings.
`LoadAPIParams`, `LoadHeartbeatParams` and `LoadOfflineParams` give what the code
loads from them, or the kind of error. `Command` starts a process with any such
`v` out of `Call`. `SelectCommand` is the chain of `if`s in `Run`, `RunLocal`,
`RunHeartbeat`, `RunFetch` and `RunSync` are the commands up to their requests,
and `Backoff`, `Unanswered` and `Answered` those requests with all their
outcomes. The client is the sequence of layers on `doFunc`, whose retry sends
the request again through all of them. `heard` remembers what each command's
requests came to and `sent` what left the process. A panic and a returned error
go to `diagnose`, which is `sendDiagnostics`, and from there to the exit or, after a
success, to the sync. The queue is a set; what may happen to it meanwhile is
the subject of `Delivery`.

## 3. Runs

| run | what it shows | bounds |
| --- | --- | --- |
| `OfflineQueue` | the discipline of locks and transactions, that a transaction commits what it makes of the bucket on disk at that moment, that sessions implement `AbstractQueue`, and that calls return, but when bolt has refused a push | 2 clients; 5 heartbeats of which two share a key, one cannot be stored and one not be read; 4 batches; limits 1 and 2 |
| `Delivery` | every heartbeat in one place, results matched by position, duplicates only after lost answers, under all faults at once | 2 processes, one with `--disable-offline` (its syncs use the queue all the same), 2 heartbeats with one key, `SendLimit` 2, so that a request holds two whose results differ, answers of 0 to 3 parts, of which one may be pushed back with a status and the other for want of a result; one retry of a push |
| `DeliveryLive` | without other faults than a config or a client that fails, only extra heartbeats are lost, and only at the exit of their process; a sync ends and what was queued when it ran is settled, though it pushes back and pops again what the API answers with another status, if the API settles a request now and then | 2 processes, 2 heartbeats with keys of their own, `SendLimit` 1, so that extra heartbeats and several batches occur, limit 2 |
| `BulkSend` | no goroutine blocks on or outlives the channels; answers are faithful; a key of another project is never used; `AbstractSender` is implemented; a call for one key, or with a failure, returns | 3 heartbeats, 2 keys, calls of 0, 1 and 2 keys one after the other on one client, answers up to one part too long |
| `Backoff` | nobody refuses for a failure older than `resetAfter`; who starts after a recorded failure, and before a success is recorded, waits for the first period, unless it overflows; requests go out again and again; an API that is back is noticed by all, once a reset can be written | 2 processes, periods of 2, then `ResetAfter` 3; width 5, so that the fourth period overflows |
| `ConfigFile` | processes that get the mutex in time save one at a time; every write ends, even if others keep the mutex, fail or are killed | 3 processes with a key each, one of them impatient; any initial file; one value (no step depends on it) |
| `Dependencies` | regular files give exactly their imports, admissible, each once, in order, capped; what an interrupted import makes a parser misread ends with the next regular import, which is found, in all languages but three | for each of the parsed languages every file of up to 3 statements out of those listed for it, interrupted ones included; pairs of heartbeats of which the first is passed over or fails; names of up to 5 atoms, up to 3 dependencies |
| `ProjectDetection` | hidden names stay hidden; a generated name begins the file when commands have ended, whatever the interleaving, unless a write failed; it is kept, unless the command looked before | 2 commands of one or two heartbeats in one tree: git with a submodule, another for which submodules are disabled, a worktree elsewhere and a plain `.git` file, two mercurial projects, subversion, tfvc, a repository whose HEAD is a reference of one part, none; 7 initial states of its project files, one with a file nearer to the entity that cannot be read; two names |
| `Pipeline` | what is excluded or hidden reaches the API on no way, what is neither does unless the command breaks off; groups by own keys; verified hosts; pairs of header and source agree | one C project with an excluded file, a link into it, a playground, a loose file and remote files on four hosts, 9 configurations, up to 3 heartbeats, 1 removal |
| `Command` | the client's retries are bounded; heartbeats are missing only for a reason; exit codes and the use of the key are right; a disabled queue is not used; batches of a sync are bounded; a process ends | 1500 ways to start a process; 2 heartbeats in the queue, up to 2 reported, `SendLimit` 2, sync limits 0, 1 and 3, answers of 0 to 3 parts |

Two processes are enough for the races of the code, each of which is between two
actors on one file; `ConfigFile` has a third, so that two patient ones meet one
that saves without the mutex. The proofs do away with the bounds for the safety
properties of every module (section 4). Two heartbeats in one request, as in
`Delivery`, are the smallest case in which results can be mixed up, and in which
an answer that is too short or too long still says something. A full batch and a
partial one in one sync are in `Command`, with a `SendLimit` of 2 and limits of
1 and 3. The state of a parser depends on the statements before the current one:
with three, an interrupted one may be before, between and after two complete
ones. That no longer file differs is proved, from two conditions on single
statements, begun in any state in which another may end. `OneByOne` has them for
all samples of `MCStatements`, and TLC evaluates it as an assumption of
`MCPipeline` (not of `MCDependencies`, where a wrong parser has to show in a
file). One removal is enough for a file that was there for one option and is not
for the next. No run uses symmetry.

The type invariants of the modules that have theorems, and their inductive
invariants, hold by these theorems; the runs check what follows from them. Each
inductive invariant has been checked with TLC on the instance of its run too,
before it was proved.

Runs check deadlock, except `BulkSend`, where a call for two keys really stops
(section 5), and `Dependencies`, `ProjectDetection` and `Pipeline` with
`Command`, where the option, the command or the process ends.

The other two runs, `BulkSendHangs` and `ConfigFileLost`, are expected to find a
violation; section 5 has them.

### Fairness

* `OfflineQueue`: a goroutine whose next step is possible takes it (`WF` of
  `Session(c)`). Invocations and kills are up to the environment. The lock is
  not assumed to be granted fairly: `bolt.Open` has a timeout.
* `Delivery`: a process that has started goes on (`WF` of its main goroutine),
  as the operating system schedules it. Nothing is assumed of the goroutine for
  extra heartbeats, which nobody awaits.
* `BulkSend`: the Go runtime schedules every goroutine that can go on, and each
  request ends (`http.Client` has a timeout).
* `Backoff`: time passes, running processes go on, and editors go on reporting.
  Nothing is assumed of the API.
* `ConfigFile`: a process that has begun to write goes on; `mutex.Acquire`
  returns after its timeout. A process that is not `Impatient` is by definition
  one that gets the mutex before that, hence the strong fairness of its
  `Acquire`.
* `Command`: the process goes on (`WF` of `Next`), and each request is answered
  or fails, since it has a timeout. Which of these is up to the environment, and
  so `Exits` excepts an API that keeps a sync busy for ever with what it refuses;
  it also excepts an editor that keeps stdin open when the process reads it again.

But for `Acquire`, each is weak fairness of one process or thread as a whole,
never of a choice among its outcomes: that a push succeeds in the end, for
example, is not assumed.

## 4. Proofs

For every value of the constants that satisfies the assumptions named in the
modules:

| module | theorem | what it says |
| --- | --- | --- |
| `OfflineQueue_proofs` | `InvHolds`, `SessionsDisciplined`, `NoLostUpdate` | the invariant `Inv` and its two named parts |
| | `QueueRefinement` | `Spec => Abstract!AbsSpec`: sessions implement atomic calls |
| `Delivery_proofs` | `Invariance` | the invariant `IInv` |
| | `EveryHeartbeatInOnePlace`, `AnswersBelieved`, `DuplicatesOnlyUnsure` | what follows from it |
| | `NothingElseIsLost` | `OnlyUnsavedLost`: without faults only what a goroutine had still to save at the exit is lost, whatever the API answers |
| `BulkSend_proofs` | `SendInvariant` | the invariant `IInv` |
| | `ChannelsNeverOverflow`, `AnswersAreFaithful`, `NoForeignKeySent` | what the runs check of channels, answers and keys |
| | `SenderRefinement` | the goroutines of a call implement `AbstractSender` |
| `Backoff_proofs` | `TimesOfFailures`, `NoEndlessBackoff` | the invariant, and `RefusedAfterFailure` |
| | `PeriodsAreKept` | `BackoffKept`: who starts after a recorded failure and before a recorded success waits for the first period, unless it overflows |
| | `MutexHeld`, `OneSavesAtATime` | of `ConfigFile`: the invariant, and mutual exclusion of those that get the mutex in time |
| `Dependencies_proofs` | `WhatIsStored` | `StoredIsFiltered`, from the invariant `IInv`: what is stored with a heartbeat is what the filter lets pass of the output for its own file |
| | `FoundStaysFirst` | no parser reads what it has found: what it makes of the rest of a file comes after that, and depends on its other state alone |
| | `ImportsAreStored` | `DepsAreTheImports` for files of any length, if single statements are `Separable` |
| | `InterruptionIsOver` | `InterruptionEnds` for files of any length, if single statements are `Separable` and `Recovering` |
| | `CompleteIsFound` | `ImportAfterInterruption` for files of any length, if single statements are `Recovering` |
| `ProjectDetection_proofs` | `DetectionInvariant` | the invariant `IInv` |
| | `HiddenNamesStayHidden`, `NamesAreKept` | hidden names stay hidden; a name is only replaced by a command that could not know it |
| | `GeneratedNamesLast` | a generated name is in the file in the end, if no user calls a project like one |
| `Pipeline_proofs` | `PipelineInvariant` | the invariant `IInv` |
| | `NothingExcludedLeaves`, `NothingIsRevealed`, `KeysToGroupBy`, `HostsAreVerified` | what it says of heartbeats that are sent or queued |
| | `EveryHeartbeatAccounted` | `Accounted`: each heartbeat of a command that is done arrives or has a reason of its own not to; one that is not done broke off for one of two reasons |
| | `HeadersGoWithSources` | `PairsAgree`: a header has the language of its only source |
| `Command_proofs` | `CommandInvariant`, `TypeCorrect`, `KeyIsKept`, `ExitCodeIsTrue`, `LossHasReason` | the invariant `IInv` and what the run checks of a process |
| | `DisabledQueueStays`, `BatchesAreBounded` | the two action properties, from it |

**OfflineQueue.** `CommitsFresh` alone is not inductive: that the disk does not
change under an open transaction needs that only its owner can commit, which is
`SessionDiscipline`: a client past `Begin` holds the lock, and one transaction is
open. The refinement maps `queue` to `disk`; a commit is `Perform`, a failure
`Refuse`, a kill `Abandon`, and every other step stutters. That the commit is a
`Perform` is what `CommitsFresh` says.

**Delivery.** "One place each" is not inductive either: after a step that
settles some indices of a slice, the others are still held by the thread, and
that has to be known of its indices. `ThreadsOK` says that a thread is
answerable for distinct heartbeats, for all of its slice while it awaits an
answer and for none between slices, and that the extra goroutine only pushes
while its process runs. `ServerOK` relates the API's store to what it has
answered. For each of the three parts (types and threads, places, server) there
is a lemma per action, from which `InvNext` follows. The lemmas about pops and
pushes (what they keep, remove and replace) begin this module and
`OfflineQueue_proofs`.

`NothingElseIsLost` has a hypothesis, `Faultless`: no process disables the queue,
bolt stores every heartbeat, and parameters, pushes and processes do not fail. It
allows reports of any size, config files that cannot be parsed, clients that
cannot be made, and all answers of the API, its failures included. It is the
situation of `DeliveryLive`. `Calm` is what has to be carried along: no push is
tried twice. Every way to `lost` is closed then, but for the exit of a process,
whose main goroutine holds nothing any more.

**BulkSend.** That no channel overflows depends on what senders have put and on
what they still will: `ChannelsCarry` counts both channels by the senders that
have put into them, of which there are no more than groups. That each value in
them is the outcome of some sender gives `AnswerFaithful` and, with
`OutcomesKnown`, the refinement: an answer to the caller is one that
`AbstractSender` allows. `NoForeignKey` is `InnermostDefault`: whatever goroutines
read, wrap and assign at the same time, the innermost wrapper is that of
`NewClient`, and a request leaves with its key. The groups of a call are a
recursive function, whose values are related to the heartbeats by an induction.

**Backoff.** A refusal reads a time loaded at some moment in the past, while the
file has been overwritten since. The invariant relates every time in the file or
in use to the latest recorded failure, which no step makes younger without a
failure. `PeriodsAreKept` needs also that whoever has a count of retries has the
time that goes with it (`RetriesTimed`), that until a success is recorded the
time in the file is that of the latest failure, whoever overwrites what, and so
is the time of everybody who has read it since (`LatestKept`), and that powers of
two are what they are for every exponent below the width, which is another
induction.

**ConfigFile.** Who has the mutex is past it, and who is past it has it, unless
he is impatient. Of impatient processes the theorem says nothing: they do save
while others save.

**Dependencies.** Two things are proved and put together. The loop: `IInv` says
that the filter, when it has seen k dependencies, has kept the admissible ones
whose first occurrence is among them, in that order (`FilteredUpTo`), whence
what it ends with is `IsFiltered`, whichever of its two conditions ends it; and
that later heartbeats do not touch what was stored with earlier ones. The
parsers: none of them reads its own output. Said as a frame, `Ahead(o, p, q)`: q
is p with o ahead of its output. Every operation of every parser keeps that
(`CAhead` to `SwiftAhead`, a lemma for each parser), so that a run from p and
one from q do (`RunAhead`), and so the output for a file is cut at the ends of
its statements: each adds what it yields from the bare state before it
(`ReadingExists`). With that, an induction over the statements (`RegularFile`,
`ResumedFile`, `CompleteStatement`) reduces each of the three
properties to hypotheses about single statements: there are states, for each
language, in which statements may end, and from each of these a statement ends
in one of them again and yields what the property says of it. The recursive
functions behind this (a run, and the joining of the sequences of tokens) are
shown to exist by an induction over numbers, which is proved from the least
counterexample.

**ProjectDetection.** For `NamesHidden` it is enough to know which names there
can be in project files and in a result that is under construction
(`FileNamesKnown`, `NameKnown`). `NameKept` speaks about a moment in the past:
`SearchDone` remembers that a name that was in a file when the command looked
was found, or the name in a nearer file, if the search finds that file at all.
Between looking and writing other commands write; the lemma `KeptFacts` says
what they cannot change: a file that can be read stays so and one that cannot
does too, whence a search does not find more than before. For `LastingName` the
file of a hidden project has the heartbeat's name, or that of another heartbeat
of the project, or somebody is about to write there (`Holds`). This is false if
a user has given a project a name that is also a generated one, since a
heartbeat with such a name may never have gone near the file: the theorem
assumes `NamesFresh`. `LastingName` speaks of the first line of a file, which is
all that the end of a longer name leaves alone. The code draws an adjective, a
noun and a number (`generateProjectName`), which makes it likely, but not
certain.

**Pipeline.** What is true of a heartbeat depends on which options it is
through: `Fine(h, k)` says it for k options, `Through("filter", k)` for example
gives that the entity it had at the filter is not excluded, and that entity is
in `located` for ever after. During an option's loop, the heartbeats before `n`
are one option further than the others (`Passed`); options that filter build a
new slice. `ComesFrom` ties each heartbeat to one the command was given, and
`OnItsWay` says of each that it is still there unless it is excluded or lacks
something, which gives `Accounted` of a command that is done; `Ends` says why
one is not. There is a lemma per option. `PairsAgree` is not about heartbeats,
but about the detection on a disk from which files vanish.

**Command.** `Course` relates the stages of a process; `OnePlace` says that queue,
batch and what is settled do not overlap; `ClientInUse` which layers the client
has, of which the retry exists only for a proxy with NTLM and sends once more;
`CodeKnown` and `LossKnown` are what is known of exit codes and of losses before
the end. There is a lemma per action.

### What the proofs assume

Assumptions on constants are named, in the module that declares them, and
evaluated by TLC on every instance.

* Sizes: limits, widths and defaults are natural numbers, positive where the
  code's constants are (`SizeAssumption`, `LimitAssumption`, `SearchAssumption`,
  `DefaultAssumption`, `NumberAssumption`).
* Identities: the "nobody" values are not clients or processes; heartbeats in the
  queue at first are none of those the process builds (`OldAssumption`); `KeyOf`
  and `ApiKey` are functions of heartbeats; the keys include the default one.
* Shapes of data: requests, inputs, trees and lines are sequences and records
  with the fields of the code's types (`RequestAssumption`, `CallAssumption`,
  `AnswerAssumption`, `InputAssumption`, `BatchAssumption`, `OpeningAssumption`,
  `RepositoryAssumption`, `TreeAssumption`,
  `WorkAssumption`, `ConfigAssumption`); the sets of faults, statuses and records
  have no strange members.
* Of the world: no proxy with NTLM credentials is the empty string
  (`ProxyAssumption`); the patterns of api keys are finitely many
  (`PatternAssumption`); the root of a path is nothing that may follow in one
  (`RootAssumption`); the disks of `Pipeline` are states of one machine, on which
  a path is always or never a directory (`DiskAssumption`). The last of them
  excludes a file that is replaced by a directory of the same name during a
  command.

### What is only model-checked

* Liveness: `CallsReturn`, `SyncDrains`, `SomeSendsReturn`, `SendsAgain`,
  `Recovers`, `WritesEnd` and `Exits`. The prover has no rules for fairness and
  `ENABLED`.
* `Dependencies`: the hypotheses of the theorems about files, `Separable`
  and `Recovering`. They are about finitely many states of each parser
  and one statement at a time, so that TLC decides them for the statements of
  `MCStatements`; statements of other forms than these (another kind of token, a
  path with more parts) would have to be added there. What trimming and splitting
  yield for every text is not proved: the proofs do not depend on it.

Beyond what they say of constants, five theorems have hypotheses:
`NothingElseIsLost`, `GeneratedNamesLast`, `ImportsAreStored`,
`InterruptionIsOver` and `CompleteIsFound`. Each is satisfied by the instance
whose run checks the property. Those of the last three are about the statements
in the files of an instance, and `OneByOne` says them of all statements from
which those files are made.

## 5. What the violations show

Each of these runs checks one statement of a comment, a document or a test of
the repository that the code does not keep.

| run | statement | what happens |
| --- | --- | --- |
| `BulkSendHangs` | `SendHeartbeats` "returns the result" (`pkg/api/heartbeat.go:17`) | with two api keys and no failure it waits for a channel that its own return closes; so does a call without heartbeats, which is what is left when all are filtered out and the queue is disabled |
| `ConfigFileLost` | `Write` persists (`ini.go:62`) | the file is loaded before the mutex is taken, and an update in between is undone |

`BulkSendHangs` is under the fair specification, so that its counterexample is
not a process that merely stops.

The models also have the following, without a run of their own. Where a
property holds only because it excepts one of these, the comment of the property
says so.

*The queue and delivery*

* Extra heartbeats beyond `SendLimit` are saved by a goroutine nobody awaits
  (`cmd/heartbeat/heartbeat.go:91`): the process may end first, and they are
  lost. `OnlyUnsavedLost` excepts exactly them.
* A push that bolt refuses leaves its transaction open, and the deferred `Close`
  waits for it (`Stuck` in `OfflineQueue`, which `CallsReturn` excepts).
* Full batches do not count towards the limit of a sync (`offline.go:130`;
  `Num`, `Counted`). A heartbeat the API keeps answering with another status is
  pushed back and popped again by the same sync, whence `SyncDrains` assumes an
  API that settles a request now and then.
* A downloaded remote file is queued with the address it had at first
  (`offline.go:423`), also when `hide_file_names` matches it, and a later sync
  sends that address, although `USAGE.md:57` says that file names are not sent.
  A hidden path in the queue, on the other hand, matches no pattern of an api
  key any more, and gets the default key.
* A sync keeps the text of an error and not its type (`offline.go:107`): when a
  sync is the command, its exit code is 1 even when the API refused the key.
  `ExitCodeTells` excepts that command.

*The API client and the process*

* The innermost wrapper of `doFunc`, with the default key, sets the header last:
  the api key of a project (`USAGE.md:88`) is never the one a request leaves
  with (`api/heartbeat.go:63`), and it is not part of the request either
  (`json:"-"`). `NoForeignKey` and `GroupedByOwnKey` say no more than their names.
* The retry with NTLM asserts that the transport is a plain one, which its own
  first use has changed (`option.go:108`, `transport.go:26`): a second failure
  of the request is a panic. An answer with a part of fewer than two values, an
  error without a text or one that is not a list (`api/heartbeat.go:197`), and a
  goal without a day (`goal.go:76`), are panics too. A panic in a request loses
  its heartbeats, although `offline.go:43` says that they are queued when
  sending fails.
* From 30 retries on the period of the backoff overflows and may be negative
  (`backoff.go:76`), which `BackoffKept` excepts. `backoff_at` is the time of
  the latest failure, not of the first, and is kept in the user's config file.
* Saving heartbeats loads the parameters again, which reads another line of
  extra heartbeats from stdin (`cmd/offline/offline.go:76`).
* A panic in the diagnostics about a panic is recovered by nobody: the process
  ends with Go's own exit code and a trace.
* Diagnostics of a process without an api key have no URL, so they never leave.
* One malformed extra heartbeat drops all of them (`params.go:631`), although
  the message says that it skips one.
* `settings.timeout` is never used, for the flag has a default;
  `settings.offline` overrides `--disable-offline`; a proxy in the form
  `domain\\user:pass` of `USAGE.md:69` is refused by `url.Parse`, so that there
  is no client; `--file` alone never selects the heartbeat command.

*What a heartbeat says*

* `hide_project_folder`: when no project folder is detected the whole path is
  sent (`sanitize.go:81`), and not the file name only (`USAGE.md:60`).
* `isDir` panics on a path that cannot be examined (`heartbeat.go:187`), and an
  identity file that cannot be parsed ends the process (`remote.go:331`): either
  way the whole report is lost. `Accounted` says of these two ends only what
  brought them about.
* The pattern for credentials (`remote.go:28`) takes none with a colon in the
  password, and only a part of those with an `@`: what it leaves is sent
  (`hideCredentials`).
* `ssh_config` has defaults for a port, for `StrictHostKeyChecking` and for files:
  what the configuration says of the host that another one stands for is only
  asked when the first answer is empty, which for these it never is
  (`remote.go:137`, `remote.go:248`).
* Whether names of projects are obfuscated is decided by the main entity for the
  extra ones too.
* `--project` beats a project file (`project.go:81`), although the comment
  (`project.go:63`) has the file first.
* A worktree gets the root of its main repository for a folder
  (`git.go:109`): its generated name replaces the one in that repository's
  project file, which was not looked for. The folders of mercurial and tfvc
  projects are the parents of the project's, and so projects beside each other
  share a file.
* A project file that cannot be read ends the search: the error is logged
  (`project.go:130`) and detection goes on as if there were none. If it lies
  between the entity and the repository, the generated name replaces the name in
  the repository's own project file. So does a repository more than
  `maxRecursiveIteration` directories above the entity. For this and for
  worktrees, `NameKept` excepts project files that the search from the entity
  does not find.
* Two commands that have both emptied a project file write from its start: of a
  longer name the end is left, which is the second line then, and which later
  commands read as the branch (`project.go:194`, `file.go:38`). A write that
  fails after the truncation leaves an empty file, and the generated name is
  used all the same. `LastingName` is about first lines, and excepts failed
  writes.
* A HEAD that refers to something of fewer than three parts ends the process with
  an index out of range (`git.go:253`). `ProjectDetection` has it, `Pipeline` not.
* The parsers of C#, Go, Java, JavaScript and TypeScript, JSON, PHP, Python, Rust
  and VB.NET take code after an interrupted import for its continuation: their
  states await a name or a string, and other tokens pass by. After `extern crate`,
  for example, the next name of any code is reported (`rust.go:75`), after
  `require` the next string in single quotes (`php.go:128`). `InterruptionEnds`
  says that this is over with the next regular import; the parsers of Java,
  Python and JSON may glue that to the interrupted one, or miss it (`Gluing`).
  What C and Swift await comes only with an import, or after a keyword that
  starts them anew. For Elm, Haskell, Haxe, Kotlin and Scala it depends on the
  lexer, which is external, in what state it goes on itself.
* Some complete statements are misread: a JavaScript import in double quotes,
  `dependencies` nested in other JSON, a second name after `as` in Python.
  They are among the samples and are not `regular`.

## 6. Plan

The order is by what could go wrong and matter: delivery first, then what it
rests on, then what shapes a heartbeat before it is delivered, then the process
around all of it. All components of the inventory that have behaviour are
modelled, and every safety property the runs check is proved. What is left:

1. `Delivery`: `OnlyUnsavedLost` with the other faults, as a bound on what may be
   lost by each.
2. `Command` and `Delivery` speak of the same sync in different detail; a
   refinement between the two would tie them together.

## 7. Not modelled

* The tables of names of languages, categories and types of entities
  (`pkg/heartbeat/language.go` and its like), which are most of the lines the map
  leaves out; they have no behaviour.
* Libraries: the lexers, regular expressions, `ssh_config`, sftp, bolt, `net/http`
  and TLS, as far as `src/` does not use what distinguishes their outcomes.
* Logging, what commands print, the text of diagnostics, summaries and goals.
* `pkg/windows`: the formatting of paths by asking system tools for drives;
  windows paths and the windows transport with it.
* In `Parameters`: file names, host name, plugin and time zones, on which nothing
  else depends.
* Symbolic links, other than one the entity itself may be.

## 8. Running it

    tlc -workers 2 -config Delivery.cfg MCDelivery
    tlapm Delivery_proofs.tla

Every run has its own `.cfg`; `PROJECT.json` says which module it goes with.
