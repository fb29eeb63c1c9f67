----------------------------- MODULE ConfigFile -----------------------------
(* The config file .wakatime.cfg (pkg/ini) under concurrent processes.       *)
(* NewIniWriter loads it, Write sets keys in memory, acquires a mutex that   *)
(* all processes share, or goes on without it after a timeout, and saves the *)
(* whole file, which is first truncated.  --config-write and the backoff of  *)
(* the heartbeat command write; no reader takes the mutex.  Names that       *)
(* module Backoff has too begin with Ini here, so that one module of proofs  *)
(* can extend both.                                                          *)
EXTENDS Integers

CONSTANTS
  Writer,
  Nobody,
  Key, Value,
  KeysOf,       \* the keys a process writes: of the user, or of the backoff
  Impatient,    \* the processes that may not get the mutex within defaultTimeout
  MayFail       \* whether saving may fail, or the process be killed

ASSUME WriterAssumption == Nobody \notin Writer
ASSUME KeyAssumption == KeysOf \in [Writer -> SUBSET Key]
ASSUME FaultAssumption == Impatient \subseteq Writer /\ MayFail \in BOOLEAN

VARIABLES
  file,      \* what the file holds, key by key
  mutex,     \* the process that has the mutex
  at,        \* what each process does next
  memory,    \* the file as the WriterConfig of a process has it
  wanted,    \* the keys and values a process writes
  written    \* the last value of each key that a Write has saved

iniVars == <<file, mutex, at, memory, wanted, written>>

Contents == UNION {[K -> Value] : K \in SUBSET Key}
Empty == [k \in {} |-> 0]

IniTypeOK ==
  /\ file \in Contents /\ written \in Contents
  /\ mutex \in Writer \cup {Nobody}
  /\ at \in [Writer -> {"idle", "loaded", "locked", "saving", "saved"}]
  /\ memory \in [Writer -> Contents] /\ wanted \in [Writer -> Contents]

With(contents, kv) ==
  [k \in DOMAIN contents \cup DOMAIN kv |-> IF k \in DOMAIN kv THEN kv[k] ELSE contents[k]]

-----------------------------------------------------------------------------
(* The file has some of the settings.                                        *)
IniInit ==
  /\ file \in Contents
  /\ mutex = Nobody
  /\ at = [p \in Writer |-> "idle"]
  /\ memory = [p \in Writer |-> Empty] /\ wanted = [p \in Writer |-> Empty]
  /\ written = file

(* NewIniWriter loads the file, and Write sets the keys.                     *)
Begin(p) ==
  /\ at[p] = "idle"
  /\ \E kv \in [KeysOf[p] -> Value] :
       /\ wanted' = [wanted EXCEPT ![p] = kv]
       /\ memory' = [memory EXCEPT ![p] = With(file, kv)]
  /\ at' = [at EXCEPT ![p] = "loaded"]
  /\ UNCHANGED <<file, mutex, written>>

AcquireAnyway(p) ==    \* a mutant: the mutex of another is taken over
  /\ at[p] = "loaded"
  /\ mutex' = p
  /\ at' = [at EXCEPT ![p] = "locked"]
  /\ UNCHANGED <<file, memory, wanted, written>>

Acquire(p) ==
  /\ at[p] = "loaded" /\ mutex = Nobody
  /\ mutex' = p
  /\ at' = [at EXCEPT ![p] = "locked"]
  /\ UNCHANGED <<file, memory, wanted, written>>

TimeOutAgain(p) ==    \* a mutant: it starts to wait again
  /\ p \in Impatient
  /\ at[p] = "loaded" /\ mutex # Nobody
  /\ UNCHANGED iniVars

(* The error of mutex.Acquire is logged, and the file is saved all the same. *)
TimeOut(p) ==
  /\ p \in Impatient
  /\ at[p] = "loaded" /\ mutex # Nobody
  /\ at' = [at EXCEPT ![p] = "locked"]
  /\ UNCHANGED <<file, mutex, memory, wanted, written>>

(* SaveTo opens the file, which truncates it, and then writes all of it.     *)
Truncate(p) ==
  /\ at[p] = "locked"
  /\ file' = Empty
  /\ at' = [at EXCEPT ![p] = "saving"]
  /\ UNCHANGED <<mutex, memory, wanted, written>>

Save(p) ==
  /\ at[p] = "saving"
  /\ file' = memory[p]
  /\ written' = With(written, wanted[p])
  /\ at' = [at EXCEPT ![p] = "saved"]
  /\ UNCHANGED <<mutex, memory, wanted>>

(* The deferred Release, or the end of the process, gives the mutex back.    *)
Finish(p) ==
  /\ mutex' = IF mutex = p THEN Nobody ELSE mutex
  /\ at' = [at EXCEPT ![p] = "idle"]
  /\ memory' = [memory EXCEPT ![p] = Empty] /\ wanted' = [wanted EXCEPT ![p] = Empty]
  /\ UNCHANGED <<file, written>>

Return(p) == at[p] = "saved" /\ Finish(p)
SaveFails(p) == MayFail /\ at[p] \in {"locked", "saving"} /\ Finish(p)
Crash(p) == MayFail /\ at[p] # "idle" /\ Finish(p)

WriteStep(p) == Acquire(p) \/ TimeOut(p) \/ Truncate(p) \/ Save(p) \/ SaveFails(p) \/ Return(p)

IniNext == \E p \in Writer : Begin(p) \/ WriteStep(p) \/ Crash(p)

IniSpec == IniInit /\ [][IniNext]_iniVars

(* A process that has begun to write goes on; one that is not impatient is   *)
(* one that gets the mutex in time.                                          *)
FairIniSpec ==
  /\ IniSpec
  /\ \A p \in Writer : WF_iniVars(WriteStep(p))
  /\ \A p \in Writer \ Impatient : SF_iniVars(Acquire(p))

-----------------------------------------------------------------------------
(* Processes that never wait for longer than defaultTimeout save one at a    *)
(* time, whoever else saves without the mutex.                               *)
PastMutex(p) == at[p] \in {"locked", "saving", "saved"}

OneSaves == \A p, q \in Writer \ Impatient : PastMutex(p) /\ PastMutex(q) => p = q

(* Its reason: who is past the mutex has it, unless the wait was too long.   *)
HoldersOnly ==
  \A p \in Writer :
    /\ mutex = p => PastMutex(p)
    /\ PastMutex(p) => mutex = p \/ p \in Impatient

IniInv == IniTypeOK /\ HoldersOnly

(* "Write persists key(s) and value(s) on disk": when nobody is saving, each *)
(* key that nobody is about to write has the value it was last given, and    *)
(* the user's other settings are what they were.                             *)
WritePersists ==
  (\A p \in Writer : at[p] # "saving") =>
    \A k \in DOMAIN written :
      (\A p \in Writer : k \in KeysOf[p] => at[p] = "idle") => k \in DOMAIN file /\ file[k] = written[k]

(* Every Write ends, though others may hold the mutex for as long as they    *)
(* like, or fail, or be killed while they hold it.                           *)
WritesEnd == \A p \in Writer : at[p] # "idle" ~> at[p] = "idle"
=============================================================================
