----------------------------- MODULE Parameters -----------------------------
(***************************************************************************)
(* The parameters of a command: cmd/params and pkg/vipertools.  What was   *)
(* set, on the command line or in a config file, is a function v from the  *)
(* names of parameters to their values, all of which are strings here.     *)
(*                                                                         *)
(* An operator Load... gives a record whose field err is "" if loading     *)
(* succeeds.  Patterns of a list are one value; names of files, hosts and  *)
(* plugins, which nothing depends on, are left out.                        *)
(***************************************************************************)
EXTENDS Integers, Sequences, SequencesExt

CONSTANTS
  ValidKey,         \* api keys in the right format
  BadRegex,         \* patterns that do not compile
  KeyPattern,       \* patterns of project_api_key: parameter name -> pattern
  BadProxy,         \* proxies in no known format
  Category,         \* the names of categories
  EntityType,       \* the names of types of entities
  Number,           \* numerals -> integers
  SyncMaxDefault    \* the default of sync-offline-activity

ASSUME DefaultAssumption == SyncMaxDefault \in Nat
ASSUME NumberAssumption == Number \in [DOMAIN Number -> Int]

-----------------------------------------------------------------------------
(* Reading parameters *)

IsSet(v, key) == key \in DOMAIN v
FlagDefault(key) ==
  IF key = "timeout" THEN "120" ELSE IF key = "config-section" THEN "settings" ELSE ""
GetString(v, key) == IF IsSet(v, key) THEN v[key] ELSE FlagDefault(key)
GetBool(v, key) == GetString(v, key) = "true"

FirstNonEmptyString(v, keys) ==
  LET nonEmpty == SelectSeq(keys, LAMBDA key : GetString(v, key) # "")
  IN  IF nonEmpty = <<>> THEN "" ELSE GetString(v, Head(nonEmpty))

FirstNonEmptyBool(v, keys) == \E key \in Range(keys) : GetBool(v, key)

Verbose(v) == GetBool(v, "verbose") \/ GetBool(v, "settings.debug")

(* A list of patterns, or a boolean, that contains no bad pattern          *)
BoolOrRegexList(value) == value \notin BadRegex

-----------------------------------------------------------------------------
(* The parameters of the API *)

Key(v) == FirstNonEmptyString(v, <<"key", "settings.api_key", "settings.apikey">>)
Proxy(v) == FirstNonEmptyString(v, <<"proxy", "settings.proxy">>)

(* A pattern that does not compile is skipped, with its key *)
ProjectKeysValid(v) ==
  \A name \in DOMAIN v \cap DOMAIN KeyPattern : KeyPattern[name] \in BadRegex \/ v[name] \in ValidKey

NoAPI == [err |-> "", key |-> "", url |-> "", proxy |-> "", cert |-> "", verify |-> TRUE]

LoadAPIParams(v) ==
  CASE Key(v) \notin ValidKey \/ ~ProjectKeysValid(v) -> [NoAPI EXCEPT !.err = "auth"]
    [] Key(v) \in ValidKey /\ ProjectKeysValid(v) /\ Proxy(v) \in BadProxy -> [NoAPI EXCEPT !.err = "proxy"]
    [] OTHER ->
         LET url == FirstNonEmptyString(v, <<"api-url", "apiurl", "settings.api_url">>)
         IN  [err |-> "",
              key |-> Key(v),
              url |-> IF url = "" THEN "https://api.wakatime.com" ELSE url,
              proxy |-> Proxy(v),
              cert |-> FirstNonEmptyString(v, <<"ssl-certs-file", "settings.ssl_certs_file">>),
              verify |-> ~FirstNonEmptyBool(v, <<"no-ssl-verify", "settings.no_ssl_verify">>)]

-----------------------------------------------------------------------------
(* The parameters of the heartbeats *)

(* Of an extra heartbeat: its type, its time and timestamp, and whether    *)
(* the other values have the types they should have.  A time of 0 is one.  *)
parseExtraHeartbeat(extra) ==
  /\ extra.type \in EntityType \cup {""}
  /\ extra.converts
  /\ {extra.time, extra.timestamp} \subseteq DOMAIN Number \cup {""}
  /\ {extra.time, extra.timestamp} # {""}

(* The extra heartbeats on stdin: one that does not parse takes all the    *)
(* others with it, which is only logged                                    *)
ExtraHeartbeats(v, stdin) ==
  IF GetBool(v, "extra-heartbeats") /\ \A n \in DOMAIN stdin : parseExtraHeartbeat(stdin[n])
  THEN stdin
  ELSE <<>>

HideBranchNames(v) ==
  FirstNonEmptyString(v, <<"hide-branch-names", "settings.hide_branch_names",
                           "settings.hide_branchnames", "settings.hidebranchnames">>)
HideProjectNames(v) ==
  FirstNonEmptyString(v, <<"hide-project-names", "settings.hide_project_names",
                           "settings.hide_projectnames", "settings.hideprojectnames">>)
HideFileNames(v) ==
  FirstNonEmptyString(v, <<"hide-file-names", "hide-filenames", "hidefilenames", "settings.hide_file_names",
                           "settings.hide_filenames", "settings.hidefilenames">>)

LoadHeartbeatParams(v, stdin) ==
  LET entity == FirstNonEmptyString(v, <<"entity", "file">>)
      valid ==
        /\ entity # ""
        /\ GetString(v, "category") \in Category \cup {""}
        /\ GetString(v, "entity-type") \in EntityType \cup {""}
        /\ \A list \in {GetString(v, "git.submodules_disabled"), HideBranchNames(v),
                        HideProjectNames(v), HideFileNames(v)} : BoolOrRegexList(list)
  IN  [err |-> IF valid THEN "" ELSE "heartbeat",
       count |-> 1 + Len(ExtraHeartbeats(v, stdin))]

-----------------------------------------------------------------------------
(* The parameters of the offline queue *)

NoOffline == [err |-> "", disabled |-> FALSE, syncMax |-> 0]

LoadOfflineParams(v) ==
  LET sync == GetString(v, "sync-offline-activity")
      disabled == IF IsSet(v, "settings.offline")
                  THEN ~GetBool(v, "settings.offline")
                  ELSE FirstNonEmptyBool(v, <<"disable-offline", "disableoffline">>)
      syncMax == CASE ~IsSet(v, "sync-offline-activity") -> SyncMaxDefault
                   [] IsSet(v, "sync-offline-activity") /\ sync = "none" -> 0
                   [] OTHER -> IF sync \in DOMAIN Number THEN Number[sync] ELSE -1
  IN  IF syncMax < 0
      THEN [NoOffline EXCEPT !.err = "sync"]
      ELSE [err |-> "", disabled |-> disabled, syncMax |-> syncMax]

=============================================================================
