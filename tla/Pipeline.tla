------------------------------ MODULE Pipeline ------------------------------
(***************************************************************************)
(* The heartbeat pipeline: what happens to the heartbeats of one command   *)
(* from the plugin's values to what the API receives, either directly or   *)
(* out of the offline queue.  The options are a chain of loops over the    *)
(* heartbeats (NewHandle); each passes on to the next when its loop has    *)
(* ended.  Meanwhile files are removed from the disk.                      *)
(*                                                                         *)
(* Module Delivery has the queue and the sender in detail, Project-        *)
(* Detection and Dependencies two of the options; here each of these is    *)
(* what it contributes to a heartbeat.                                     *)
(***************************************************************************)
EXTENDS LanguageDetection

CONSTANTS
  Login, SshConfig, KnownHosts, Identity, Agent, Server,   \* see RemoteFiles
  Disk,           \* the initial contents of the disk
  Input,          \* the sequences of heartbeats a command may get
  Config,         \* the configurations
  Resolved,       \* raw entity -> its absolute path without symbolic links, if that is another one
  Repository,     \* path -> [project, branch, folder] that project detection finds there
  ApiKeyPattern,  \* project_api_key: a set of [paths, key]
  Root,           \* the first names of absolute paths
  MaxRemovals     \* bound: how many files are removed

Remote == INSTANCE RemoteFiles

Field == {"id", "type", "unsaved", "entity", "located", "raw", "localFile", "server", "language",
          "languageAlternate", "lines", "cursor", "dependencies", "override", "alternate", "project",
          "branch", "folder", "folderOverride", "apiKey"}

IsSequence(s) == s \in Seq(Range(s))
IsPath(path) == IsSequence(path) /\ Len(path) >= 2

ASSUME InputAssumption ==
  \A hs \in Input :
    /\ IsSequence(hs)
    /\ \A h \in Range(hs) :
         DOMAIN h = Field /\ h.raw = None /\ IsSequence(h.folder) /\ IsSequence(h.folderOverride)

(* A path without a root, or a scheme, after its first name                *)
Rooted(path) == IsPath(path) /\ \A i \in 2 .. Len(path) : path[i] \notin Root \cup {"ssh://"}

(* A root is the first name of a path only.  The disks are states of one   *)
(* machine, on which a name is always or never that of a directory.        *)
ASSUME RootAssumption ==
  /\ Root \cap {"ssh://", "Contents", ".swift"} = {}
  /\ \A path \in Range(Resolved) \cup {h.entity : h \in UNION {Range(hs) : hs \in Input}} : Rooted(path)

ASSUME DiskAssumption ==
  \A d, e \in Disk : \A path \in DOMAIN d :
    IsPath(path) /\ (path \in DOMAIN e => d[path].directory = e[path].directory)

ASSUME RepositoryAssumption == \A path \in DOMAIN Repository : IsSequence(Repository[path].folder)

ASSUME PatternAssumption == IsFiniteSet(ApiKeyPattern)

VARIABLES
  config,     \* the configuration of this command
  patterns,   \* its api key patterns, in the order of a map
  given,      \* history: the heartbeats of the command
  hh,         \* the heartbeats passed along
  option,     \* how many options are completed
  n,          \* the heartbeat the loop of the next option is at
  filtered,   \* what a filtering loop has kept
  pc,         \* "options", "send", "done", "panicked" or "exited"
  received,   \* what the API got, and whether it came from the queue
  queue,      \* the offline queue
  removals    \* how many files were removed

vars == <<disk, config, patterns, given, hh, option, n, filtered, pc, received, queue, removals>>
passed == <<disk, config, patterns, given, removals, received, queue>>

DefaultApiKey == "default"

(* LoadAPIParams collects the patterns from a map, in any order, without   *)
(* those that have the default key                                         *)
KeyPatterns ==
  LET own == {k \in ApiKeyPattern : k.key # DefaultApiKey}
  IN  {order \in [1 .. Cardinality(own) -> own] : Range(order) = own}

MatchPattern(path, order) ==
  LET matching == {i \in DOMAIN order : path \in order[i].paths}
  IN  IF matching = {} THEN DefaultApiKey
      ELSE order[CHOOSE i \in matching : \A j \in matching : i <= j].key

-----------------------------------------------------------------------------
(* The chain of options *)

(* Mutant: the api key goes by what the entity is called in the end *)
OptionsKeyLast ==
  IF config.send
  THEN <<"formatting", "modifier", "remote", "filter", "filestats", "language", "deps", "project",
         "unknown", "sanitization", "apikey">>
  ELSE <<"formatting", "modifier", "remote", "filter", "filestats", "language", "deps", "project",
         "unknown", "sanitization">>

(* SaveHeartbeats, for heartbeats that are not sent, replaces no api key *)
Options ==
  IF config.send
  THEN <<"formatting", "modifier", "remote", "filter", "apikey", "filestats", "language", "deps",
         "project", "unknown", "sanitization">>
  ELSE <<"formatting", "modifier", "remote", "filter", "filestats", "language", "deps", "project",
         "unknown", "sanitization">>

Filtering == {"filter", "unknown"}

At(o) == pc = "options" /\ Options[option + 1] = o /\ n <= Len(hh)

(* The loop of the option puts h for hh[n] *)
Put(h) ==
  /\ hh' = [hh EXCEPT ![n] = h]
  /\ n' = n + 1
  /\ UNCHANGED <<passed, option, filtered, pc>>

Keep(kept) ==
  /\ filtered' = IF kept THEN Append(filtered, hh[n]) ELSE filtered
  /\ n' = n + 1
  /\ UNCHANGED <<passed, hh, option, pc>>

Init ==
  /\ disk \in Disk
  /\ config \in Config
  /\ patterns \in KeyPatterns
  /\ given \in Input
  /\ hh = given
  /\ option = 0 /\ n = 1 /\ filtered = <<>>
  /\ pc = "options"
  /\ received = {} /\ queue = {}
  /\ removals = 0

(* A filtering option that keeps nothing ends the chain *)
PassOn ==
  /\ pc = "options" /\ n > Len(hh)
  /\ option' = option + 1 /\ n' = 1
  /\ hh' = IF Options[option + 1] \in Filtering THEN filtered ELSE hh
  /\ filtered' = <<>>
  /\ \/ hh' = <<>> /\ pc' = "done"
     \/ hh' # <<>> /\ option' = Len(Options) /\ pc' = "send"
     \/ hh' # <<>> /\ option' < Len(Options) /\ pc' = "options"
  /\ UNCHANGED passed

-----------------------------------------------------------------------------
(* What the options do to one heartbeat *)

IsFile(h) == h.type = "file" /\ ~h.unsaved
IsRemote(path) == Remote!IsRemote(path)

(* The file whose contents are examined: the downloaded copy, if any *)
Local(h) == IF h.localFile # None THEN h.localFile ELSE h.entity

Matches(value, regexes) == \E regex \in regexes : value \in regex

Formatting ==
  /\ At("formatting")
  /\ LET h == hh[n]
     IN  Put(IF IsFile(h) /\ ~IsRemote(h.entity) /\ h.entity \in DOMAIN Resolved
             THEN [h EXCEPT !.entity = Resolved[h.entity]]
             ELSE h)

Playground == {".playground", ".xcplayground", ".xcplaygroundpage"}

(* History: no option after this one changes the entity before it is hidden *)
Located(h) == [h EXCEPT !.located = h.entity]

Modify ==
  /\ At("modifier")
  /\ LET h == hh[n]
         bundle == h.type = "file" /\ Last(h.entity) \in Playground
     IN  /\ bundle => h.entity \in DOMAIN disk
         /\ Put(Located(IF bundle /\ disk[h.entity].directory
                        THEN [h EXCEPT !.entity = @ \o <<"Contents", ".swift">>]
                        ELSE h))

(* isDir uses the information os.Stat has not returned *)
ModifyPanics ==
  /\ At("modifier")
  /\ hh[n].type = "file" /\ Last(hh[n].entity) \in Playground
  /\ hh[n].entity \notin DOMAIN disk
  /\ pc' = "panicked"
  /\ UNCHANGED <<passed, hh, option, n, filtered>>

(* The copy is in a temporary directory of its own.  Its contents are what *)
(* the instance has for the remote path.                                   *)
Copy(path) == <<"tmp">> \o path

Download ==
  /\ At("remote")
  /\ LET h == hh[n]
         c == Remote!NewClient(h.entity)
     IN  \/ /\ ~(IsFile(h) /\ IsRemote(h.entity))
            /\ Put(h)
         \/ /\ IsFile(h) /\ IsRemote(h.entity)
            /\ ~Remote!SignerFatal(c)
            /\ \E server \in Server :
                 Put(IF Remote!sshClient(c, server) /\ Copy(h.entity) \in DOMAIN disk
                     THEN [h EXCEPT !.localFile = Copy(h.entity), !.raw = h.entity, !.server = server.key]
                     ELSE h)

DownloadExits ==
  /\ At("remote")
  /\ IsFile(hh[n]) /\ IsRemote(hh[n].entity)
  /\ Remote!SignerFatal(Remote!NewClient(hh[n].entity))
  /\ pc' = "exited"
  /\ UNCHANGED <<passed, hh, option, n, filtered>>

(* Mutant: nothing is excluded where something is included *)
filterIfNoInclude(h) == config.include # {} \/ ~Matches(h.entity, config.exclude)

filterByPattern(h) ==
  h.entity # None => Matches(h.entity, config.include) \/ ~Matches(h.entity, config.exclude)

(* A project file in a folder around the entity *)
InProject(path) == \E i \in 1 .. Len(path) - 2 : SubSeq(path, 1, i) \o <<".wakatime-project", "">> \in DOMAIN disk

(* Mutant: an entity is examined where it is, even if it was downloaded *)
filterRemoteEntity(h) ==
  h.entity \in DOMAIN disk /\ (config.onlyWithProjectFile => InProject(h.entity))

filterFileEntity(h) ==
  /\ Local(h) \in DOMAIN disk
  /\ config.onlyWithProjectFile /\ h.localFile = None => InProject(h.entity)

Filter ==
  /\ At("filter")
  /\ Keep(filterByPattern(hh[n]) /\ (IsFile(hh[n]) => filterFileEntity(hh[n])))

ReplaceApiKey ==
  /\ At("apikey")
  /\ Put([hh[n] EXCEPT !.apiKey = MatchPattern(hh[n].entity, patterns)])

CanRead(path) == path \in DOMAIN disk /\ disk[path].readable /\ ~disk[path].directory

Filestats ==
  /\ At("filestats")
  /\ LET h == hh[n]
     IN  Put(IF IsFile(h) /\ h.lines = -1 /\ ~IsRemote(h.entity) /\ CanRead(Local(h)) /\ ~disk[Local(h)].large
             THEN [h EXCEPT !.lines = disk[Local(h)].lines]
             ELSE h)

DetectLanguage ==
  /\ At("language")
  /\ LET h == hh[n]
         language == Detect(Local(h))
     IN  Put(CASE h.language # "" -> h
               [] h.language = "" /\ language # Unknown -> [h EXCEPT !.language = language]
               [] OTHER -> [h EXCEPT !.language = h.languageAlternate])

DetectDependencies ==
  /\ At("deps")
  /\ LET h == hh[n]
     IN  Put(IF IsFile(h) /\ h.language # "" /\ ~Matches(h.entity, config.hideFiles) /\ CanRead(Local(h))
             THEN [h EXCEPT !.dependencies = Local(h)]
             ELSE h)

GeneratedName == "Aged Art 1"

NoRepository == [project |-> "", branch |-> "", folder |-> None]
RepositoryOf(path) == IF path \in DOMAIN Repository THEN Repository[path] ELSE NoRepository

firstNonEmpty(name, others) == IF name # "" THEN name ELSE others

(* Whether names are generated is decided by the entity the command was    *)
(* called with, for all its heartbeats                                     *)
DetectProject ==
  /\ At("project")
  /\ LET h == hh[n]
         found == RepositoryOf(h.entity)
     IN  Put(CASE ~IsFile(h) -> [h EXCEPT !.project = firstNonEmpty(h.override, h.alternate)]
               [] IsFile(h) /\ h.override = "" /\ found.project # "" /\ config.obfuscates ->
                    [h EXCEPT !.project = GeneratedName, !.branch = found.branch, !.folder = found.folder]
               [] OTHER ->
                    [h EXCEPT !.project = firstNonEmpty(h.override, firstNonEmpty(found.project, h.alternate)),
                              !.branch = found.branch, !.folder = found.folder])

FilterUnknown ==
  /\ At("unknown")
  /\ Keep(config.excludeUnknown => hh[n].project # "")

-----------------------------------------------------------------------------
(* Sanitisation *)

sanitizeMetaData(h) == [h EXCEPT !.cursor = FALSE, !.dependencies = None, !.lines = -1]

(* Without patterns for branches the branch of what is hidden is hidden *)
sanitizeBranch(h) ==
  IF config.hideBranches = {} \/ Matches(h.branch, config.hideBranches) THEN [h EXCEPT !.branch = ""] ELSE h

HiddenName(h) == IF h.type = "file" THEN <<"HIDDEN", Last(h.entity)>> ELSE <<"HIDDEN">>

(* Mutant: only the name is hidden *)
hideNameOnly(h) ==
  IF Matches(h.entity, config.hideFiles) THEN [h EXCEPT !.entity = HiddenName(h)] ELSE h

hideNames(h) ==
  CASE Matches(h.entity, config.hideFiles) ->
         [sanitizeBranch(sanitizeMetaData(h)) EXCEPT !.entity = HiddenName(h)]
    [] ~Matches(h.entity, config.hideFiles) /\ Matches(h.project, config.hideProjects) ->
         sanitizeBranch(sanitizeMetaData(h))
    [] OTHER -> IF Matches(h.branch, config.hideBranches) THEN [h EXCEPT !.branch = ""] ELSE h

Relative(path, folder) == SubSeq(path, Len(folder) + 1, Len(path))

(* A folder is around whole names, and a file has one name: its last two   *)
Inside(path, folder) == folder # None /\ Len(folder) + 2 <= Len(path) /\ IsPrefix(folder, path)

hideProjectFolder(h) ==
  CASE h.type # "file" \/ ~config.hideFolder -> h
    [] h.type = "file" /\ config.hideFolder /\ Inside(h.entity, h.folder) ->
         [h EXCEPT !.entity = Relative(@, h.folder)]
    [] OTHER -> IF Inside(h.entity, h.folderOverride)
                THEN [h EXCEPT !.entity = Relative(@, h.folderOverride)]
                ELSE h

(* The pattern of a remote address leaves what it does not take for        *)
(* credentials: all of it with a colon, or the end of it with an @, in the *)
(* password                                                                *)
hideCredentials(h) == IF IsRemote(h.entity) THEN [h EXCEPT !.entity[2] = Login[@].left] ELSE h

Sanitize ==
  /\ At("sanitization")
  /\ Put(hideCredentials(hideProjectFolder(hideNames(hh[n]))))

-----------------------------------------------------------------------------
(* The sender, the queue, and the environment *)

(* What the queue stores of a heartbeat, which has the untouched entity *)
Stored(h) == [h EXCEPT !.entity = IF h.raw # None THEN h.raw ELSE h.entity, !.apiKey = ""]

(* The sender groups the heartbeats by their api keys, which are not part  *)
(* of what it sends.  The header goes by the client, whoever the group is: *)
(* see BulkSend.                                                           *)
Sent(h, via) == [heartbeat |-> h, via |-> via, authorization |-> DefaultApiKey]

Send ==
  /\ pc = "send" /\ config.send
  /\ received' = received \cup {Sent(h, "direct") : h \in Range(hh)}
  /\ pc' = "done"
  /\ UNCHANGED <<disk, config, patterns, given, hh, option, n, filtered, queue, removals>>

(* The sender failed, or there is none: the queue takes the heartbeats *)
Push ==
  /\ pc = "send"
  /\ queue' = queue \cup {Stored(h) : h \in Range(hh)}
  /\ pc' = "done"
  /\ UNCHANGED <<disk, config, patterns, given, hh, option, n, filtered, received, removals>>

(* A later synchronisation loads the parameters again.  Its only option is *)
(* the replacing of api keys.                                              *)
Sync ==
  /\ pc = "done" /\ queue # {}
  /\ patterns' \in KeyPatterns
  /\ received' = received \cup {Sent([h EXCEPT !.apiKey = MatchPattern(h.entity, patterns')], "queue") : h \in queue}
  /\ queue' = {}
  /\ UNCHANGED <<disk, config, given, hh, option, n, filtered, pc, removals>>

(* The user removes or renames a file or a folder with its files; a copy   *)
(* is nobody else's                                                        *)
Vanish ==
  /\ pc = "options" /\ removals < MaxRemovals
  /\ \E path \in DOMAIN disk :
       /\ Head(path) # "tmp"
       /\ disk' = [p \in {q \in DOMAIN disk : ~IsPrefix(path, q)} |-> disk[p]]
  /\ removals' = removals + 1
  /\ UNCHANGED <<config, patterns, given, hh, option, n, filtered, pc, received, queue>>

Next ==
  \/ Formatting \/ Modify \/ ModifyPanics \/ Download \/ DownloadExits \/ Filter
  \/ ReplaceApiKey \/ Filestats \/ DetectLanguage \/ DetectDependencies
  \/ DetectProject \/ FilterUnknown \/ Sanitize
  \/ PassOn \/ Send \/ Push \/ Sync \/ Vanish

Spec == Init /\ [][Next]_vars

-----------------------------------------------------------------------------
(* What the pipeline is for *)

Arrived == {s.heartbeat : s \in received} \cup queue

Excluded(path) == Matches(path, config.exclude) /\ ~Matches(path, config.include)

(* An excluded entity leaves the command on no way, whatever is filtered   *)
(* with it, and whether it is sent or queued (filter.go).                  *)
ExcludedNeverLeave == \A h \in Arrived : ~Excluded(h.located)

Formatted(h) ==
  IF IsFile(h) /\ ~IsRemote(h.entity) /\ h.entity \in DOMAIN Resolved THEN Resolved[h.entity] ELSE h.entity

Bundle(path) == Last(path) \in Playground /\ \E d \in Disk : path \in DOMAIN d /\ d[path].directory

LocatedOf(h) ==
  IF h.type = "file" /\ Bundle(Formatted(h)) THEN Formatted(h) \o <<"Contents", ".swift">> ELSE Formatted(h)

(* Why the command may drop a heartbeat it was given                       *)
Dropped(h) ==
  LET path == LocatedOf(h)
  IN  \/ Excluded(path) \/ IsRemote(path)
      \/ IsFile(h) /\ (IF h.localFile # None THEN h.localFile ELSE path) \notin DOMAIN disk
      \/ IsFile(h) /\ h.localFile = None /\ config.onlyWithProjectFile /\ ~InProject(path)
      \/ config.excludeUnknown /\ h.override = "" /\ h.alternate = ""
           /\ (~IsFile(h) \/ RepositoryOf(path).project = "")

(* A heartbeat of a playground that is not, or no longer, on the disk      *)
BundleGone(h) == h.type = "file" /\ Last(Formatted(h)) \in Playground /\ Formatted(h) \notin DOMAIN disk

(* One of a remote file, for whose host a key is configured that cannot be *)
(* parsed                                                                  *)
IdentityFatal(h) ==
  IsFile(h) /\ IsRemote(LocatedOf(h)) /\ Remote!SignerFatal(Remote!NewClient(LocatedOf(h)))

(* What a heartbeat may take the others with it by is this: a playground   *)
(* that is gone, on which isDir panics (heartbeat.go:187), and an identity *)
(* file that cannot be parsed, on which the process exits (remote.go:331). *)
(* Then nothing of the report is sent or queued.  Otherwise no heartbeat   *)
(* disappears because of another one, or because some file is removed      *)
(* while the options run: what is neither excluded nor without its own     *)
(* file, project file or project is sent or queued.                        *)
Accounted ==
  /\ pc = "done" => \A i \in DOMAIN given : given[i].id \in {h.id : h \in Arrived} \/ Dropped(given[i])
  /\ pc = "panicked" => \E h \in Range(given) : BundleGone(h)
  /\ pc = "exited" => \E h \in Range(given) : IdentityFatal(h)

Hides(h) ==
  /\ h.entity = HiddenName([h EXCEPT !.entity = h.located])
  /\ h.lines = -1 /\ h.dependencies = None /\ ~h.cursor
  /\ config.hideBranches = {} => h.branch = ""

FileNamesHidden(h, via) ==
  Matches(h.located, config.hideFiles) /\ (via = "queue" => h.raw = None) => Hides(h)

FolderHidden(h) ==
  config.hideFolder /\ h.type = "file" =>
    \A folder \in {h.folder, h.folderOverride} :
      Inside(h.located, folder) /\ Head(folder) \in Root => ~Inside(h.entity, folder)

CredentialsHidden(h, via) ==
  via = "direct" /\ IsRemote(h.entity) /\ Login[h.located[2]].left = "" => h.entity[2] = ""

(* What hide_file_names matches reaches the API, directly or after any     *)
(* time in the queue, without its name and without what was read from or   *)
(* said of the file; with hide_project_folder, the API gets of a path in a *)
(* project folder, detected or given by the plugin, only the part in that  *)
(* folder; and it does not get the credentials of a remote address, unless *)
(* their password has a colon or an @, which the pattern of an address     *)
(* does not know (remote.go:28).  (A downloaded remote file in the queue   *)
(* has its address back, with what is in it, and a later sync sends it.)   *)
NothingRevealed ==
  \A s \in received :
    LET h == s.heartbeat
    IN  FileNamesHidden(h, s.via) /\ FolderHidden(h) /\ CredentialsHidden(h, s.via)

KeysOf(path) ==
  LET matching == {k.key : k \in {j \in ApiKeyPattern : path \in j.paths}}
  IN  IF matching = {} THEN {DefaultApiKey} ELSE matching

(* The sender gets a heartbeat in the group of a key the user has given    *)
(* for its entity, and in that of the default key only if there is none,   *)
(* in whatever order the patterns are tried and even if the queue had it   *)
(* in between, unless its path was hidden by then (params.go:194).  That   *)
(* the group is then sent with this key is not said here, and not so: its  *)
(* header has the default key, other than USAGE.md:88 has it (see          *)
(* Authorization in BulkSend).                                             *)
GroupedByOwnKey ==
  \A s \in received :
    LET h == s.heartbeat
    IN  s.via = "direct" \/ h.entity = h.located => h.apiKey \in KeysOf(h.located)

(* A file is only downloaded from a host that presented a key the user     *)
(* knows for it, or whose keys the user does not know and did not ask to   *)
(* be strict about.                                                        *)
HostVerified ==
  \A h \in Range(hh) : h.raw # None =>
    LET c == Remote!NewClient(h.raw)
        strict == Remote!strictHostKeyChecking(c)
    IN  \/ h.server \in Remote!knownHostKeys(c)
        \/ strict = "no"
        \/ strict # "yes" /\ Remote!knownHostKeys(c) = {}

(* A header and the only C, Objective-C or Objective-C++ file of its name  *)
(* have one language, whatever else is in their folder or has been removed *)
(* from it: the time of a unit is not split over two languages.            *)
PairsAgree ==
  \A header \in DOMAIN disk : Ext(header) = ".h" =>
    LET sources == {path \in DOMAIN disk : Stem(path) = Stem(header) /\ Ext(path) \in {".c", ".m", ".mm"}}
    IN  \A source \in sources : sources = {source} => Detect(header) = Detect(source)

-----------------------------------------------------------------------------
(* Why this is so: what is true of a heartbeat goes by the options it is   *)
(* through, k of them                                                      *)

Through(o, k) == \E i \in 1 .. k : Options[i] = o

(* hh[i] is through the option whose loop is running, unless that is one   *)
(* that filters: those it has let through are the filtered ones            *)
Passed(i) == IF i < n /\ Options[option + 1] \notin Filtering THEN option + 1 ELSE option

Verified(h) ==
  LET c == Remote!NewClient(h.raw)
      strict == Remote!strictHostKeyChecking(c)
  IN  \/ h.server \in Remote!knownHostKeys(c)
      \/ strict = "no"
      \/ strict # "yes" /\ Remote!knownHostKeys(c) = {}

Typed(h) == DOMAIN h = Field /\ IsSequence(h.folder) /\ IsSequence(h.folderOverride)

(* Its path, which is the entity until that is hidden                      *)
Placed(h, k) ==
  /\ ~Through("sanitization", k) => Rooted(h.entity)
  /\ Through("modifier", k) => Rooted(h.located)
  /\ Through("modifier", k) /\ ~Through("sanitization", k) => h.located = h.entity

Fetched(h, k) ==
  IF Through("remote", k)
  THEN h.raw # None => h.raw = h.located /\ IsRemote(h.raw) /\ Verified(h)
  ELSE h.raw = None

Hidden(h, via) == FileNamesHidden(h, via) /\ FolderHidden(h)

Fine(h, k) ==
  /\ Typed(h) /\ Placed(h, k) /\ Fetched(h, k)
  /\ Through("filter", k) => ~Excluded(h.located)
  /\ Through("apikey", k) => h.apiKey \in KeysOf(h.located)
  /\ Through("sanitization", k) => Hidden(h, "direct") /\ CredentialsHidden(h, "direct")

(* h is what has become of the given g                                     *)
ComesFrom(h, g, k) ==
  /\ h.id = g.id /\ h.type = g.type /\ h.unsaved = g.unsaved
  /\ h.override = g.override /\ h.alternate = g.alternate
  /\ ~Through("formatting", k) => h.entity = g.entity
  /\ Through("formatting", k) /\ ~Through("modifier", k) => h.entity = Formatted(g)
  /\ Through("modifier", k) => h.located = LocatedOf(g)
  /\ IsRemote(LocatedOf(g)) \/ h.localFile = g.localFile
  /\ Through("project", k) /\ h.project = "" =>
       g.override = "" /\ g.alternate = "" /\ (~IsFile(g) \/ RepositoryOf(LocatedOf(g)).project = "")

(* Nothing comes of nothing                                                *)
AllGiven ==
  pc = "options" =>
    /\ \A i \in DOMAIN hh : \E g \in Range(given) : ComesFrom(hh[i], g, Passed(i))
    /\ \A i \in DOMAIN filtered : \E g \in Range(given) : ComesFrom(filtered[i], g, option + 1)

(* Why a command ends without sending or storing anything                  *)
Ends ==
  /\ pc = "panicked" => \E g \in Range(given) : BundleGone(g)
  /\ pc = "exited" => \E g \in Range(given) : IdentityFatal(g)

OnItsWay(g) ==
  \/ \E i \in DOMAIN hh : ComesFrom(hh[i], g, Passed(i)) /\ (Options[option + 1] \in Filtering => i >= n)
  \/ \E i \in DOMAIN filtered : ComesFrom(filtered[i], g, option + 1)

Loop ==
  /\ pc \in {"options", "send", "done", "panicked", "exited"}
  /\ option \in 0 .. Len(Options) /\ (pc = "options" => option < Len(Options))
  /\ pc = "send" => option = Len(Options) /\ n = 1
  /\ n \in 1 .. Len(hh) + 1
  /\ IsSequence(hh) /\ IsSequence(filtered)
  /\ pc = "options" /\ Options[option + 1] \notin Filtering => filtered = <<>>
  /\ given \in Input /\ patterns \in KeyPatterns
  /\ \E d \in Disk : \A path \in DOMAIN disk : path \in DOMAIN d /\ disk[path] = d[path]

AllFine ==
  /\ pc # "done" => \A i \in DOMAIN hh : Fine(hh[i], Passed(i))
  /\ pc = "options" => \A i \in DOMAIN filtered : Fine(filtered[i], option + 1)
  /\ \A i \in DOMAIN hh : hh[i].raw # None => Verified(hh[i])

(* What the queue or the API has got from the command                      *)
Kept(h, via) ==
  /\ DOMAIN h = Field
  /\ ~Excluded(h.located)
  /\ Hidden(h, via) /\ CredentialsHidden(h, via)

AllKept ==
  /\ \A h \in queue : Kept(h, "queue")
  /\ \A s \in received : Kept(s.heartbeat, s.via) /\ s.via \in {"direct", "queue"}

NoneLost ==
  \A i \in DOMAIN given :
    \/ Dropped(given[i])
    \/ pc = "options" /\ OnItsWay(given[i])
    \/ pc = "send" /\ given[i].id \in {h.id : h \in Range(hh)}
    \/ pc = "done" /\ given[i].id \in {h.id : h \in Arrived}
    \/ pc \in {"panicked", "exited"}

IInv == Loop /\ AllFine /\ AllKept /\ GroupedByOwnKey /\ AllGiven /\ Ends /\ NoneLost

=============================================================================
