-------------------------- MODULE ProjectDetection --------------------------
(***************************************************************************)
(* Project detection (pkg/project): the option of the heartbeat pipeline   *)
(* that finds the project, branch and project folder of each heartbeat in  *)
(* the file tree around the entity, and that hides a detected project name *)
(* by writing a generated one into a .wakatime-project file.               *)
(*                                                                         *)
(* Several commands run at once, each over its own heartbeats, in one file *)
(* tree.  What a command reads it reads in two steps (project file, then   *)
(* revision control), and what it writes too (truncate, then write).  A    *)
(* command may be killed anywhere.                                         *)
(*                                                                         *)
(* A path is the sequence of its names.  The tree maps a path to           *)
(* [readable, lines]; a directory has no lines.  A line is                 *)
(* [kind, value, absolute] with kind "gitdir" for "gitdir: <path>", "ref"  *)
(* for "ref: <path>" and "text"; a text that is a path is absolute or not. *)
(***************************************************************************)
EXTENDS Integers, SequencesExt

CONSTANTS
  Command,                \* the running commands
  Tree,                   \* the initial file trees
  Work,                   \* what a command may get: its heartbeats, and whether it hides names
  GeneratedName,          \* the names generateProjectName may return
  Left,                   \* what is left of a longer one under another: [over, name, lines]
  SubmodulePattern,       \* git.submodules_disabled: each a set of paths
  MapPattern,             \* [projectmap]: a sequence of [paths, name, formats]: a template may have an error
  Svn,                    \* what the svn binary does: [status, root, url]
  maxRecursiveIteration   \* how far up a search goes

ASSUME SearchAssumption == maxRecursiveIteration \in Nat

(* Paths and lines are sequences.                                          *)
IsSequence(s) == s \in Seq(Range(s))

ASSUME TreeAssumption ==
  \A tree \in Tree : \A path \in DOMAIN tree :
    /\ IsSequence(path) /\ DOMAIN tree[path] = {"readable", "lines"} /\ IsSequence(tree[path].lines)
    /\ \A line \in Range(tree[path].lines) : IsSequence(line.value)

Field == {"type", "unsaved", "entity", "override", "alternate", "project", "branch", "projectPath"}

ASSUME WorkAssumption ==
  \A w \in Work :
    /\ DOMAIN w = {"hh", "hide"} /\ IsSequence(w.hh) /\ w.hh # <<>>
    /\ \A h \in Range(w.hh) : DOMAIN h = Field /\ IsSequence(h.entity)

ASSUME LeftAssumption ==
  \A l \in Left : IsSequence(l.lines) /\ \A line \in Range(l.lines) : IsSequence(line.value)

ASSUME ConfigAssumption ==
  IsSequence(MapPattern) /\ IsSequence(Svn.root)

VARIABLES
  files,    \* the file tree
  work,     \* command -> its heartbeats and whether their project names are hidden
  n,        \* command -> the heartbeat its loop is at
  result,   \* command -> the Result under construction
  pc,       \* command -> "config", "revcontrol", "truncate", "write", "next" or "killed"
  named,    \* history: command -> the directories with a named project file when it looked
  lost      \* history: the files that could not be written after they were emptied

vars == <<files, work, n, result, pc, named, lost>>

-----------------------------------------------------------------------------
(* Paths and files *)

None == <<>>
Dir(path) == IF path = <<>> THEN <<>> ELSE Front(path)
Base(path) == IF path = <<>> THEN "" ELSE Last(path)

Join(path, rest) ==
  LET joined[i \in 0 .. Len(rest)] ==
        IF i = 0 THEN path
        ELSE IF rest[i] = ".." THEN Dir(joined[i - 1]) ELSE Append(joined[i - 1], rest[i])
  IN  joined[Len(rest)]

fileExists(path) == path \in DOMAIN files

(* A search passes the root by, and gives up after so many directories *)
FindFileOrDirectory(directory, filename) ==
  LET depth == {i \in 1 .. Len(directory) :
                  /\ Len(directory) - i < maxRecursiveIteration
                  /\ fileExists(SubSeq(directory, 1, i) \o filename)}
  IN  IF depth = {} THEN None ELSE SubSeq(directory, 1, Max(depth)) \o filename

Readable(path) == files[path].readable

readFile(path, max) == SubSeq(files[path].lines, 1, Min({max, Len(files[path].lines)}))

firstNonEmptyString(values) ==
  LET nonEmpty == {i \in DOMAIN values : values[i] # ""}
  IN  IF nonEmpty = {} THEN "" ELSE values[Min(nonEmpty)]

(* The directory a revision control search starts in: none, for Mercurial, *)
(* Subversion and TFVC, when the entity does not exist                     *)
StartOf(entity) == IF fileExists(entity) THEN Dir(entity) ELSE None

Result(project, branch, folder) ==
  [detected |-> TRUE, project |-> project, branch |-> branch, folder |-> folder]

(* Not detected, or an error: either way the next detecter is asked *)
Undetected == [detected |-> FALSE, project |-> "", branch |-> "", folder |-> None]

FirstDetected(results) ==
  LET detected == {i \in DOMAIN results : results[i].detected}
  IN  IF detected = {} THEN Undetected ELSE results[Min(detected)]

-----------------------------------------------------------------------------
(* The configured detecters *)

WakaTimeProjectFile == ".wakatime-project"

ProjectFileIn(folder) == folder \o <<WakaTimeProjectFile>>

ProjectFile(entity) ==
  LET fp == FindFileOrDirectory(entity, <<WakaTimeProjectFile>>)
      lines == readFile(fp, 2)
      name(i) == IF i <= Len(lines) THEN Base(lines[i].value) ELSE ""
  IN  IF fp = None \/ ~Readable(fp) THEN Undetected ELSE Result(name(1), name(2), Dir(fp))

matchPattern(entity) ==
  {i \in DOMAIN MapPattern : entity \in MapPattern[i].paths /\ MapPattern[i].formats}

ProjectMap(entity) ==
  IF matchPattern(entity) = {}
  THEN Undetected
  ELSE Result(MapPattern[Min(matchPattern(entity))].name, "", Dir(entity))

Detect(entity) == FirstDetected(<<ProjectFile(entity), ProjectMap(entity)>>)

-----------------------------------------------------------------------------
(* Git *)

(* A reference with less than three parts, other than refs/heads/main, is  *)
(* an index out of range, which ends the process: see Panic                *)
Panicked == "panicked"

findGitBranch(head) ==
  CASE ~fileExists(head) -> "master"
    [] fileExists(head) /\ ~Readable(head) -> ""
    [] OTHER -> LET lines == readFile(head, 1)
                IN  IF lines = <<>> \/ lines[1].kind # "ref" THEN ""
                    ELSE IF Len(lines[1].value) < 3 THEN Panicked
                    ELSE lines[1].value[3]

resolveGitdir(directory, line) ==
  LET path == IF line.absolute THEN line.value ELSE Join(directory, line.value)
  IN  IF fileExists(path \o <<"HEAD">>) THEN path ELSE None

findGitdir(dotgit) ==
  LET lines == readFile(dotgit, 1)
  IN  IF lines # <<>> /\ lines[1].kind = "gitdir"
      THEN resolveGitdir(Dir(dotgit), lines[1])
      ELSE None

shouldTakeSubmodule(directory) == \A pattern \in SubmodulePattern : directory \notin pattern

(* "modules" may be any part of the path, a part of a name as well *)
InModules(gitdir) == Range(gitdir) \cap {"modules", "node_modules"} # {}

CommondirFails(gitdir) ==
  /\ Base(Dir(gitdir)) = "worktrees"
  /\ fileExists(gitdir \o <<"commondir">>) /\ ~Readable(gitdir \o <<"commondir">>)

resolveCommondir(gitdir) ==
  LET lines == readFile(gitdir \o <<"commondir">>, 1)
      path == Join(gitdir, lines[1].value)
  IN  IF lines # <<>> /\ Base(path) = ".git" THEN path ELSE None

findCommondir(gitdir) ==
  IF Base(Dir(gitdir)) = "worktrees" /\ fileExists(gitdir \o <<"commondir">>)
  THEN resolveCommondir(gitdir)
  ELSE None

(* A submodule first, then a .git directory, a worktree, a plain .git file *)
Git(entity) ==
  LET directory == IF fileExists(entity) THEN Dir(entity) ELSE entity
      dotgit == FindFileOrDirectory(directory, <<".git">>)
      opened == dotgit # None /\ Readable(dotgit)
      config == FindFileOrDirectory(directory, <<".git", "config">>)
      gitdir == IF opened THEN findGitdir(dotgit) ELSE None
      commondir == findCommondir(gitdir)
      branch == findGitBranch(gitdir \o <<"HEAD">>)
  IN  CASE shouldTakeSubmodule(directory) /\ dotgit # None /\ ~opened -> Undetected
        [] shouldTakeSubmodule(directory) /\ InModules(gitdir) -> Result(Base(gitdir), branch, Dir(gitdir))
        [] OTHER ->
             CASE config # None -> Result(Base(Dir(Dir(config))),
                                          findGitBranch(Dir(config) \o <<"HEAD">>),
                                          Dir(Dir(config)))
               [] config = None /\ (gitdir = None \/ CommondirFails(gitdir)) -> Undetected
               [] config = None /\ commondir # None ->
                    Result(Base(Dir(commondir)), branch, Dir(commondir))
               [] OTHER -> Result(Base(Dir(dotgit)), branch, Dir(gitdir))

-----------------------------------------------------------------------------
(* The other revision controls *)

findHgBranch(hg) ==
  LET path == hg \o <<"branch">>
  IN  CASE ~fileExists(path) -> "default"
        [] fileExists(path) /\ ~Readable(path) -> ""
        [] OTHER -> IF readFile(path, 1) = <<>> THEN "default" ELSE Base(readFile(path, 1)[1].value)

(* Its folder is the one that holds the project's *)
Mercurial(entity) ==
  LET hg == FindFileOrDirectory(StartOf(entity), <<".hg">>)
  IN  IF hg = None THEN Undetected ELSE Result(Base(Dir(hg)), findHgBranch(hg), Dir(Dir(hg)))

(* Its folder is the address of the repository *)
Subversion(entity) ==
  IF Svn.status # "ok" \/ FindFileOrDirectory(StartOf(entity), <<".svn", "wc.db">>) = None
  THEN Undetected
  ELSE Result(Base(Svn.root), Base(Svn.url), Svn.root)

Tfvc(entity) ==
  LET tf == FindFileOrDirectory(StartOf(entity), <<".tf", "properties.tf1">>)
  IN  IF tf = None THEN Undetected ELSE Result(Base(Dir(Dir(tf))), "", Dir(Dir(Dir(tf))))

DetectWithRevControl(entity) ==
  FirstDetected(<<Git(entity), Mercurial(entity), Subversion(entity), Tfvc(entity)>>)

-----------------------------------------------------------------------------
(* The loop of a command over its heartbeats *)

Heartbeat(c) == work[c].hh[n[c]]

Init ==
  /\ files \in Tree
  /\ work \in [Command -> Work]
  /\ n = [c \in Command |-> 1]
  /\ result = [c \in Command |-> Undetected]
  /\ pc = [c \in Command |-> "config"]
  /\ named = [c \in Command |-> {}]
  /\ lost = {}

(* hh[n] gets the project, the branch and the folder *)
Store(c, r) ==
  /\ work' = [work EXCEPT ![c].hh[n[c]] =
                [@ EXCEPT !.project = r.project, !.branch = r.branch, !.projectPath = r.folder]]
  /\ n' = [n EXCEPT ![c] = @ + 1]
  /\ pc' = [pc EXCEPT ![c] = IF n[c] = Len(work[c].hh) THEN "next" ELSE "config"]

(* No file to look around: the project is what the plugin says *)
DetectOther(c) ==
  LET h == Heartbeat(c)
  IN  /\ pc[c] = "config"
      /\ h.type # "file" \/ h.unsaved
      /\ Store(c, [Undetected EXCEPT !.project = firstNonEmptyString(<<h.override, h.alternate>>)])
      /\ UNCHANGED <<files, result, named, lost>>

Configured(h) ==
  LET r == Detect(h.entity)
  IN  IF h.override # "" THEN [r EXCEPT !.project = h.override] ELSE r

(* directory has a project file with a name in it *)
Named(directory) ==
  LET file == ProjectFileIn(directory)
  IN  fileExists(file) /\ files[file].lines # <<>> /\ Base(files[file].lines[1].value) # ""

DetectConfigured(c) ==
  LET h == Heartbeat(c)
      r == Configured(h)
  IN  /\ pc[c] = "config"
      /\ h.type = "file" /\ ~h.unsaved
      /\ IF r.project = "" \/ r.branch = ""
         THEN /\ pc' = [pc EXCEPT ![c] = "revcontrol"]
              /\ UNCHANGED <<work, n>>
         ELSE Store(c, r)
      /\ result' = [result EXCEPT ![c] = r]
      /\ named' = [named EXCEPT ![c] = {d \in DOMAIN files : Named(d)}]
      /\ UNCHANGED <<files, lost>>

(* Completed(r, rev, project) is the result with what revision control adds *)
Completed(r, rev, project) ==
  [r EXCEPT !.branch = firstNonEmptyString(<<r.branch, rev.branch>>),
            !.folder = IF r.folder # None THEN r.folder ELSE rev.folder,
            !.project = project]

(* Mutants: a name in a project file is not respected; a name is not       *)
(* hidden next to an empty project file                                    *)
ObfuscatesAlways(c, rev) == work[c].hide /\ rev.project # ""
ObfuscatesOutside(c, rev) ==
  work[c].hide /\ rev.project # "" /\ result[c].project = "" /\ result[c].folder = None

(* obfuscateProjectName runs when a detected name must not be sent *)
Obfuscates(c, rev) == work[c].hide /\ rev.project # "" /\ result[c].project = ""

DetectRevControl(c) ==
  LET h == Heartbeat(c)
      r == result[c]
      rev == DetectWithRevControl(h.entity)
  IN  /\ pc[c] = "revcontrol"
      /\ rev.branch # Panicked
      /\ IF Obfuscates(c, rev)
         THEN /\ \E name \in GeneratedName : result' = [result EXCEPT ![c] = Completed(r, rev, name)]
              /\ pc' = [pc EXCEPT ![c] = "truncate"]
              /\ UNCHANGED <<work, n>>
         ELSE /\ Store(c, Completed(r, rev, firstNonEmptyString(<<r.project, rev.project, h.alternate>>)))
              /\ UNCHANGED result
      /\ UNCHANGED <<files, named, lost>>

(* findGitBranch's index is out of range: the process ends                  *)
Panic(c) ==
  /\ pc[c] = "revcontrol"
  /\ DetectWithRevControl(Heartbeat(c).entity).branch = Panicked
  /\ pc' = [pc EXCEPT ![c] = "killed"]
  /\ UNCHANGED <<files, work, n, result, named, lost>>

ProjectFileOf(c) == ProjectFileIn(result[c].folder)

Text(value) == [kind |-> "text", value |-> value, absolute |-> FALSE]

Writable(file) == fileExists(Dir(file)) /\ (fileExists(file) => Readable(file))

(* Write of the file: it is created or emptied first ... *)
Emptied(file) ==
  [path \in DOMAIN files \cup {file} |->
     IF path = file THEN [readable |-> TRUE, lines |-> <<>>] ELSE files[path]]

Truncate(c) ==
  /\ pc[c] = "truncate"
  /\ Writable(ProjectFileOf(c))
  /\ files' = Emptied(ProjectFileOf(c))
  /\ pc' = [pc EXCEPT ![c] = "write"]
  /\ UNCHANGED <<work, n, result, named, lost>>

(* ... or cannot be opened, which is logged: the name is used nevertheless *)
WriteFails(c) ==
  /\ pc[c] = "truncate"
  /\ ~Writable(ProjectFileOf(c))
  /\ Store(c, result[c])
  /\ UNCHANGED <<files, result, named, lost>>

(* ... then written from its beginning on: what another command has written *)
(* since it was emptied, if that is longer, shows behind the new name        *)
Overlaid(lines, name) ==
  LET left == {l \in Left : lines # <<>> /\ l.over = Base(lines[1].value) /\ l.name = name}
  IN  {<<Text(<<name>>)>> \o rest : rest \in IF left = {} THEN {<<>>} ELSE {l.lines : l \in left}}

(* Mutant: the file is only created *)
WriteNothing(c) ==
  /\ pc[c] = "write"
  /\ Store(c, result[c])
  /\ UNCHANGED <<files, result, named, lost>>

Write(c) ==
  /\ pc[c] = "write"
  /\ \E lines \in Overlaid(files[ProjectFileOf(c)].lines, result[c].project) :
       files' = [files EXCEPT ![ProjectFileOf(c)].lines = lines]
  /\ Store(c, result[c])
  /\ UNCHANGED <<result, named, lost>>

(* The disk is full: the file stays empty, and the name is used nevertheless *)
WriteBreaksOff(c) ==
  /\ pc[c] = "write"
  /\ lost' = lost \cup {ProjectFileOf(c)}
  /\ Store(c, result[c])
  /\ UNCHANGED <<files, result, named>>

Kill(c) ==
  /\ pc[c] \in {"truncate", "write"}
  /\ pc' = [pc EXCEPT ![c] = "killed"]
  /\ UNCHANGED <<files, work, n, result, named, lost>>

Next ==
  \E c \in Command :
    \/ DetectOther(c)
    \/ DetectConfigured(c)
    \/ DetectRevControl(c)
    \/ Panic(c)
    \/ Truncate(c)
    \/ WriteFails(c)
    \/ Write(c)
    \/ WriteBreaksOff(c)
    \/ Kill(c)

Spec == Init /\ [][Next]_vars

-----------------------------------------------------------------------------
(* What the detection is for *)

Detected(c) == {i \in 1 .. n[c] - 1 : work[c].hh[i].type = "file" /\ ~work[c].hh[i].unsaved}

(* Names users have given: in project files, in the map, to the plugin      *)
FileNames ==
  {Base(line.value) :
     line \in UNION {{tree[path].lines[1] : path \in {p \in DOMAIN tree : Base(p) = WakaTimeProjectFile
                                                                     /\ tree[p].lines # <<>>}} : tree \in Tree}}

Given(h) == {h.override, h.alternate} \cup {p.name : p \in Range(MapPattern)} \cup FileNames

(* hide_project_names: whatever files, revision control and other commands *)
(* do meanwhile, a heartbeat has a name for its project that was given or  *)
(* generated, or none, but not that of a folder or a repository.           *)
NameHidden(h) == h.project \in Given(h) \cup GeneratedName \cup {""}

NamesHidden ==
  \A c \in Command : work[c].hide => \A i \in Detected(c) : NameHidden(work[c].hh[i])

(* The search for a project file finds that of directory, or a nearer one: *)
(* directory encloses the entity, and no project file on the way, which is *)
(* not too long, is unreadable: that would end the search.                 *)
Finds(entity, directory) ==
  /\ Len(directory) \in 1 .. Len(entity) /\ directory = SubSeq(entity, 1, Len(directory))
  /\ Len(entity) - Len(directory) < maxRecursiveIteration
  /\ \A i \in Len(directory) .. Len(entity) :
       LET file == ProjectFileIn(SubSeq(entity, 1, i))
       IN  fileExists(file) => Readable(file)

(* Once the project file of a folder holds a name, only a command replaces *)
(* it that had looked for a name before there was one, or could not find   *)
(* it: the generated name of a project is kept, so that its time adds up.  *)
NameKept ==
  [][\A d \in DOMAIN files :
       Named(d) /\ files'[ProjectFileIn(d)] # files[ProjectFileIn(d)]
         => \E c \in Command :
              /\ pc[c] \in {"truncate", "write"} /\ result[c].folder = d
              /\ Finds(Heartbeat(c).entity, d) => d \notin named[c]]_vars

(* When all commands have ended, and none was killed on the way, the file  *)
(* of a project they generated names for begins with one of these names,   *)
(* however their truncations and writes interleaved: none is left empty,   *)
(* but where a write failed after the truncation.                          *)
NameIn(file) == Base(files[file].lines[1].value)

(* A heartbeat of that project has the name in file                        *)
IsGiven(file) ==
  \E c \in Command : \E i \in Detected(c) :
    LET h == work[c].hh[i]
    IN  ProjectFileIn(h.projectPath) = file /\ h.project = NameIn(file)

(* No folder is called like a project file                                 *)
Hidden(h) == h.project \in GeneratedName /\ Base(h.projectPath) \notin {"", WakaTimeProjectFile}

LastingName ==
  (\A c \in Command : pc[c] = "next") =>
    \A c \in Command : \A i \in Detected(c) :
      LET file == ProjectFileIn(work[c].hh[i].projectPath)
      IN  work[c].hide /\ Hidden(work[c].hh[i]) /\ Writable(file) /\ file \notin lost
            => fileExists(file) /\ files[file].lines # <<>> /\ IsGiven(file)

-----------------------------------------------------------------------------
(* Why this is so *)

FilesTyped ==
  \A path \in DOMAIN files :
    /\ IsSequence(path)
    /\ DOMAIN files[path] = {"readable", "lines"}
    /\ IsSequence(files[path].lines)
    /\ \A i \in DOMAIN files[path].lines : IsSequence(files[path].lines[i].value)

CommandTyped(c) ==
  /\ DOMAIN work[c] = {"hh", "hide"} /\ IsSequence(work[c].hh)
  /\ \A i \in DOMAIN work[c].hh : DOMAIN work[c].hh[i] = Field /\ IsSequence(work[c].hh[i].entity)
  /\ n[c] \in Nat \ {0}
  /\ IF pc[c] = "next" THEN n[c] - 1 \in DOMAIN work[c].hh ELSE n[c] \in DOMAIN work[c].hh
  /\ \A i \in Detected(c) : IsSequence(work[c].hh[i].projectPath)
  /\ DOMAIN result[c] = DOMAIN Undetected /\ IsSequence(result[c].folder)
  /\ pc[c] \in {"config", "next"} \/ (Heartbeat(c).type = "file" /\ ~Heartbeat(c).unsaved)

CommandsTyped ==
  /\ DOMAIN work = Command /\ DOMAIN n = Command /\ DOMAIN result = Command
  /\ DOMAIN pc = Command /\ DOMAIN named = Command
  /\ \A c \in Command : CommandTyped(c)

(* What is in project files, and what is hidden                            *)
FileNamesKnown ==
  \A path \in DOMAIN files :
    Base(path) = WakaTimeProjectFile /\ files[path].lines # <<>>
      => NameIn(path) \in FileNames \cup GeneratedName

NameKnown(c) ==
  /\ pc[c] \in {"truncate", "write"} => result[c].project \in GeneratedName
  /\ pc[c] = "revcontrol" => result[c].project \in Given(Heartbeat(c)) \cup GeneratedName \cup {""}

(* A name that was there has been found, or a nearer file                  *)
SearchDone(c) ==
  /\ pc[c] \in {"revcontrol", "truncate", "write"} =>
       \A d \in named[c] : Finds(Heartbeat(c).entity, d) =>
         \/ pc[c] = "revcontrol" /\ result[c].project # ""
         \/ result[c].folder # None /\ result[c].folder # d
  /\ pc[c] = "write" => fileExists(ProjectFileOf(c)) /\ Readable(ProjectFileOf(c))

IInv ==
  /\ FilesTyped /\ CommandsTyped /\ FileNamesKnown /\ NamesHidden
  /\ \A c \in Command : NameKnown(c) /\ SearchDone(c)

(* file holds name, or another name given, or someone is about to write it, *)
(* or could not                                                             *)
Holds(file, name) ==
  /\ fileExists(file)
  /\ \/ files[file].lines # <<>> /\ (NameIn(file) = name \/ IsGiven(file))
     \/ \E c \in Command : pc[c] \in {"write", "killed"} /\ ProjectFileOf(c) = file
     \/ file \in lost

IsKept(h) ==
  LET file == ProjectFileIn(h.projectPath)
  IN  Hidden(h) /\ Writable(file) => Holds(file, h.project)

NamesLast ==
  \A c \in Command : work[c].hide =>
    /\ \A i \in Detected(c) : IsKept(work[c].hh[i])
    /\ pc[c] = "revcontrol" /\ result[c].project \in GeneratedName =>
         result[c].folder # None /\ Holds(ProjectFileOf(c), result[c].project)

(* Where no user calls a project like a generated name; those in project   *)
(* files may be generated                                                  *)
NamesFresh ==
  /\ "" \notin GeneratedName
  /\ GeneratedName \cap {p.name : p \in Range(MapPattern)} = {}
  /\ \A w \in Work : \A h \in Range(w.hh) : {h.override, h.alternate} \cap GeneratedName = {}

WorkFresh ==
  \A c \in Command : \A i \in DOMAIN work[c].hh :
    {work[c].hh[i].override, work[c].hh[i].alternate} \cap GeneratedName = {}

=============================================================================
