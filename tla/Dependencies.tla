---------------------------- MODULE Dependencies ----------------------------
(***************************************************************************)
(* Dependency detection (pkg/deps): the option of the heartbeat pipeline   *)
(* that parses the file of each heartbeat with the parser of its language  *)
(* (module TokenParsers) and keeps the admissible part of what it found.   *)
(*                                                                         *)
(* A heartbeat is sent while its file is being edited, so a file is any    *)
(* sequence of statements, interrupted ones among them.  Each statement    *)
(* carries the tokens its lexer delivers and the dependencies a reader     *)
(* would take from it.                                                     *)
(***************************************************************************)
EXTENDS TokenParsers

CONSTANTS
  Opening,              \* language -> the tokens before the first statement
  Batch,                \* the sequences of heartbeats the option may get
  maxDependencyLength,  \* the longest dependency kept, here in atoms
  maxDependenciesCount  \* the most dependencies kept of one file

IsSequence(s) == s \in Seq(Range(s))

Field == {"type", "unsaved", "hidden", "language", "entity", "localFile", "dependencies"}

FileOf(h) == IF h.localFile.path # "" THEN h.localFile ELSE h.entity

(* Files of any length, in heartbeats of any number *)
ASSUME BatchAssumption ==
  \A batch \in Batch :
    /\ IsSequence(batch)
    /\ \A h \in Range(batch) :
         /\ DOMAIN h = Field
         /\ IsSequence(FileOf(h).statements)
         /\ \A s \in Range(FileOf(h).statements) : IsSequence(s.tokens) /\ IsSequence(s.deps)

ASSUME OpeningAssumption == \A language \in Parsed : IsSequence(Opening[language])

ASSUME LimitAssumption == {maxDependencyLength, maxDependenciesCount} \subseteq Nat

VARIABLES
  hh,        \* the heartbeats
  n,         \* the one the loop is at
  parsed,    \* the output of the parser, not yet filtered
  k,         \* how many dependencies of it the filter has seen
  results,   \* what the filter has kept
  pc         \* "detect", "filter" or "next": hh was passed on

vars == <<hh, n, parsed, k, results, pc>>

-----------------------------------------------------------------------------
(* What the option reads of a heartbeat *)

(* The four conditions under which a heartbeat is passed over *)
Eligible(h) ==
  /\ h.type = "file"
  /\ ~h.unsaved
  /\ h.language # "none"
  /\ ~h.hidden

Tokens(language, file) ==
  Opening[language] \o FlattenSeq([i \in DOMAIN file.statements |-> file.statements[i].tokens])

Detect(language, file) ==
  LET tokens == Tokens(language, file)
  IN  CASE language \in {"C", "C++"} -> ParseC(tokens)
        [] language = "C#" -> ParseCSharp(tokens)
        [] language = "Elm" -> ParseElm(tokens)
        [] language = "Go" -> ParseGo(tokens)
        [] language = "Haskell" -> ParseHaskell(tokens)
        [] language = "Haxe" -> ParseHaxe(tokens)
        [] language = "HTML" -> ParseHTML(tokens)
        [] language = "Java" -> ParseJava(tokens)
        [] language \in {"JavaScript", "TypeScript"} -> ParseJavaScript(tokens)
        [] language = "JSON" -> ParseJSON(file.name, tokens)
        [] language = "Kotlin" -> ParseKotlin(tokens)
        [] language = "Objective-C" -> ParseObjectiveC(tokens)
        [] language = "PHP" -> ParsePHP(tokens)
        [] language = "Python" -> ParsePython(tokens)
        [] language = "Rust" -> ParseRust(tokens)
        [] language = "Scala" -> ParseScala(tokens)
        [] language = "Swift" -> ParseSwift(tokens)
        [] language = "VB.NET" -> ParseVbNet(tokens)

-----------------------------------------------------------------------------
(* The loop over the heartbeats *)

Init ==
  /\ hh \in Batch
  /\ n = 1
  /\ parsed = <<>> /\ k = 0 /\ results = <<>>
  /\ pc = "detect"

Detecting == pc = "detect" /\ n <= Len(hh)

Skip ==
  /\ Detecting
  /\ ~Eligible(hh[n])
  /\ n' = n + 1
  /\ UNCHANGED <<hh, parsed, k, results, pc>>

(* The file cannot be opened, read or split into tokens *)
Fail ==
  /\ Detecting
  /\ Eligible(hh[n])
  /\ hh[n].language \in Parsed /\ ~FileOf(hh[n]).readable
  /\ n' = n + 1
  /\ UNCHANGED <<hh, parsed, k, results, pc>>

ToFilter(output) ==
  /\ parsed' = output /\ k' = 0 /\ results' = <<>>
  /\ pc' = "filter"
  /\ UNCHANGED <<hh, n>>

Parse ==
  /\ Detecting
  /\ Eligible(hh[n])
  /\ hh[n].language \in Parsed /\ FileOf(hh[n]).readable
  /\ ToFilter(Detect(hh[n].language, FileOf(hh[n])))

(* A language without a parser: the file is not opened *)
ParseName ==
  /\ Detecting
  /\ Eligible(hh[n])
  /\ hh[n].language \notin Parsed
  /\ \E walk \in SetToSeqs(DOMAIN FilesUnknown) :
       ToFilter(ParseUnknown(FileOf(hh[n]).words, walk))

Kept(dep) == dep \notin Range(results) /\ dep # <<>> /\ Len(dep) <= maxDependencyLength

Filter ==
  /\ pc = "filter"
  /\ k < Len(parsed) /\ Len(results) < maxDependenciesCount
  /\ k' = k + 1
  /\ results' = IF Kept(parsed[k + 1]) THEN Append(results, parsed[k + 1]) ELSE results
  /\ UNCHANGED <<hh, n, parsed, pc>>

Store ==
  /\ pc = "filter"
  /\ k = Len(parsed) \/ Len(results) >= maxDependenciesCount
  /\ hh' = [hh EXCEPT ![n].dependencies = results]
  /\ n' = n + 1
  /\ pc' = "detect"
  /\ UNCHANGED <<parsed, k, results>>

PassOn ==
  /\ pc = "detect" /\ n > Len(hh)
  /\ pc' = "next"
  /\ UNCHANGED <<hh, n, parsed, k, results>>

Next == Skip \/ Fail \/ Parse \/ ParseName \/ Filter \/ Store \/ PassOn

Spec == Init /\ [][Next]_vars

-----------------------------------------------------------------------------
(* What the detection is for *)

(* The dependencies a reader takes from a file, in their order *)
Imports(language, file) ==
  (IF language = "JSON" THEN FilenameJSON(file.name).output ELSE <<>>)
  \o FlattenSeq([i \in DOMAIN file.statements |-> file.statements[i].deps])

Regular(file) == \A i \in DOMAIN file.statements : file.statements[i].regular

(* found is what may be sent of deps: the admissible ones, each once, in   *)
(* the order of their first occurrence, and the first of them if there are *)
(* more than may be sent                                                   *)
FirstAt(deps, dep) == Min({i \in DOMAIN deps : deps[i] = dep})

Admissible(deps) == {dep \in Range(deps) : dep # <<>> /\ Len(dep) <= maxDependencyLength}

IsFiltered(found, deps) ==
  /\ Range(found) \subseteq Admissible(deps)
  /\ \A i, j \in DOMAIN found : i < j => FirstAt(deps, found[i]) < FirstAt(deps, found[j])
  /\ Len(found) <= maxDependenciesCount
  /\ \A dep \in Admissible(deps) \ Range(found) :
       /\ Len(found) = maxDependenciesCount
       /\ \A i \in DOMAIN found : FirstAt(deps, found[i]) < FirstAt(deps, dep)

Served(i) == i < n /\ Eligible(hh[i]) /\ FileOf(hh[i]).readable /\ hh[i].language \in Parsed

(* What the statements of a file name from the given one on *)
DepsFrom(statements, i) ==
  FlattenSeq([j \in DOMAIN statements |-> IF j < i THEN <<>> ELSE statements[j].deps])

(* Statement after statement, in any order, a file whose statements are    *)
(* regular yields the dependencies of each of them and no other: no state  *)
(* of a parser, and nothing of one heartbeat, survives into what is read   *)
(* next.  Interrupted statements are not regular, and neither are the      *)
(* complete ones that a parser is known to misread, such as a JavaScript   *)
(* import in double quotes or a second name after `as' in Python.          *)
DepsAreTheImports ==
  \A i \in DOMAIN hh :
    LET file == FileOf(hh[i])
    IN  Served(i) /\ Regular(file)
          => IsFiltered(hh[i].dependencies, Imports(hh[i].language, file))

(* An interrupted import, which is how a file under edit looks, may make a *)
(* parser take the code after it for its continuation, but not beyond the  *)
(* next regular import: from there on, if all statements are regular, it   *)
(* yields what they name and no other, in their order.  Not so the parsers *)
(* of the languages in Gluing.                                             *)
InterruptionEnds ==
  pc = "filter" /\ hh[n].language \in Parsed \ Gluing =>
    LET statements == FileOf(hh[n]).statements
    IN  \A i \in DOMAIN statements :
          /\ statements[i].deps # <<>>
          /\ \A j \in DOMAIN statements : j >= i => statements[j].regular
          => EndsIn(parsed, DepsFrom(statements, i))

(* The next regular import is found whatever interrupted one stands before *)
(* it: the keyword starts the parsers of all other languages anew.         *)
ImportAfterInterruption ==
  pc = "filter" /\ hh[n].language \in Parsed \ Gluing =>
    LET statements == FileOf(hh[n]).statements
    IN  \A i \in DOMAIN statements :
          statements[i].regular => Range(statements[i].deps) \subseteq Range(parsed)

-----------------------------------------------------------------------------
(* Why this is so                                                          *)

(* The statements of which the files in a language consist *)
Statements ==
  [language \in Parsed |->
     LET heartbeats == {h \in UNION {Range(batch) : batch \in Batch} : h.language = language}
     IN  UNION {Range(FileOf(h).statements) : h \in heartbeats}]

(* A heartbeat of a batch, apart from the dependencies it may have got *)
Known(h) ==
  /\ DOMAIN h = Field
  /\ IsSequence(FileOf(h).statements)
  /\ \A s \in Range(FileOf(h).statements) : IsSequence(s.tokens) /\ IsSequence(s.deps)
  /\ h.language \in Parsed => Range(FileOf(h).statements) \subseteq Statements[h.language]

(* The filter has seen m of deps and has kept found *)
FilteredUpTo(found, deps, m) ==
  /\ IsSequence(deps) /\ m \in 0 .. Len(deps)
  /\ IsSequence(found) /\ Len(found) <= maxDependenciesCount
  /\ Range(found) = {dep \in Admissible(deps) : FirstAt(deps, dep) <= m}
  /\ \A i, j \in DOMAIN found : i < j => FirstAt(deps, found[i]) < FirstAt(deps, found[j])

Filtering ==
  pc = "filter" =>
    /\ n \in DOMAIN hh
    /\ hh[n].language \in Parsed =>
         /\ parsed = Detect(hh[n].language, FileOf(hh[n]))
         /\ FilteredUpTo(results, parsed, k)

(* What is stored is filtered from the output of the parser *)
StoredIsFiltered ==
  \A i \in DOMAIN hh :
    Served(i) => IsFiltered(hh[i].dependencies, Detect(hh[i].language, FileOf(hh[i])))

IInv ==
  /\ n \in Nat \ {0}
  /\ IsSequence(hh) /\ \A i \in DOMAIN hh : Known(hh[i])
  /\ Filtering
  /\ StoredIsFiltered

=============================================================================
