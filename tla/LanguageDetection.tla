-------------------------- MODULE LanguageDetection -------------------------
(***************************************************************************)
(* Language detection (pkg/language): the language of a file by special    *)
(* cases of the C family, by the lexers (an external library) whose        *)
(* patterns match its name, and by a vim modeline.                         *)
(*                                                                         *)
(* A path is the sequence of its names and ends with the stem and the      *)
(* extension of its last one.  A language and a lexer go by one name.      *)
(* Weights are in hundredths.                                              *)
(***************************************************************************)
EXTENDS Integers, SequencesExt

CONSTANTS
  Lexer,      \* the lexers: [name, priority, rank, extensions, aliases]; rank is the order of names
  Modeline    \* path -> [name, weight], for a path that reads as a modeline: the vim name in it,
              \* and what the lexer of that language makes of the path

VARIABLE
  disk        \* path -> [readable, directory, lines, large, weight]: what can be read there

-----------------------------------------------------------------------------
None == <<>>
Unknown == ""

Upper == [e \in {".c", ".m", ".mm", ".h"} |->
            CASE e = ".c" -> ".C" [] e = ".m" -> ".M" [] e = ".mm" -> ".MM" [] e = ".h" -> ".H"]

ToLower(ext) == IF \E e \in DOMAIN Upper : Upper[e] = ext THEN CHOOSE e \in DOMAIN Upper : Upper[e] = ext ELSE ext

Ext(path) == ToLower(Last(path))
Stem(path) == Front(path)
Folder(path) == Front(Front(path))

(* The files in the folder of path; none if it cannot be listed *)
loadFolderExtensions(path) == {Ext(p) : p \in {q \in DOMAIN disk : Len(q) >= 2 /\ Folder(q) = Folder(path)}}

correspondingFileExists(path, ext) ==
  \E e \in {ext, Upper[ext]} : Append(Stem(path), e) \in DOMAIN disk

folderContainsCFiles(path) == ".c" \in loadFolderExtensions(path)

(* The extensions of a folder are in lower case, so that of the names in   *)
(* upper case in the source's list none is ever met                        *)
folderContainsCPPFiles(path) ==
  loadFolderExtensions(path) \cap
    {".cpp", ".hpp", ".c++", ".h++", ".cc", ".hh", ".cxx", ".hxx", ".cp"} # {}

(* The extensions that begin with ".h" or ".c", as far as instances have one *)
LikeC == {".h", ".hh", ".hpp", ".html", ".hs", ".c", ".cc", ".cpp", ".cs", ".css"}

(* Mutant: the folder is asked before the file of the same name *)
SpecialCasesFolderFirst(path) ==
  CASE Ext(path) \in LikeC /\ folderContainsCPPFiles(path) -> "C++"
    [] Ext(path) \in LikeC /\ correspondingFileExists(path, ".c") -> "C"
    [] OTHER -> Unknown

detectSpecialCases(path) ==
  LET ext == Ext(path)
  IN  CASE SubSeq(path, Len(path) - 1, Len(path)) = <<"go", ".mod">> -> "Go"
        [] SubSeq(path, Len(path) - 1, Len(path)) = <<"CMmakeLists", ".txt">> -> "CMake"
        [] ext \in LikeC ->
             CASE correspondingFileExists(path, ".c") -> "C"
               [] ~correspondingFileExists(path, ".c") /\ correspondingFileExists(path, ".m") -> "Objective-C"
               [] OTHER ->
                    CASE correspondingFileExists(path, ".mm") -> "Objective-C++"
                      [] ~correspondingFileExists(path, ".mm") /\ folderContainsCPPFiles(path) -> "C++"
                      [] OTHER -> IF folderContainsCFiles(path) THEN "C" ELSE Unknown
        [] ext = ".m" /\ correspondingFileExists(path, ".h") -> "Objective-C"
        [] ext = ".mm" /\ correspondingFileExists(path, ".h") -> "Objective-C++"
        [] OTHER -> Unknown

-----------------------------------------------------------------------------
(* The lexers *)

priority(lexer) ==
  CASE lexer.name \in {"FSharp", "Perl"} -> 1
    [] lexer.name = "TypeScript" -> 50
    [] OTHER -> lexer.priority

objectiveCWeight(weight, extensions) ==
  weight + (IF ".mat" \in extensions THEN -1 ELSE 1) + (IF ".h" \in extensions THEN 1 ELSE 0)

matlabWeight(weight, extensions) ==
  weight + (IF ".mat" \in extensions THEN 1 ELSE 0) + (IF ".h" \in extensions THEN 0 ELSE 1)

Analysed(path, lexer) ==
  IF lexer.name \in DOMAIN disk[path].weight THEN disk[path].weight[lexer.name] ELSE 0

Weight(path, lexer) ==
  LET extensions == loadFolderExtensions(path)
  IN  CASE lexer.name = "Matlab" -> matlabWeight(Analysed(path, lexer), extensions)
        [] lexer.name = "Objective-C" -> objectiveCWeight(Analysed(path, lexer), extensions)
        [] OTHER -> Analysed(path, lexer)

(* Greater(k, l): the keys k come before the keys l *)
Greater(k, l) ==
  \E i \in DOMAIN k : k[i] > l[i] /\ \A j \in 1 .. i - 1 : k[j] = l[j]

(* The lexer whose key comes first; keys is a function                     *)
Best(keys) ==
  CHOOSE lexer \in DOMAIN keys : \A other \in DOMAIN keys \ {lexer} : Greater(keys[lexer], keys[other])

fileHead(path) == path \in DOMAIN disk /\ disk[path].readable /\ ~disk[path].directory

(* Without the head of the file the lexers' own priorities decide *)
selectByCustomizedPriority(path, lexers) ==
  IF ~fileHead(path)
  THEN [name |-> Best([l \in lexers |-> <<l.priority, l.rank>>]).name, weight |-> 0]
  ELSE LET best == Best([l \in lexers |-> <<Weight(path, l), priority(l), l.rank>>])
       IN  [name |-> best.name, weight |-> Weight(path, best)]

detectChromaCustomized(path) ==
  LET named == {lexer \in Lexer : Ext(path) \in lexer.extensions}
      aliased == {lexer \in Lexer : Last(path) \in lexer.aliases}
  IN  CASE named # {} -> selectByCustomizedPriority(path, named)
        [] named = {} /\ aliased # {} -> selectByCustomizedPriority(path, aliased)
        [] OTHER -> [name |-> Unknown, weight |-> 0]

-----------------------------------------------------------------------------
(* The vim modeline, which is looked for in the path *)

parseVim ==
  [c |-> "C", cpp |-> "C++", cs |-> "C#", haml |-> "Haml", haskell |-> "Haskell", lhaskell |-> "Haskell",
   html |-> "HTML", java |-> "Java", javascript |-> "JavaScript", markdown |-> "Markdown",
   objc |-> "Objective-C", objcpp |-> "Objective-C++", ocaml |-> "OCaml", perl |-> "Perl", perl6 |-> "Perl",
   php |-> "PHP", phtml |-> "PHP", prolog |-> "Prolog", python |-> "Python", r |-> "R", ruby |-> "Ruby",
   sass |-> "Sass", scheme |-> "Scheme", scss |-> "SCSS", skill |-> "SKILL", vb |-> "VB.NET",
   vim |-> "VimL", xhtml |-> "HTML", xml |-> "XML", yaml |-> "YAML"]
  @@ [v \in {"a65", "asm", "asm68k", "asmh8300"} |-> "Assembly"]
  @@ [v \in {"htmlcheetah", "htmldjango", "htmlm4"} |-> "HTML"]
  @@ [basic |-> "Basic", crontab |-> "Crontab"]

detectVimModeline(path) ==
  IF path \in DOMAIN Modeline /\ Modeline[path].name \in DOMAIN parseVim
  THEN [name |-> parseVim[Modeline[path].name], weight |-> Modeline[path].weight]
  ELSE [name |-> Unknown, weight |-> 0]

Detect(path) ==
  LET special == detectSpecialCases(path)
      chroma == detectChromaCustomized(path)
      vim == detectVimModeline(path)
  IN  CASE special # Unknown -> special
        [] special = Unknown /\ vim.name # Unknown /\ vim.weight > chroma.weight -> vim.name
        [] OTHER -> chroma.name

=============================================================================
