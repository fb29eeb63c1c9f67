---------------------------- MODULE TokenParsers ----------------------------
(***************************************************************************)
(* The dependency parsers of pkg/deps: one token state machine for each    *)
(* language.  A parser gets the tokens of a file from the lexer of that    *)
(* language (an external library), one after another, and appends what an  *)
(* import names to its output.                                             *)
(*                                                                         *)
(* A text is a sequence of atoms: the names in it and the characters that  *)
(* the parsers look at.  A token is [type |-> t, value |-> text], with the *)
(* token types of the lexer library.  All parsers share one record type    *)
(* for their state, of which each uses the fields that its struct has; two *)
(* names in a row in a buffer have no separator between them in the code   *)
(* either, they are one longer name.                                       *)
(***************************************************************************)
EXTENDS Integers, SequencesExt

-----------------------------------------------------------------------------
(* Texts *)

Blank == {" ", "\n", "\t"}
Quotes == {"\"", "'", " "}

(* strings.TrimLeft, TrimRight, Trim: without the leading atoms, the       *)
(* trailing ones, or both, that are in cut                                 *)
TrimLeft(text, cut) ==
  LET kept == {i \in DOMAIN text : text[i] \notin cut}
  IN  IF kept = {} THEN <<>> ELSE SubSeq(text, Min(kept), Len(text))

TrimRight(text, cut) ==
  LET kept == {i \in DOMAIN text : text[i] \notin cut}
  IN  IF kept = {} THEN <<>> ELSE SubSeq(text, 1, Max(kept))

Trim(text, cut) == TrimRight(TrimLeft(text, cut), cut)

(* strings.Split: the fields between the occurrences of sep, at least one *)
Split(text, sep) ==
  FoldLeft(LAMBDA fields, atom :
             IF atom = sep
             THEN Append(fields, <<>>)
             ELSE [fields EXCEPT ![Len(fields)] = Append(@, atom)],
           << <<>> >>, text)

FirstField(text, sep) == Head(Split(text, sep))
LastField(text, sep) == Last(Split(text, sep))

(* strings.Join of the first two of at least two fields, around a dot *)
FirstTwo(fields) == fields[1] \o <<".">> \o fields[2]

TrimPrefix(text, prefix) ==
  IF IsPrefix(prefix, text) THEN SubSeq(text, Len(prefix) + 1, Len(text)) ELSE text

TrimSuffix(text, suffix) ==
  IF IsSuffix(suffix, text) THEN SubSeq(text, 1, Len(text) - Len(suffix)) ELSE text

(* Endings of one to four letters, as far as names of the instances have one *)
Extensions == {"js", "ts", "h", "m", "php"}

-----------------------------------------------------------------------------
(* Parsers *)

Start == [state |-> "Unknown", buffer |-> <<>>, level |-> 0,
          tag |-> <<>>, attribute |-> <<>>, output |-> <<>>]

Is(t, word) == t.value = <<word>>
To(p, state) == [p EXCEPT !.state = state]
Emit(p, dep) == [p EXCEPT !.output = Append(@, dep)]
Buffered(p, text) == [p EXCEPT !.buffer = @ \o text]
Emptied(p) == [p EXCEPT !.buffer = <<>>]

(* What a keyword does in the parsers that know one: import, or nothing *)
OnImport(p, word) == To(p, IF word = <<"import">> THEN "Import" ELSE "Unknown")

-----------------------------------------------------------------------------
(* C and C++ *)

CExcluded == {<<n, ".", "h">> : n \in {"stdio", "stdlib", "string", "time"}}

CAppend(p, dep) ==
  LET first == FirstField(dep, "/")
      name == Trim(first, Blank)
  IN  IF first = <<>> \/ name \in CExcluded
      THEN p ELSE Emit(p, TrimSuffix(name, <<".", "h">>))

CFile(p, t) ==
  IF t.value \in {<<"\n">>, <<"#">>} THEN p ELSE CAppend(p, Trim(t.value, {"\"", "<", ">", " "}))

CToken(p, t) ==
  IF t.type = "CommentPreproc" THEN
         IF IsPrefix(<<"include">>, Trim(t.value, Blank)) THEN To(p, "Import") ELSE p
  ELSE IF t.type = "CommentPreprocFile" /\ p.state = "Import" THEN To(CFile(p, t), "Unknown")
  ELSE p

-----------------------------------------------------------------------------
(* C# *)

NetExcluded == {<<"system">>, <<"microsoft">>}

CSharpAppend(p, dep) ==
  LET name == Trim(FirstField(dep, "."), Blank)
  IN  IF name = <<>> \/ name \in NetExcluded THEN p ELSE Emit(p, name)

CSharpPunctuation(p, t) ==
  IF Is(t, ";") THEN Emptied(To(CSharpAppend(p, p.buffer), "Unknown"))
  ELSE IF Is(t, "=") THEN Emptied(p)
  ELSE Buffered(p, t.value)

CSharpUsingKeeps(p) == To(p, "Import")

CSharpUsing(p) == Emptied(To(p, "Import"))

CSharpToken(p, t) ==
  IF t.type = "Keyword" THEN IF Is(t, "using") THEN CSharpUsing(p) ELSE p
  ELSE IF p.state # "Import" THEN p
  ELSE IF t.type \in {"Name", "NameNamespace"} THEN
         IF t.value \in {<<"import">>, <<"package">>, <<"namespace">>, <<"static">>}
         THEN p ELSE Buffered(p, t.value)
  ELSE IF t.type = "Punctuation" THEN CSharpPunctuation(p, t)
  ELSE p

-----------------------------------------------------------------------------
(* Visual Basic *)

VbNetAppend(p, dep) ==
  LET name == Trim(FirstField(dep, "."), Blank)
  IN  IF name = <<>> \/ name \in NetExcluded THEN p ELSE Emit(p, name)

VbNetEnd(p) == Emptied(To(VbNetAppend(p, p.buffer), "Unknown"))

VbNetToken(p, t) ==
  IF t.type = "Keyword" THEN IF Is(t, "Imports") THEN Emptied(To(p, "Import")) ELSE p
  ELSE IF p.state # "Import" THEN p
  ELSE IF t.type \in {"Name", "NameNamespace"} THEN Buffered(p, t.value)
  ELSE IF t.type = "Punctuation" /\ Is(t, ".") THEN Buffered(p, t.value)
  ELSE IF t.type = "Operator" /\ Is(t, "=") THEN Emptied(p)
  ELSE IF t.type = "Text" /\ Is(t, "\n") THEN VbNetEnd(p)
  ELSE p

-----------------------------------------------------------------------------
(* Elm *)

ElmToken(p, t) ==
  CASE t.type = "KeywordNamespace" -> OnImport(p, Trim(t.value, Blank))
    [] t.type = "NameClass" ->
         IF p.state = "Import" THEN Emit(p, Trim(FirstField(t.value, "."), Blank)) ELSE p
    [] OTHER -> To(p, "Unknown")

-----------------------------------------------------------------------------
(* Go *)

GoAppend(p, dep) ==
  IF dep = <<"\"", "fmt", "\"">> THEN p ELSE Emit(p, Trim(dep, {"\"", " "}))

GoKeywordKeepsLevel(p, t) == OnImport(p, t.value)

GoKeyword(p, t) == [OnImport(p, t.value) EXCEPT !.level = 0]

GoToken(p, t) ==
  IF t.type = "KeywordNamespace" THEN GoKeyword(p, t)
  ELSE IF t.type = "Punctuation" /\ Is(t, "(") THEN [p EXCEPT !.level = @ + 1]
  ELSE IF t.type = "Punctuation" /\ Is(t, ")") THEN [p EXCEPT !.level = @ - 1]
  ELSE IF t.type = "LiteralString" /\ p.state = "Import" THEN GoAppend(p, t.value)
  ELSE IF t.type = "Text" /\ p.state = "Import" THEN
         IF Is(t, "\n") /\ p.level <= 0 THEN [p EXCEPT !.state = "Unknown", !.level = 0] ELSE p
  ELSE p

-----------------------------------------------------------------------------
(* Haskell *)

HaskellAppend(p, dep) == Emit(p, Trim(FirstField(Trim(dep, Blank), "."), Blank))

HaskellToken(p, t) ==
  CASE t.type = "KeywordReserved" -> OnImport(p, Trim(t.value, Blank))
    [] t.type = "Keyword" ->
         IF p.state # "Import" \/ Trim(t.value, Blank) # <<"qualified">>
         THEN To(p, "Unknown") ELSE p
    [] t.type = "NameNamespace" ->
         IF p.state = "Import" THEN HaskellAppend(p, t.value) ELSE p
    [] t.type = "Text" -> p
    [] OTHER -> To(p, "Unknown")

-----------------------------------------------------------------------------
(* Haxe *)

HaxeAppend(p, dep) ==
  LET name == Trim(dep, Blank) IN IF name = <<"haxe">> THEN p ELSE Emit(p, name)

HaxeToken(p, t) ==
  CASE t.type = "KeywordNamespace" -> OnImport(p, t.value)
    [] t.type = "NameNamespace" ->
         To(IF p.state = "Import" THEN HaxeAppend(p, t.value) ELSE p, "Unknown")
    [] t.type = "Text" -> p
    [] OTHER -> To(p, "Unknown")

-----------------------------------------------------------------------------
(* HTML: the sources of script tags; a template placeholder in a value is  *)
(* one atom                                                                *)

HTMLAppend(p, dep) ==
  Emit(p, Trim(SelectSeq(dep, LAMBDA atom : atom # "{{placeholder}}"), Blank))

HTMLTag(p, state) == [p EXCEPT !.state = state, !.tag = <<>>, !.attribute = <<>>]

HTMLToken(p, t) ==
  IF t.type = "Punctuation" /\ Is(t, "<") THEN HTMLTag(p, "Tag")
  ELSE IF t.type = "Punctuation" /\ t.value \in {<<">">>, <<"/">>} THEN HTMLTag(p, "Unknown")
  ELSE IF t.type = "NameTag" THEN
         [p EXCEPT !.tag = IF p.state = "Tag" THEN t.value ELSE @, !.attribute = <<>>]
  ELSE IF t.type = "NameAttribute" /\ p.state = "Tag" /\ p.tag # <<>> THEN
         [p EXCEPT !.attribute = t.value]
  ELSE IF t.type = "LiteralString" /\ p.state = "Tag" /\ p.tag = <<"script">> /\ p.attribute = <<"src">> THEN
         HTMLAppend(p, t.value)
  ELSE p

-----------------------------------------------------------------------------
(* Java *)

(* The path without a top-level domain of three letters and without a      *)
(* trailing asterisk; com, org and net stand for all such domains          *)
JavaFields(path) ==
  LET domainless == IF path[1] \in {<<"com">>, <<"org">>, <<"net">>} THEN Tail(path) ELSE path
  IN  IF Last(domainless) = <<"*">> THEN Front(domainless) ELSE domainless

JavaAppend(p, dep) ==
  IF (Len(dep) > 1 /\ dep[1] \in {"java", "javax"} /\ dep[2] = ".") \/ Trim(dep, Blank) = <<>>
  THEN p ELSE Emit(p, dep)

JavaFinish(p, path) ==
  LET fields == JavaFields(path)
  IN  IF Len(path) = 1 THEN JavaAppend(p, path[1])
      ELSE IF Len(fields) = 1 THEN JavaAppend(p, fields[1])
      ELSE IF Len(fields) > 1 THEN JavaAppend(p, FirstTwo(fields))
      ELSE p

JavaToken(p, t) ==
  IF t.type = "KeywordNamespace" THEN
         IF IsPrefix(<<"import">>, Trim(t.value, Blank)) THEN To(p, "Import") ELSE p
  ELSE IF t.type = "Operator" /\ Is(t, ";") THEN
         Emptied(To(JavaFinish(p, Split(p.buffer, ".")), "Unknown"))
  ELSE IF p.state # "Import" THEN p
  ELSE IF t.type \in {"Name", "NameAttribute", "Operator"} THEN Buffered(p, t.value)
  ELSE IF t.type = "NameNamespace" THEN
         IF t.value \in {<<"package">>, <<"namespace">>, <<"static">>}
         THEN p ELSE Buffered(p, t.value)
  ELSE p

-----------------------------------------------------------------------------
(* JavaScript and TypeScript *)

JavaScriptAppend(p, dep) ==
  LET path == Split(Trim(dep, Quotes), "/")
      name == LastField(Last(path), "\\")
      dotted == Len(name) > 1 /\ name[Len(name) - 1] = "." /\ Last(name) \in Extensions
  IN  Emit(p, IF dotted THEN SubSeq(name, 1, Len(name) - 2) ELSE name)

JavaScriptToken(p, t) ==
  IF t.type = "KeywordReserved" THEN OnImport(p, t.value)
  ELSE IF t.type = "LiteralStringSingle" THEN
         To(IF p.state = "Import" THEN JavaScriptAppend(p, t.value) ELSE p, "Unknown")
  ELSE IF t.type = "Punctuation" /\ Is(t, ";") THEN To(p, "Unknown")
  ELSE p

-----------------------------------------------------------------------------
(* JSON: the keys of the dependencies objects of a manifest *)

FilesJSON == ("bower.json" :> <<"bower">>) @@ ("component.json" :> <<"bower">>)
             @@ ("package.json" :> <<"npm">>)

FilenameJSON(filename) ==
  IF filename \in DOMAIN FilesJSON THEN Emit(Start, FilesJSON[filename]) ELSE Start

JSONNameTag(p, t) ==
  LET key == Trim(t.value, {"\"", "'"})
  IN  IF key \in {<<"dependencies">>, <<"devDependencies">>} THEN To(p, "Dependencies")
      ELSE IF p.state = "Dependencies" /\ p.level = 2 THEN Emit(p, Trim(t.value, Quotes))
      ELSE p

JSONToken(p, t) ==
  IF t.type = "NameTag" THEN JSONNameTag(p, t)
  ELSE IF t.type = "Punctuation" /\ Is(t, "{") THEN [p EXCEPT !.level = @ + 1]
  ELSE IF t.type = "Punctuation" /\ Is(t, "}") THEN
         [p EXCEPT !.level = @ - 1, !.state = IF p.level <= 2 THEN "Unknown" ELSE @]
  ELSE p

-----------------------------------------------------------------------------
(* Kotlin *)

KotlinAppend(p, dep) ==
  LET all == Split(dep, ".")
      fields == IF Last(all) = <<"*">> THEN Front(all) ELSE all
      name == Trim(IF Len(fields) = 1 THEN fields[1] ELSE FirstTwo(fields), Blank)
  IN  IF fields = <<>> \/ IsPrefix(<<"java", ".">>, name) THEN p ELSE Emit(p, name)

KotlinToken(p, t) ==
  CASE t.type = "Keyword" -> OnImport(p, t.value)
    [] t.type = "NameNamespace" ->
         IF p.state = "Import" THEN KotlinAppend(p, t.value) ELSE To(p, "Unknown")
    [] t.type = "Text" -> p
    [] OTHER -> To(p, "Unknown")

-----------------------------------------------------------------------------
(* Objective-C *)

ObjectiveCAppend(p, dep) ==
  LET quoted == Trim(Trim(TrimPrefix(dep, <<"import", " ">>), Blank), Quotes)
      path == TrimRight(TrimLeft(quoted, {"<", " "}), {">", " "})
      file == TrimSuffix(FirstField(path, "/"), <<".", "h">>)
  IN  Emit(p, Trim(TrimSuffix(file, <<".", "m">>), Blank))

ObjectiveCToken(p, t) ==
  IF t.type # "CommentPreproc" THEN To(p, "Unknown")
  ELSE IF Is(t, "#") THEN To(p, "Hash")
  ELSE IF p.state = "Hash" /\ IsPrefix(<<"import", " ">>, t.value) THEN
         To(ObjectiveCAppend(p, t.value), "Unknown")
  ELSE To(p, "Unknown")

-----------------------------------------------------------------------------
(* PHP *)

(* The excluded names: app, and every name that ends in app.php *)
PHPAppend(p, dep) ==
  LET name == Trim(dep, Blank)
  IN  IF name = <<>> \/ name = <<"app">> \/ IsSuffix(<<"app", ".", "php">>, name)
      THEN p ELSE Emit(p, name)

PHPAppendTruncate(p, dep) == PHPAppend(p, FirstField(dep, "\\"))

PHPKeyword(p, t) ==
  To(p, IF t.value \in {<<"include">>, <<"include_once">>, <<"require">>, <<"require_once">>} THEN
               "Include"
        ELSE IF Is(t, "use") THEN "Use"
        ELSE IF Is(t, "as") THEN "As"
        ELSE IF p.state = "Use" /\ Is(t, "function") THEN "UseFunction"
        ELSE "Unknown")

PHPPunctuation(p, t) ==
  IF t.value \in {<<"(">>, <<")">>} THEN p
  ELSE IF p.state \in {"Use", "As"} /\ Is(t, ",") THEN To(p, "Use")
  ELSE To(p, "Unknown")

(* A literal is what include loads; the token of its quote alone is not one *)
PHPLiteral(p, t, dep) ==
  IF p.state = "Include" /\ t.value \notin {<<"\"">>, <<"'">>}
  THEN To(PHPAppend(p, Trim(dep, Blank)), "Unknown") ELSE p

PHPToken(p, t) ==
  CASE t.type = "Keyword" -> PHPKeyword(p, t)
    [] t.type = "NameFunction" ->
         IF p.state = "UseFunction" THEN To(PHPAppendTruncate(p, t.value), "Use") ELSE p
    [] t.type = "LiteralStringSingle" -> PHPLiteral(p, t, t.value)
    [] t.type = "LiteralStringDouble" -> PHPLiteral(p, t, <<"'">> \o t.value \o <<"'">>)
    [] t.type = "NameOther" -> IF p.state = "Use" THEN PHPAppendTruncate(p, t.value) ELSE p
    [] t.type = "Punctuation" -> PHPPunctuation(p, t)
    [] t.type \in {"Text", "Operator"} -> p
    [] OTHER -> To(p, "Unknown")

-----------------------------------------------------------------------------
(* Python *)

(* The excluded names: os, sys and every dunder name such as __future__ *)
PythonExcluded == {<<"os">>, <<"sys">>, <<"__future__">>}

PythonAppend(p, dep) ==
  LET name == Trim(FirstField(dep, "."), Blank)
  IN  IF name = <<>> \/ name \in PythonExcluded THEN p ELSE Emit(p, name)

PythonFlushKeeps(p) == PythonAppend(p, p.buffer)

PythonFlush(p) == Emptied(PythonAppend(p, p.buffer))

PythonToken(p, t) ==
  IF t.type = "KeywordNamespace" THEN IF Is(t, "from") THEN To(p, "From") ELSE OnImport(p, t.value)
  ELSE IF t.type = "Keyword" /\ p.state = "Import" /\ Is(t, "as") THEN To(PythonFlush(p), "Unknown")
  ELSE IF t.type = "NameNamespace" THEN
         IF p.state = "Unknown" THEN p ELSE Buffered(p, t.value)
  ELSE IF t.type = "Operator" /\ (Is(t, ",") \/ p.state = "Import") THEN PythonFlush(p)
  ELSE IF t.type = "Text" /\ Is(t, "\n") /\ p.state # "Unknown" THEN To(PythonFlush(p), "Unknown")
  ELSE p

-----------------------------------------------------------------------------
(* Rust *)

RustToken(p, t) ==
  IF t.type = "Keyword" /\ p.state = "Extern" /\ Is(t, "crate") THEN To(p, "ExternCrate")
  ELSE IF t.type = "Keyword" /\ Is(t, "extern") THEN To(p, "Extern")
  ELSE IF t.type = "Name" THEN
         To(IF p.state = "ExternCrate" THEN Emit(p, Trim(t.value, Blank)) ELSE p, "Unknown")
  ELSE p

-----------------------------------------------------------------------------
(* Scala *)

ScalaAppend(p, dep) ==
  Emit(p, Trim(TrimPrefix(Trim(dep, Blank), <<"__root__">>), {"_", ".", " "}))

ScalaToken(p, t) ==
  CASE t.type = "Keyword" -> OnImport(p, t.value)
    [] t.type = "NameNamespace" ->
         IF p.state = "Import" THEN ScalaAppend(p, t.value) ELSE To(p, "Unknown")
    [] t.type = "Text" -> p
    [] OTHER -> To(p, "Unknown")

-----------------------------------------------------------------------------
(* Swift *)

SwiftAppend(p, dep) ==
  LET name == Trim(dep, Blank) IN IF name = <<"foundation">> THEN p ELSE Emit(p, name)

SwiftToken(p, t) ==
  CASE t.type = "KeywordDeclaration" -> OnImport(p, t.value)
    [] t.type = "NameClass" ->
         IF p.state = "Import" THEN SwiftAppend(p, t.value) ELSE To(p, "Unknown")
    [] OTHER -> p

-----------------------------------------------------------------------------
(* Parsing: the tokens of a file go through the state machine of its       *)
(* parser one after another                                                *)

Token(parser, p, t) ==
  CASE parser = "C" -> CToken(p, t)
    [] parser = "C#" -> CSharpToken(p, t)
    [] parser = "Elm" -> ElmToken(p, t)
    [] parser = "Go" -> GoToken(p, t)
    [] parser = "Haskell" -> HaskellToken(p, t)
    [] parser = "Haxe" -> HaxeToken(p, t)
    [] parser = "HTML" -> HTMLToken(p, t)
    [] parser = "Java" -> JavaToken(p, t)
    [] parser = "JavaScript" -> JavaScriptToken(p, t)
    [] parser = "JSON" -> JSONToken(p, t)
    [] parser = "Kotlin" -> KotlinToken(p, t)
    [] parser = "Objective-C" -> ObjectiveCToken(p, t)
    [] parser = "PHP" -> PHPToken(p, t)
    [] parser = "Python" -> PythonToken(p, t)
    [] parser = "Rust" -> RustToken(p, t)
    [] parser = "Scala" -> ScalaToken(p, t)
    [] parser = "Swift" -> SwiftToken(p, t)
    [] parser = "VB.NET" -> VbNetToken(p, t)

Run(parser, p, tokens) ==
  LET run[i \in 0 .. Len(tokens)] == IF i = 0 THEN p ELSE Token(parser, run[i - 1], tokens[i])
  IN  run[Len(tokens)]

ParseC(tokens) == Run("C", Start, tokens).output
ParseCSharp(tokens) == Run("C#", Start, tokens).output
ParseElm(tokens) == Run("Elm", Start, tokens).output
ParseGo(tokens) == Run("Go", Start, tokens).output
ParseHaskell(tokens) == Run("Haskell", Start, tokens).output
ParseHaxe(tokens) == Run("Haxe", Start, tokens).output
ParseHTML(tokens) == Run("HTML", Start, tokens).output
ParseJava(tokens) == Run("Java", Start, tokens).output
ParseJavaScript(tokens) == Run("JavaScript", Start, tokens).output
ParseJSON(filename, tokens) == Run("JSON", FilenameJSON(filename), tokens).output
ParseKotlin(tokens) == Run("Kotlin", Start, tokens).output
ParseObjectiveC(tokens) == Run("Objective-C", Start, tokens).output
ParsePHP(tokens) == Run("PHP", Start, tokens).output
ParsePython(tokens) == Run("Python", Start, tokens).output
ParseRust(tokens) == Run("Rust", Start, tokens).output
ParseScala(tokens) == Run("Scala", Start, tokens).output
ParseSwift(tokens) == Run("Swift", Start, tokens).output
ParseVbNet(tokens) == Run("VB.NET", Start, tokens).output

-----------------------------------------------------------------------------
(* Statements, one at a time.  A file is any sequence of them; what its    *)
(* parser makes of the file follows from what it makes of each statement,  *)
(* begun in any of the states that it may be in at the end of another one. *)
(* A statement has the tokens that its lexer delivers and the dependencies *)
(* a reader would take from it.  It is regular if it is complete and of a  *)
(* form that the parser means to read: an interrupted one is not, nor is a *)
(* complete one that the parser is known to misread.                       *)

Parsed == {"C", "C++", "C#", "Elm", "Go", "Haskell", "Haxe", "HTML", "Java", "JavaScript",
           "TypeScript", "JSON", "Kotlin", "Objective-C", "PHP", "Python", "Rust", "Scala",
           "Swift", "VB.NET"}

(* The parser of a language *)
Machine(language) ==
  IF language = "C++" THEN "C"
  ELSE IF language = "TypeScript" THEN "JavaScript"
  ELSE language

(* A parser apart from what it has found so far *)
Bare(p) == [p EXCEPT !.output = <<>>]

(* Languages that glue an interrupted import to the import after it, or    *)
(* miss the latter                                                         *)
Gluing == {"Java", "Python", "JSON"}

(* The tokens before the first statement of a file leave the parser in one *)
(* of these states, and have no dependency in them                         *)
Opens(language, opening, states) ==
  LET opened == Run(Machine(language), Start, opening)
  IN  opened \in states /\ opened.output = <<>>

(* The parser after statement s, begun in state p *)
After(language, p, s) == Run(Machine(language), p, s.tokens)

(* between: language -> the states at the end of regular statements.       *)
(* From each of them a regular statement yields its own dependencies.      *)
Separable(opening, statement, between) ==
  \A language \in Parsed :
    /\ Opens(language, opening[language], between[language])
    /\ \A p \in between[language] : \A s \in statement[language] :
         s.regular => /\ Bare(After(language, p, s)) \in between[language]
                      /\ After(language, p, s).output = s.deps

(* The last of deps are those of last *)
EndsIn(deps, last) == \E m \in 0 .. Len(deps) : deps = SubSeq(deps, 1, m) \o last

(* anywhere: language -> the states at the end of statements of any kind.  *)
(* From each of them a regular import ends where regular statements do,    *)
(* and what it names is the last that it yields.                           *)
Recovering(opening, statement, between, anywhere) ==
  \A language \in Parsed \ Gluing :
    /\ Opens(language, opening[language], anywhere[language])
    /\ \A p \in anywhere[language] : \A s \in statement[language] :
         /\ Bare(After(language, p, s)) \in anywhere[language]
         /\ s.regular /\ s.deps # <<>> => /\ Bare(After(language, p, s)) \in between[language]
                                         /\ EndsIn(After(language, p, s).output, s.deps)

-----------------------------------------------------------------------------
(* Every other language: the name of the file alone *)

FilesUnknown == ("bower" :> <<"bower">>) @@ ("grunt" :> <<"grunt">>)

(* The words of the table that the name of the file contains, in the order *)
(* of a walk over the table, which the language leaves open                *)
ParseUnknown(words, walk) ==
  LET found == SelectSeq(walk, LAMBDA word : word \in words)
  IN  [i \in DOMAIN found |-> FilesUnknown[found[i]]]

=============================================================================
