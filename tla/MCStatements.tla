---------------------------- MODULE MCStatements ----------------------------
(* For each language some statements, with the tokens of its lexer, the      *)
(* states that its parser may be in between them, and what the proofs about  *)
(* files of any length suppose of one statement.                             *)
EXTENDS TokenParsers

T(type, value) == [type |-> type, value |-> value]

(* A regular statement; and one that was interrupted, or is complete but one *)
(* that the parser is known to misread                                       *)
S(tokens, deps) == [tokens |-> tokens, deps |-> deps, regular |-> TRUE]
X(tokens, deps) == [tokens |-> tokens, deps |-> deps, regular |-> FALSE]

a == <<"alpha">>  b == <<"beta">>  c == <<"gamma">>

Kw(v) == T("Keyword", <<v>>)
Ns(v) == T("KeywordNamespace", <<v>>)
Rs(v) == T("KeywordReserved", <<v>>)
Dc(v) == T("KeywordDeclaration", <<v>>)
P(v) == T("Punctuation", <<v>>)
Op(v) == T("Operator", <<v>>)
Sp == T("Text", <<" ">>)
Nl == T("Text", <<"\n">>)
NN(v) == T("NameNamespace", v)
Nm(v) == T("Name", v)
Class(v) == T("NameClass", v)
Str(v) == T("LiteralString", <<"\"">> \o v \o <<"\"">>)
Single(v) == T("LiteralStringSingle", <<"'">> \o v \o <<"'">>)
Dot(v, w) == v \o <<".">> \o w

Pre(v) == T("CommentPreproc", v)
Include(v) == <<Pre(<<"#">>), Pre(<<"include">>), Sp, T("CommentPreprocFile", v), Pre(<<"\n">>)>>

CStatements == {
  S(Include(<<"<", "alpha", "/", "beta", ".", "h", ">">>), <<a>>),
  S(Include(<<"\"", "beta", ".", "h", "\"">>), <<b>>),
  S(Include(<<"<", "stdio", ".", "h", ">">>), <<>>),
  S(<<Pre(<<"#">>), Pre(<<"define", " ", "gamma">>), Pre(<<"\n">>)>>, <<>>),
  X(<<Pre(<<"#">>), Pre(<<"include">>), Pre(<<"\n">>)>>, <<>>)}

CSharpStatements == {
  S(<<Kw("using"), Sp, NN(a), P(";"), Nl>>, <<a>>),
  S(<<Kw("using"), Sp, Kw("static"), Sp, NN(Dot(b, a)), P(";"), Nl>>, <<b>>),
  S(<<Kw("using"), Sp, Nm(a), Sp, P("="), Sp, Nm(c), P("."), Nm(b), P(";")>>, <<c>>),
  S(<<Kw("using"), Sp, NN(<<"system">>), P(";"), Nl>>, <<>>),
  S(<<Kw("class"), Sp, Class(b), P("{"), Nm(a), P(";"), P("}"), Nl>>, <<>>),
  X(<<Kw("using"), Nl>>, <<>>),
  X(<<Kw("using"), Sp, NN(b), Nl>>, <<b>>)}

VbNetStatements == {
  S(<<Kw("Imports"), Sp, NN(a), Nl>>, <<a>>),
  S(<<Kw("Imports"), Sp, Nm(a), Sp, Op("="), Sp, NN(Dot(c, b)), Nl>>, <<c>>),
  S(<<Kw("Imports"), Sp, Nm(b), Nm(<<".">>), Nm(a), Nl>>, <<b>>),
  S(<<Kw("Imports"), Sp, NN(<<"microsoft">>), Nl>>, <<>>),
  S(<<Kw("Dim"), Sp, Nm(c), Sp, Op("="), Sp, Nm(a), Nl>>, <<>>),
  X(<<Kw("Imports"), Nl>>, <<>>),
  X(<<Kw("Imports"), Sp, NN(b), T("Text", <<"\n", "\n">>)>>, <<b>>)}

ElmStatements == {
  S(<<T("KeywordNamespace", <<"import", " ">>), Class(a), Nl>>, <<a>>),
  S(<<T("KeywordNamespace", <<"import", " ">>), Class(Dot(b, a)), Nl>>, <<b>>),
  S(<<T("NameFunction", c), Sp, Op("="), Sp, Class(c), Nl>>, <<>>),
  X(<<T("KeywordNamespace", <<"import", " ">>), Nl>>, <<>>)}

GoStatements == {
  S(<<Ns("import"), Sp, Str(a), Nl>>, <<a>>),
  S(<<Ns("import"), Sp, P("("), Nl, Str(b), Nl, Nm(a), Sp, Str(<<"alpha", "/", "beta">>), Nl, P(")"), Nl>>,
    <<b, <<"alpha", "/", "beta">>>>),
  S(<<Ns("import"), Sp, Str(<<"fmt">>), Nl>>, <<>>),
  S(<<Ns("import"), Sp, Str(<<"beta", "/", "alpha", "/", "beta", "/", "alpha">>), Nl>>,
    <<<<"beta", "/", "alpha", "/", "beta", "/", "alpha">>>>),
  S(<<Dc("func"), Sp, Nm(a), P("("), Str(c), P(")"), Nl>>, <<>>),
  X(<<Ns("import"), Sp, P("("), Nl>>, <<>>),
  X(<<Ns("import"), Sp, P("("), Nl, Str(b), Nl>>, <<b>>)}

HaskellStatements == {
  S(<<Rs("import"), Sp, NN(Dot(a, b)), Nl>>, <<a>>),
  S(<<Rs("import"), Sp, Kw("qualified"), Sp, NN(b), Sp, Kw("as"), Sp, T("KeywordType", c), Nl>>, <<b>>),
  S(<<Rs("import"), Sp, NN(c), P("("), T("NameFunction", a), P(")"), Nl>>, <<c>>),
  S(<<T("NameFunction", c), Sp, Op("="), Sp, Nm(a), Nl>>, <<>>),
  X(<<Rs("import"), Nl>>, <<>>)}

HaxeStatements == {
  S(<<Ns("import"), Sp, NN(a), P(";"), Nl>>, <<a>>),
  S(<<Ns("import"), Sp, NN(Dot(b, c)), P(";"), Nl>>, <<Dot(b, c)>>),
  S(<<Ns("import"), Sp, NN(<<"haxe">>), P(";"), Nl>>, <<>>),
  S(<<Ns("package"), Sp, NN(c), P(";"), Nl>>, <<>>),
  X(<<Ns("import"), P(";"), Nl>>, <<>>)}

Tag(name, attribute, value) ==
  <<P("<"), T("NameTag", <<name>>), Sp, T("NameAttribute", <<attribute>>), Op("="), Str(value), P(">")>>

HTMLStatements == {
  S(Tag("script", "src", a), << <<"\"", "alpha", "\"">> >>),
  S(Tag("script", "src", <<"{{placeholder}}", "beta">>), << <<"\"", "beta", "\"">> >>),
  S(Tag("img", "src", c), <<>>),
  S(Tag("script", "type", c), <<>>),
  S(<<P("<"), P("/"), T("NameTag", <<"script">>), P(">")>>, <<>>),
  X(<<P("<"), T("NameTag", <<"script">>)>>, <<>>),
  X(<<P("<"), T("NameTag", <<"script">>), Sp, T("NameAttribute", <<"src">>), Op("=")>>, <<>>)}

JavaImport(path) == <<Ns("import"), Sp, NN(path), Op(";"), Nl>>

JavaStatements == {
  S(JavaImport(Dot(Dot(<<"com">>, a), b)), <<Dot(a, b)>>),
  S(JavaImport(Dot(b, <<"*">>)), <<b>>),
  S(JavaImport(Dot(Dot(<<"java">>, c), c)), <<>>),
  S(<<Ns("import"), Sp, NN(<<"package">>), Sp, NN(c), Op("."), Nm(a), Op(";")>>, <<Dot(c, a)>>),
  S(<<Dc("class"), Sp, Class(b), P("{"), Nm(c), Op(";"), P("}")>>, <<>>),
  X(<<Ns("import"), Sp, NN(Dot(<<"com">>, b)), Nl>>, <<b>>)}

JavaScriptStatements == {
  S(<<Rs("import"), Sp, Nm(a), Sp, Nm(<<"from">>), Sp, Single(a), P(";")>>, <<a>>),
  S(<<Rs("import"), Sp, Single(<<"beta", "/", "alpha", ".", "js">>), P(";")>>, <<a>>),
  S(<<Rs("import"), Sp, P("{"), Nm(c), P("}"), Sp, Nm(<<"from">>), Sp, Single(b), P(";")>>, <<b>>),
  S(<<Dc("let"), Sp, Nm(a), Op("="), Single(c), P(";")>>, <<>>),
  X(<<Rs("import"), Sp, T("LiteralStringDouble", c), P(";")>>, <<c>>),
  X(<<Rs("import"), Sp, P("{"), Nl>>, <<>>),
  X(<<Rs("import"), Sp, Nm(a), Nl>>, <<>>)}

Key(v) == T("NameTag", <<"\"">> \o v \o <<"\"">>)
Section(name, body) == <<Key(<<name>>), P(":"), P("{")>> \o body \o <<P("}"), P(",")>>

JSONStatements == {
  S(Section("dependencies", <<Key(a), P(":"), T("LiteralStringDouble", c)>>), <<a>>),
  S(Section("devDependencies", <<Key(b), P(":"), Key(c)>>), <<b, c>>),
  S(Section("scripts", <<Key(c), P(":"), T("LiteralStringDouble", c)>>), <<>>),
  S(Section("dependencies", <<>>), <<>>),
  X(<<Key(<<"dependencies">>), P(":"), P("{"), Key(c), P(":")>>, <<c>>),
  X(Section("jest", Section("dependencies", <<Key(a)>>) \o <<Key(c)>>), <<>>)}

KotlinStatements == {
  S(<<Kw("import"), Sp, NN(Dot(Dot(a, b), c)), Nl>>, <<Dot(a, b)>>),
  S(<<Kw("import"), Sp, NN(Dot(b, <<"*">>)), Nl>>, <<b>>),
  S(<<Kw("import"), Sp, NN(Dot(<<"java">>, c)), Nl>>, <<>>),
  S(<<Kw("package"), Sp, NN(c), Nl>>, <<>>),
  S(<<Kw("fun"), Sp, T("NameFunction", a), P("("), P(")"), Nl>>, <<>>),
  X(<<Kw("import"), Nl>>, <<>>)}

ObjectiveCStatements == {
  S(<<Pre(<<"#">>), Pre(<<"import", " ", "<", "alpha", "/", "beta", ".", "h", ">">>)>>, <<a>>),
  S(<<Pre(<<"#">>), Pre(<<"import", " ", "\"", "beta", ".", "m", "\"">>)>>, <<b>>),
  S(<<Pre(<<"#">>), Pre(<<"define", " ", "gamma">>)>>, <<>>),
  S(<<Kw("return"), Sp, Nm(c), P(";")>>, <<>>),
  X(<<Pre(<<"#">>)>>, <<>>)}

PHPStatements == {
  S(<<Kw("use"), Sp, T("NameOther", <<"alpha", "\\", "beta">>), Sp, Kw("as"), Sp,
      T("NameOther", c), P(","), Sp, T("NameOther", b), P(";")>>, <<a, b>>),
  S(<<Kw("use"), Sp, Kw("function"), Sp, T("NameFunction", <<"gamma", "\\", "alpha">>), P(";")>>, <<c>>),
  S(<<Kw("require"), Sp, Single(<<"beta", ".", "php">>), P(";")>>, << <<"'", "beta", ".", "php", "'">> >>),
  S(<<Kw("include"), P("("), T("LiteralStringDouble", <<"\"">>), T("LiteralStringDouble", a),
      T("LiteralStringDouble", <<"\"">>), P(")"), P(";")>>, << <<"'", "alpha", "'">> >>),
  S(<<Kw("use"), Sp, T("NameOther", <<"app">>), P(";")>>, <<>>),
  S(<<T("NameVariable", c), Op("="), Single(c), P(";")>>, <<>>),
  S(<<T("NameOther", c), P("("), Single(c), P(")"), P(";")>>, <<>>),
  X(<<Kw("use"), Sp>>, <<>>),
  X(<<Kw("require"), Nl>>, <<>>)}

PythonStatements == {
  S(<<Ns("import"), Sp, NN(Dot(a, b)), Op(","), Sp, NN(c), Nl>>, <<a, c>>),
  S(<<Ns("from"), Sp, NN(b), NN(<<".">>), NN(a), Sp, Ns("import"), Sp, Nm(c), Nl>>, <<b>>),
  S(<<Ns("from"), Sp, NN(a), Sp, Ns("import"), Sp, Op("*"), Nl>>, <<a>>),
  S(<<Ns("from"), Sp, NN(<<".">>), Sp, Ns("import"), Sp, Nm(c), Nl>>, <<>>),
  S(<<Ns("import"), Sp, NN(b), Sp, Kw("as"), Sp, NN(c), Nl>>, <<b>>),
  S(<<Ns("import"), Sp, NN(<<"os">>), Nl>>, <<>>),
  S(<<Nm(c), Op("="), Nm(a), Nl>>, <<>>),
  X(<<Ns("import"), Sp, NN(b)>>, <<b>>),
  X(<<Ns("import"), Sp, NN(a), Sp, Kw("as"), Sp, NN(c), Op(","), Sp, NN(b), Nl>>, <<a, b>>)}

RustStatements == {
  S(<<Kw("extern"), Sp, Kw("crate"), Sp, Nm(a), P(";"), Nl>>, <<a>>),
  S(<<Kw("extern"), Sp, Kw("crate"), Sp, Nm(b), Sp, Kw("as"), Sp, Nm(c), P(";"), Nl>>, <<b>>),
  S(<<Kw("extern"), Sp, T("LiteralString", c), P("{"), Kw("fn"), Sp, Nm(c), P("}")>>, <<>>),
  S(<<Kw("fn"), Sp, T("NameFunction", a), P("{"), Nm(c), P("}")>>, <<>>),
  S(<<Kw("let"), Sp, Nm(c), P(";")>>, <<>>),
  X(<<Kw("extern"), Nl>>, <<>>),
  X(<<Kw("extern"), Sp, Kw("crate"), Nl>>, <<>>)}

(* An import of nothing but the wildcard names the empty dependency, which  *)
(* no filter lets pass                                                       *)
ScalaStatements == {
  S(<<Kw("import"), Sp, NN(Dot(Dot(a, b), <<"_">>)), Nl>>, <<Dot(a, b)>>),
  S(<<Kw("import"), Sp, NN(Dot(<<"__root__">>, b)), Nl>>, <<b>>),
  S(<<Kw("package"), Sp, NN(c), Nl>>, <<>>),
  S(<<Kw("import"), Sp, NN(<<"_">>), Nl>>, << <<>> >>),
  X(<<Kw("import"), Nl>>, <<>>)}

SwiftStatements == {
  S(<<Dc("import"), Sp, Class(a), Nl>>, <<a>>),
  S(<<Dc("import"), Sp, Class(b), P("."), Class(c), Nl>>, <<b, c>>),
  S(<<Dc("import"), Sp, Class(<<"foundation">>), Nl>>, <<>>),
  S(<<Dc("class"), Sp, Class(c), P("{"), P("}"), Nl>>, <<>>),
  X(<<Dc("import"), Nl>>, <<>>)}

Statement == [language \in Parsed |->
  CASE language \in {"C", "C++"} -> CStatements
    [] language = "C#" -> CSharpStatements
    [] language = "Elm" -> ElmStatements
    [] language = "Go" -> GoStatements
    [] language = "Haskell" -> HaskellStatements
    [] language = "Haxe" -> HaxeStatements
    [] language = "HTML" -> HTMLStatements
    [] language = "Java" -> JavaStatements
    [] language \in {"JavaScript", "TypeScript"} -> JavaScriptStatements
    [] language = "JSON" -> JSONStatements
    [] language = "Kotlin" -> KotlinStatements
    [] language = "Objective-C" -> ObjectiveCStatements
    [] language = "PHP" -> PHPStatements
    [] language = "Python" -> PythonStatements
    [] language = "Rust" -> RustStatements
    [] language = "Scala" -> ScalaStatements
    [] language = "Swift" -> SwiftStatements
    [] language = "VB.NET" -> VbNetStatements]

MCOpening == [language \in Parsed |-> IF language = "JSON" THEN <<P("{")>> ELSE <<>>]

-----------------------------------------------------------------------------
(* No more states come between statements than one statement reaches         *)

Reached(language, statements) ==
  LET opened == Run(Machine(language), Start, MCOpening[language])
  IN  {opened} \cup {Bare(After(language, opened, s)) : s \in statements}

MCBetween == [language \in Parsed |-> Reached(language, {s \in Statement[language] : s.regular})]
MCAnywhere == [language \in Parsed |-> Reached(language, Statement[language])]

OneByOne ==
  /\ Separable(MCOpening, Statement, MCBetween)
  /\ Recovering(MCOpening, Statement, MCBetween, MCAnywhere)

=============================================================================
