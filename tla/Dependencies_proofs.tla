------------------------- MODULE Dependencies_proofs -------------------------
(* For heartbeats and files of any number and length: what is stored is what *)
(* the filter lets pass of the output of the parser, and that output is made *)
(* of what the parser yields for the statements of the file one by one.      *)
EXTENDS Dependencies, FiniteSetTheorems, SequenceTheorems, WellFoundedInduction, TLAPS

-----------------------------------------------------------------------------
(* Numbers                                                                   *)

(* A set of numbers that is not empty has a least one, since a set of finite *)
(* sets has a minimal one.                                                   *)
LEMMA LeastNumber ==
  ASSUME NEW T \in SUBSET Nat, T # {}
  PROVE  \E m \in T : \A j \in T : m <= j
<1>. DEFINE U == {0 .. j - 1 : j \in T}
<1>1. U \subseteq FiniteSubsetsOf(Nat) /\ U # {}
  <2>1. ASSUME NEW j \in T PROVE 0 .. j - 1 \in FiniteSubsetsOf(Nat)
    <3>1. 0 .. j - 1 \subseteq Nat
      OBVIOUS
    <3>2. IsFiniteSet(0 .. j - 1)
      BY FS_Interval
    <3>. QED  BY <3>1, <3>2 DEF FiniteSubsetsOf
  <2>. QED  BY <2>1
<1>2. PICK S \in U : \A R \in U : <<R, S>> \notin StrictSubsetOrdering(Nat)
  <2>. HIDE DEF U
  <2>. QED  BY <1>1, FS_StrictSubsetOrderingWellFounded, WFMin
<1>3. PICK m \in T : S = 0 .. m - 1
  BY <1>2
<1>4. ASSUME NEW j \in T, j < m PROVE FALSE
  <2>1. 0 .. j - 1 \subseteq 0 .. m - 1 /\ 0 .. m - 1 \subseteq Nat /\ j \in 0 .. m - 1 /\ j \notin 0 .. j - 1
    BY <1>4
  <2>2. 0 .. j - 1 \in U
    OBVIOUS
  <2>. QED  BY <1>2, <1>3, <2>1, <2>2 DEF StrictSubsetOrdering
<1>. QED  BY <1>4

(* A set that contains 0, and the successor of each of its numbers.          *)
LEMMA Induction ==
  ASSUME NEW S, 0 \in S, \A j \in Nat : j \in S => j + 1 \in S
  PROVE  Nat \subseteq S
<1>. DEFINE T == Nat \ S
<1>. SUFFICES ASSUME T # {} PROVE FALSE
  OBVIOUS
<1>1. PICK m \in T : \A j \in T : m <= j
  <2>. HIDE DEF T
  <2>. QED  BY LeastNumber DEF T
<1>2. m # 0 /\ m - 1 \in Nat /\ m - 1 \in S
  BY <1>1
<1>. QED  BY <1>1, <1>2

-----------------------------------------------------------------------------
(* Parsers and their output.  No parser reads what it has found so far, it   *)
(* only adds to it: what it does to a parser it does to the same parser with *)
(* other output ahead of its own.                                            *)

Parser(p) ==
  /\ DOMAIN p = {"state", "buffer", "level", "tag", "attribute", "output"}
  /\ p = [field \in DOMAIN p |-> p[field]]
  /\ IsSequence(p.output)

(* q is p with o ahead of its output.                                        *)
Ahead(o, p, q) ==
  /\ IsSequence(o) /\ Parser(p)
  /\ q = [p EXCEPT !.output = o \o @]

(* Sequences that are typed by their own elements.                           *)
LEMMA OwnType ==
  ASSUME NEW R, NEW t \in Seq(R)
  PROVE  IsSequence(t) /\ Range(t) \subseteq R
<1>1. DOMAIN t = 1 .. Len(t) /\ Len(t) \in Nat /\ t \in [1 .. Len(t) -> R]
  BY LenProperties
<1>2. \A j \in 1 .. Len(t) : t[j] \in Range(t)
  BY <1>1 DEF Range
<1>3. SubSeq(t, 1, Len(t)) \in Seq(Range(t))
  BY <1>1, <1>2, SubSeqProperties
<1>. QED  BY <1>1, <1>3, SubSeqFull DEF Range, IsSequence

(* An element is appended.                                                   *)
LEMMA SequenceAppend ==
  ASSUME NEW s, IsSequence(s), NEW e, NEW t, t = Append(s, e)
  PROVE  /\ IsSequence(t) /\ Len(t) = Len(s) + 1 /\ DOMAIN t = DOMAIN s \cup {Len(s) + 1}
         /\ t[Len(s) + 1] = e /\ \A j \in DOMAIN s : t[j] = s[j]
         /\ t = s \o <<e>>
<1>. DEFINE R == Range(s) \cup {e}
<1>1. s \in Seq(R) /\ e \in R
  BY SeqMonotonic DEF IsSequence
<1>2. /\ DOMAIN s = 1 .. Len(s) /\ Len(s) \in Nat
      /\ Len(t) = Len(s) + 1 /\ DOMAIN t = 1 .. Len(s) + 1
      /\ t[Len(s) + 1] = e /\ \A j \in DOMAIN s : t[j] = s[j]
      /\ t \in Seq(R)
  BY <1>1
<1>3. IsSequence(t)
  BY <1>2, OwnType
<1>4. t = s \o <<e>>
  BY <1>1, AppendIsConcat
<1>. QED  BY <1>2, <1>3, <1>4

(* Tuples are sequences.                                                     *)
LEMMA Tuples ==
  ASSUME NEW a
  PROVE  IsSequence(<<>>) /\ IsSequence(<<a>>)
<1>1. <<a>> \in Seq({a}) /\ <<>> \in Seq({})
  OBVIOUS
<1>. QED  BY <1>1, OwnType

(* One sequence after another, and after a third.                            *)
LEMMA Concatenation ==
  ASSUME NEW s, NEW t, IsSequence(s), IsSequence(t)
  PROVE  /\ IsSequence(s \o t) /\ Len(s \o t) = Len(s) + Len(t)
         /\ \A i \in 1 .. Len(s) : (s \o t)[i] = s[i]
         /\ \A i \in 1 .. Len(t) : (s \o t)[Len(s) + i] = t[i]
         /\ Range(s \o t) = Range(s) \cup Range(t)
         /\ s \o <<>> = s /\ <<>> \o s = s
         /\ \A u : IsSequence(u) => (s \o t) \o u = s \o (t \o u)
<1>1. s \in Seq(Range(s) \cup Range(t)) /\ t \in Seq(Range(s) \cup Range(t))
  BY SeqMonotonic DEF IsSequence
<1>2. IsSequence(s \o t) /\ Len(s \o t) = Len(s) + Len(t)
  BY <1>1, ConcatProperties, OwnType
<1>6. /\ \A i \in 1 .. Len(s) : (s \o t)[i] = s[i]
      /\ \A i \in 1 .. Len(t) : (s \o t)[Len(s) + i] = t[i]
  <2>1. Len(s) \in Nat /\ Len(t) \in Nat
    BY <1>1
  <2>2. \A i \in 1 .. Len(s) + Len(t) : (s \o t)[i] = IF i <= Len(s) THEN s[i] ELSE t[i - Len(s)]
    BY <1>1, ConcatProperties
  <2>. QED  BY <2>1, <2>2
<1>5. Range(s \o t) = Range(s) \cup Range(t)
  BY <1>1, RangeConcatenation
<1>3. s \o <<>> = s /\ <<>> \o s = s
  BY <1>1, ConcatEmptySeq
<1>4. ASSUME NEW u, IsSequence(u) PROVE (s \o t) \o u = s \o (t \o u)
  <2>. DEFINE R == Range(s) \cup Range(t) \cup Range(u)
  <2>1. Range(s) \subseteq R /\ Range(t) \subseteq R /\ Range(u) \subseteq R
    OBVIOUS
  <2>2. s \in Seq(R) /\ t \in Seq(R) /\ u \in Seq(R)
    <3>. HIDE DEF R
    <3>. QED  BY <1>4, <2>1, SeqMonotonic DEF IsSequence
  <2>. QED  BY <2>2, ConcatAssociative
<1>. QED  BY <1>2, <1>3, <1>4, <1>5, <1>6

(* The same of three of them alone.                                          *)
LEMMA InTurn ==
  ASSUME NEW s, NEW t, NEW u, IsSequence(s), IsSequence(t), IsSequence(u)
  PROVE  (s \o t) \o u = s \o (t \o u)
BY Concatenation

(* The fields that a parser reads.                                           *)
LEMMA SameFields ==
  ASSUME NEW o, NEW p, NEW q, Ahead(o, p, q)
  PROVE  /\ q.state = p.state /\ q.buffer = p.buffer /\ q.level = p.level
         /\ q.tag = p.tag /\ q.attribute = p.attribute
BY DEF Ahead, Parser

(* The building blocks of the parsers.                                       *)
LEMMA ToAhead ==
  ASSUME NEW o, NEW p, NEW q, Ahead(o, p, q)
  PROVE  \A s : Ahead(o, To(p, s), To(q, s))
BY DEF Ahead, Parser, To

(* Text is put into the buffer, or the buffer is emptied.                    *)
LEMMA BufferAhead ==
  ASSUME NEW o, NEW p, NEW q, Ahead(o, p, q)
  PROVE  Ahead(o, Emptied(p), Emptied(q)) /\ \A text : Ahead(o, Buffered(p, text), Buffered(q, text))
BY DEF Ahead, Parser, Emptied, Buffered

(* A dependency is found.                                                    *)
LEMMA EmitAhead ==
  ASSUME NEW o, NEW p, NEW q, Ahead(o, p, q)
  PROVE  \A dep : Ahead(o, Emit(p, dep), Emit(q, dep))
<1>. TAKE dep
<1>1. IsSequence(Append(p.output, dep)) /\ Append(p.output, dep) = p.output \o <<dep>>
  BY SequenceAppend DEF Ahead, Parser
<1>2. IsSequence(o \o p.output) /\ Append(o \o p.output, dep) = (o \o p.output) \o <<dep>>
  BY SequenceAppend, Concatenation DEF Ahead, Parser
<1>3. Append(o \o p.output, dep) = o \o Append(p.output, dep)
  BY <1>1, <1>2, Concatenation, Tuples DEF Ahead, Parser
<1>. QED  BY <1>1, <1>3 DEF Ahead, Parser, Emit

(* The depth of the brackets changes.                                        *)
LEMMA LevelAhead ==
  ASSUME NEW o, NEW p, NEW q, Ahead(o, p, q)
  PROVE  \A v : Ahead(o, [p EXCEPT !.level = v], [q EXCEPT !.level = v])
BY DEF Ahead, Parser

(* A keyword may begin an import.                                            *)
LEMMA OnImportAhead ==
  ASSUME NEW o, NEW p, NEW q, Ahead(o, p, q)
  PROVE  \A word : Ahead(o, OnImport(p, word), OnImport(q, word))
BY ToAhead DEF OnImport

(* The parsers, one by one.                                                  *)
LEMMA CAhead ==
  ASSUME NEW o, NEW p, NEW q, Ahead(o, p, q), NEW t
  PROVE  Ahead(o, CToken(p, t), CToken(q, t))
<1>1. \A dep : Ahead(o, CAppend(p, dep), CAppend(q, dep))
  BY EmitAhead DEF CAppend
<1>2. Ahead(o, CFile(p, t), CFile(q, t))
  BY <1>1 DEF CFile
<1>3. Ahead(o, To(CFile(p, t), "Unknown"), To(CFile(q, t), "Unknown"))
  BY <1>2, ToAhead
<1>4. Ahead(o, To(p, "Import"), To(q, "Import"))
  BY ToAhead
<1>. QED  BY <1>3, <1>4, SameFields DEF CToken

(* A token of C#.                                                            *)
LEMMA CSharpAhead ==
  ASSUME NEW o, NEW p, NEW q, Ahead(o, p, q), NEW t
  PROVE  Ahead(o, CSharpToken(p, t), CSharpToken(q, t))
<1>1. q.state = p.state /\ q.buffer = p.buffer
  BY SameFields
<1>2. \A dep : Ahead(o, CSharpAppend(p, dep), CSharpAppend(q, dep))
  BY EmitAhead DEF CSharpAppend
<1>3. Ahead(o, CSharpUsing(p), CSharpUsing(q))
  BY ToAhead, BufferAhead DEF CSharpUsing
<1>4. Ahead(o, CSharpPunctuation(p, t), CSharpPunctuation(q, t))
  <2>1. Ahead(o, CSharpAppend(p, p.buffer), CSharpAppend(q, q.buffer))
    BY <1>1, <1>2
  <2>2. Ahead(o, Emptied(To(CSharpAppend(p, p.buffer), "Unknown")), Emptied(To(CSharpAppend(q, q.buffer), "Unknown")))
    BY <2>1, ToAhead, BufferAhead
  <2>3. Ahead(o, Emptied(p), Emptied(q)) /\ Ahead(o, Buffered(p, t.value), Buffered(q, t.value))
    BY BufferAhead
  <2>. QED  BY <2>2, <2>3 DEF CSharpPunctuation
<1>. QED  BY <1>1, <1>3, <1>4, BufferAhead DEF CSharpToken

(* A token of VB.NET.                                                        *)
LEMMA VbNetAhead ==
  ASSUME NEW o, NEW p, NEW q, Ahead(o, p, q), NEW t
  PROVE  Ahead(o, VbNetToken(p, t), VbNetToken(q, t))
<1>1. q.state = p.state /\ q.buffer = p.buffer
  BY SameFields
<1>2. \A dep : Ahead(o, VbNetAppend(p, dep), VbNetAppend(q, dep))
  BY EmitAhead DEF VbNetAppend
<1>3. Ahead(o, VbNetEnd(p), VbNetEnd(q))
  <2>1. Ahead(o, VbNetAppend(p, p.buffer), VbNetAppend(q, q.buffer))
    BY <1>1, <1>2
  <2>. QED  BY <2>1, ToAhead, BufferAhead DEF VbNetEnd
<1>4. Ahead(o, Emptied(To(p, "Import")), Emptied(To(q, "Import")))
  BY ToAhead, BufferAhead
<1>. QED  BY <1>1, <1>3, <1>4, BufferAhead DEF VbNetToken

(* A token of Elm.                                                           *)
LEMMA ElmAhead ==
  ASSUME NEW o, NEW p, NEW q, Ahead(o, p, q), NEW t
  PROVE  Ahead(o, ElmToken(p, t), ElmToken(q, t))
BY SameFields, ToAhead, EmitAhead, OnImportAhead DEF ElmToken

(* A token of Go.                                                            *)
LEMMA GoAhead ==
  ASSUME NEW o, NEW p, NEW q, Ahead(o, p, q), NEW t
  PROVE  Ahead(o, GoToken(p, t), GoToken(q, t))
<1>1. q.state = p.state /\ q.level = p.level
  BY SameFields
<1>2. \A dep : Ahead(o, GoAppend(p, dep), GoAppend(q, dep))
  BY EmitAhead DEF GoAppend
<1>3. Ahead(o, GoKeyword(p, t), GoKeyword(q, t))
  BY OnImportAhead, LevelAhead DEF GoKeyword
<1>4. /\ Ahead(o, [p EXCEPT !.level = @ + 1], [q EXCEPT !.level = @ + 1])
      /\ Ahead(o, [p EXCEPT !.level = @ - 1], [q EXCEPT !.level = @ - 1])
      /\ Ahead(o, [p EXCEPT !.state = "Unknown", !.level = 0], [q EXCEPT !.state = "Unknown", !.level = 0])
  BY <1>1 DEF Ahead, Parser
<1>. QED  BY <1>1, <1>2, <1>3, <1>4 DEF GoToken

(* A token of Haskell.                                                       *)
LEMMA HaskellAhead ==
  ASSUME NEW o, NEW p, NEW q, Ahead(o, p, q), NEW t
  PROVE  Ahead(o, HaskellToken(p, t), HaskellToken(q, t))
<1>1. \A dep : Ahead(o, HaskellAppend(p, dep), HaskellAppend(q, dep))
  BY EmitAhead DEF HaskellAppend
<1>. QED  BY <1>1, SameFields, ToAhead, OnImportAhead DEF HaskellToken

(* A token of Haxe.                                                          *)
LEMMA HaxeAhead ==
  ASSUME NEW o, NEW p, NEW q, Ahead(o, p, q), NEW t
  PROVE  Ahead(o, HaxeToken(p, t), HaxeToken(q, t))
<1>. DEFINE F(r) == IF r.state = "Import" THEN HaxeAppend(r, t.value) ELSE r
<1>1. Ahead(o, F(p), F(q))
  BY SameFields, EmitAhead DEF HaxeAppend
<1>2. Ahead(o, To(F(p), "Unknown"), To(F(q), "Unknown"))
  <2>. HIDE DEF F
  <2>. QED  BY <1>1, ToAhead
<1>. QED  BY <1>2, ToAhead, OnImportAhead DEF HaxeToken

(* A token of HTML.                                                          *)
LEMMA HTMLAhead ==
  ASSUME NEW o, NEW p, NEW q, Ahead(o, p, q), NEW t
  PROVE  Ahead(o, HTMLToken(p, t), HTMLToken(q, t))
<1>1. q.state = p.state /\ q.tag = p.tag /\ q.attribute = p.attribute
  BY SameFields
<1>2. Ahead(o, HTMLAppend(p, t.value), HTMLAppend(q, t.value))
  BY EmitAhead DEF HTMLAppend
<1>3. \A s : Ahead(o, HTMLTag(p, s), HTMLTag(q, s))
  BY DEF Ahead, Parser, HTMLTag
<1>4. \A v : /\ Ahead(o, [p EXCEPT !.tag = v, !.attribute = <<>>], [q EXCEPT !.tag = v, !.attribute = <<>>])
             /\ Ahead(o, [p EXCEPT !.attribute = v], [q EXCEPT !.attribute = v])
  BY DEF Ahead, Parser
<1>5. Ahead(o, [p EXCEPT !.tag = IF p.state = "Tag" THEN t.value ELSE @, !.attribute = <<>>],
               [q EXCEPT !.tag = IF q.state = "Tag" THEN t.value ELSE @, !.attribute = <<>>])
  BY <1>1, <1>4
<1>. QED  BY <1>1, <1>2, <1>3, <1>4, <1>5 DEF HTMLToken

(* A token of Java.                                                          *)
LEMMA JavaAhead ==
  ASSUME NEW o, NEW p, NEW q, Ahead(o, p, q), NEW t
  PROVE  Ahead(o, JavaToken(p, t), JavaToken(q, t))
<1>1. q.state = p.state /\ q.buffer = p.buffer
  BY SameFields
<1>2. \A dep : Ahead(o, JavaAppend(p, dep), JavaAppend(q, dep))
  BY EmitAhead DEF JavaAppend
<1>3. \A path : Ahead(o, JavaFinish(p, path), JavaFinish(q, path))
  BY <1>2 DEF JavaFinish
<1>4. Ahead(o, Emptied(To(JavaFinish(p, Split(p.buffer, ".")), "Unknown")),
               Emptied(To(JavaFinish(q, Split(q.buffer, ".")), "Unknown")))
  <2>1. Ahead(o, JavaFinish(p, Split(p.buffer, ".")), JavaFinish(q, Split(q.buffer, ".")))
    BY <1>1, <1>3
  <2>. QED  BY <2>1, ToAhead, BufferAhead
<1>5. Ahead(o, To(p, "Import"), To(q, "Import")) /\ Ahead(o, Buffered(p, t.value), Buffered(q, t.value))
  BY ToAhead, BufferAhead
<1>. QED  BY <1>1, <1>4, <1>5 DEF JavaToken

(* A token of JavaScript.                                                    *)
LEMMA JavaScriptAhead ==
  ASSUME NEW o, NEW p, NEW q, Ahead(o, p, q), NEW t
  PROVE  Ahead(o, JavaScriptToken(p, t), JavaScriptToken(q, t))
<1>1. Ahead(o, JavaScriptAppend(p, t.value), JavaScriptAppend(q, t.value))
  BY EmitAhead DEF JavaScriptAppend
<1>. DEFINE F(r) == IF r.state = "Import" THEN JavaScriptAppend(r, t.value) ELSE r
<1>2. Ahead(o, F(p), F(q))
  BY <1>1, SameFields
<1>3. Ahead(o, To(F(p), "Unknown"), To(F(q), "Unknown"))
  <2>. HIDE DEF F
  <2>. QED  BY <1>2, ToAhead
<1>. QED  BY <1>3, ToAhead, OnImportAhead DEF JavaScriptToken

(* A token of JSON.                                                          *)
LEMMA JSONAhead ==
  ASSUME NEW o, NEW p, NEW q, Ahead(o, p, q), NEW t
  PROVE  Ahead(o, JSONToken(p, t), JSONToken(q, t))
<1>1. q.state = p.state /\ q.level = p.level
  BY SameFields
<1>2. Ahead(o, JSONNameTag(p, t), JSONNameTag(q, t))
  <2>1. Ahead(o, Emit(p, Trim(t.value, Quotes)), Emit(q, Trim(t.value, Quotes)))
    BY EmitAhead
  <2>2. Ahead(o, To(p, "Dependencies"), To(q, "Dependencies"))
    BY ToAhead
  <2>. QED  BY <1>1, <2>1, <2>2 DEF JSONNameTag
<1>3. Ahead(o, [p EXCEPT !.level = @ + 1], [q EXCEPT !.level = @ + 1])
  BY <1>1 DEF Ahead, Parser
<1>4. \A s : Ahead(o, [p EXCEPT !.level = @ - 1, !.state = s], [q EXCEPT !.level = @ - 1, !.state = s])
  BY <1>1 DEF Ahead, Parser
<1>5. Ahead(o, [p EXCEPT !.level = @ - 1, !.state = IF p.level <= 2 THEN "Unknown" ELSE @],
               [q EXCEPT !.level = @ - 1, !.state = IF q.level <= 2 THEN "Unknown" ELSE @])
  BY <1>1, <1>4
<1>. QED  BY <1>2, <1>3, <1>5 DEF JSONToken

(* A token of Kotlin.                                                        *)
LEMMA KotlinAhead ==
  ASSUME NEW o, NEW p, NEW q, Ahead(o, p, q), NEW t
  PROVE  Ahead(o, KotlinToken(p, t), KotlinToken(q, t))
<1>1. \A dep : Ahead(o, KotlinAppend(p, dep), KotlinAppend(q, dep))
  BY EmitAhead DEF KotlinAppend
<1>. QED  BY <1>1, SameFields, ToAhead, OnImportAhead DEF KotlinToken

(* A token of Objective-C.                                                   *)
LEMMA ObjectiveCAhead ==
  ASSUME NEW o, NEW p, NEW q, Ahead(o, p, q), NEW t
  PROVE  Ahead(o, ObjectiveCToken(p, t), ObjectiveCToken(q, t))
<1>1. Ahead(o, ObjectiveCAppend(p, t.value), ObjectiveCAppend(q, t.value))
  BY EmitAhead DEF ObjectiveCAppend
<1>2. Ahead(o, To(ObjectiveCAppend(p, t.value), "Unknown"), To(ObjectiveCAppend(q, t.value), "Unknown"))
  BY <1>1, ToAhead
<1>3. q.state = p.state /\ Ahead(o, To(p, "Unknown"), To(q, "Unknown")) /\ Ahead(o, To(p, "Hash"), To(q, "Hash"))
  BY SameFields, ToAhead
<1>. QED  BY <1>2, <1>3 DEF ObjectiveCToken

(* A token of PHP.                                                           *)
LEMMA PHPAhead ==
  ASSUME NEW o, NEW p, NEW q, Ahead(o, p, q), NEW t
  PROVE  Ahead(o, PHPToken(p, t), PHPToken(q, t))
<1>1. q.state = p.state
  BY SameFields
<1>2. \A dep : Ahead(o, PHPAppend(p, dep), PHPAppend(q, dep))
  BY EmitAhead DEF PHPAppend
<1>3. Ahead(o, PHPAppendTruncate(p, t.value), PHPAppendTruncate(q, t.value))
  BY <1>2 DEF PHPAppendTruncate
<1>4. Ahead(o, To(PHPAppendTruncate(p, t.value), "Use"), To(PHPAppendTruncate(q, t.value), "Use"))
  BY <1>3, ToAhead
<1>5. Ahead(o, PHPKeyword(p, t), PHPKeyword(q, t))
  BY <1>1, ToAhead DEF PHPKeyword
<1>6. Ahead(o, PHPPunctuation(p, t), PHPPunctuation(q, t))
  BY <1>1, ToAhead DEF PHPPunctuation
<1>7. \A dep : Ahead(o, PHPLiteral(p, t, dep), PHPLiteral(q, t, dep))
  <2>. TAKE dep
  <2>1. Ahead(o, PHPAppend(p, Trim(dep, Blank)), PHPAppend(q, Trim(dep, Blank)))
    BY <1>2
  <2>2. Ahead(o, To(PHPAppend(p, Trim(dep, Blank)), "Unknown"), To(PHPAppend(q, Trim(dep, Blank)), "Unknown"))
    BY <2>1, ToAhead
  <2>. QED  BY <1>1, <2>2 DEF PHPLiteral
<1>. QED  BY <1>1, <1>3, <1>4, <1>5, <1>6, <1>7, ToAhead DEF PHPToken

(* A token of Python.                                                        *)
LEMMA PythonAhead ==
  ASSUME NEW o, NEW p, NEW q, Ahead(o, p, q), NEW t
  PROVE  Ahead(o, PythonToken(p, t), PythonToken(q, t))
<1>1. q.state = p.state /\ q.buffer = p.buffer
  BY SameFields
<1>2. \A dep : Ahead(o, PythonAppend(p, dep), PythonAppend(q, dep))
  BY EmitAhead DEF PythonAppend
<1>3. Ahead(o, PythonFlush(p), PythonFlush(q))
  <2>1. Ahead(o, PythonAppend(p, p.buffer), PythonAppend(q, q.buffer))
    BY <1>1, <1>2
  <2>. QED  BY <2>1, BufferAhead DEF PythonFlush
<1>4. Ahead(o, To(PythonFlush(p), "Unknown"), To(PythonFlush(q), "Unknown"))
  BY <1>3, ToAhead
<1>5. Ahead(o, To(p, "From"), To(q, "From")) /\ Ahead(o, Buffered(p, t.value), Buffered(q, t.value))
  BY ToAhead, BufferAhead
<1>. QED  BY <1>1, <1>3, <1>4, <1>5, OnImportAhead DEF PythonToken

(* A token of Rust.                                                          *)
LEMMA RustAhead ==
  ASSUME NEW o, NEW p, NEW q, Ahead(o, p, q), NEW t
  PROVE  Ahead(o, RustToken(p, t), RustToken(q, t))
<1>. DEFINE F(r) == IF r.state = "ExternCrate" THEN Emit(r, Trim(t.value, Blank)) ELSE r
<1>1. Ahead(o, F(p), F(q))
  BY SameFields, EmitAhead
<1>2. Ahead(o, To(F(p), "Unknown"), To(F(q), "Unknown"))
  <2>. HIDE DEF F
  <2>. QED  BY <1>1, ToAhead
<1>. QED  BY <1>2, SameFields, ToAhead DEF RustToken

(* A token of Scala.                                                         *)
LEMMA ScalaAhead ==
  ASSUME NEW o, NEW p, NEW q, Ahead(o, p, q), NEW t
  PROVE  Ahead(o, ScalaToken(p, t), ScalaToken(q, t))
<1>1. \A dep : Ahead(o, ScalaAppend(p, dep), ScalaAppend(q, dep))
  BY EmitAhead DEF ScalaAppend
<1>. QED  BY <1>1, SameFields, ToAhead, OnImportAhead DEF ScalaToken

(* A token of Swift.                                                         *)
LEMMA SwiftAhead ==
  ASSUME NEW o, NEW p, NEW q, Ahead(o, p, q), NEW t
  PROVE  Ahead(o, SwiftToken(p, t), SwiftToken(q, t))
<1>1. \A dep : Ahead(o, SwiftAppend(p, dep), SwiftAppend(q, dep))
  BY EmitAhead DEF SwiftAppend
<1>. QED  BY <1>1, SameFields, ToAhead, OnImportAhead DEF SwiftToken

Parsers == {"C", "C#", "Elm", "Go", "Haskell", "Haxe", "HTML", "Java", "JavaScript", "JSON", "Kotlin",
            "Objective-C", "PHP", "Python", "Rust", "Scala", "Swift", "VB.NET"}

(* A token of any language.                                                  *)
LEMMA TokenAhead ==
  ASSUME NEW parser \in Parsers, NEW o, NEW p, NEW q, Ahead(o, p, q), NEW t
  PROVE  Ahead(o, Token(parser, p, t), Token(parser, q, t))
<1>1. CASE parser \in {"C", "C#", "Elm", "Go", "Haskell", "Haxe"}
  <2>1. /\ Ahead(o, CToken(p, t), CToken(q, t))
        /\ Ahead(o, CSharpToken(p, t), CSharpToken(q, t))
        /\ Ahead(o, ElmToken(p, t), ElmToken(q, t))
        /\ Ahead(o, GoToken(p, t), GoToken(q, t))
        /\ Ahead(o, HaskellToken(p, t), HaskellToken(q, t))
        /\ Ahead(o, HaxeToken(p, t), HaxeToken(q, t))
    BY CAhead, CSharpAhead, ElmAhead, GoAhead, HaskellAhead, HaxeAhead
  <2>. QED  BY <1>1, <2>1 DEF Token
<1>2. CASE parser \in {"HTML", "Java", "JavaScript", "JSON", "Kotlin", "Objective-C"}
  <2>1. /\ Ahead(o, HTMLToken(p, t), HTMLToken(q, t))
        /\ Ahead(o, JavaToken(p, t), JavaToken(q, t))
        /\ Ahead(o, JavaScriptToken(p, t), JavaScriptToken(q, t))
        /\ Ahead(o, JSONToken(p, t), JSONToken(q, t))
        /\ Ahead(o, KotlinToken(p, t), KotlinToken(q, t))
        /\ Ahead(o, ObjectiveCToken(p, t), ObjectiveCToken(q, t))
    BY HTMLAhead, JavaAhead, JavaScriptAhead, JSONAhead, KotlinAhead, ObjectiveCAhead
  <2>. QED  BY <1>2, <2>1 DEF Token
<1>3. CASE parser \in {"PHP", "Python", "Rust", "Scala", "Swift", "VB.NET"}
  <2>1. /\ Ahead(o, PHPToken(p, t), PHPToken(q, t))
        /\ Ahead(o, PythonToken(p, t), PythonToken(q, t))
        /\ Ahead(o, RustToken(p, t), RustToken(q, t))
        /\ Ahead(o, ScalaToken(p, t), ScalaToken(q, t))
        /\ Ahead(o, SwiftToken(p, t), SwiftToken(q, t))
        /\ Ahead(o, VbNetToken(p, t), VbNetToken(q, t))
    BY PHPAhead, PythonAhead, RustAhead, ScalaAhead, SwiftAhead, VbNetAhead
  <2>. QED  BY <1>3, <2>1 DEF Token
<1>. QED  BY <1>1, <1>2, <1>3 DEF Parsers

-----------------------------------------------------------------------------
(* Runs of a parser over the tokens of a file                                *)

(* run has the states of the parser, from p on, after each number of tokens. *)
IsRun(run, parser, p, tokens) ==
  run[0] = p /\ \A i \in 1 .. Len(tokens) : run[i] = Token(parser, run[i - 1], tokens[i])

(* The same, of a function that has no more states than these.               *)
RunStep(run, i, parser, p, tokens) == IF i = 0 THEN p ELSE Token(parser, run[i - 1], tokens[i])

(* There is a run.                                                           *)
LEMMA RunExists ==
  ASSUME NEW parser, NEW p, NEW tokens, IsSequence(tokens)
  PROVE  \E run : run = [i \in 0 .. Len(tokens) |-> RunStep(run, i, parser, p, tokens)]
<1>. DEFINE Runs(m) == \E run : run = [i \in 0 .. m |-> RunStep(run, i, parser, p, tokens)]
            S == {m \in Nat : Runs(m)}
<1>1. Runs(0)
  <2>. DEFINE run == [i \in 0 .. 0 |-> p]
  <2>1. run = [i \in 0 .. 0 |-> RunStep(run, i, parser, p, tokens)]
    BY DEF RunStep
  <2>. HIDE DEF run
  <2>. QED  BY <2>1
<1>2. ASSUME NEW m \in Nat, Runs(m) PROVE Runs(m + 1)
  <2>1. PICK run : run = [i \in 0 .. m |-> RunStep(run, i, parser, p, tokens)]
    BY <1>2
  <2>. DEFINE more == [i \in 0 .. m + 1 |-> RunStep(run, i, parser, p, tokens)]
  <2>2. \A i \in 0 .. m : more[i] = run[i]
    BY <2>1
  <2>3. \A i \in 0 .. m + 1 : RunStep(run, i, parser, p, tokens) = RunStep(more, i, parser, p, tokens)
    <3>. SUFFICES ASSUME NEW i \in 0 .. m + 1, i # 0
                  PROVE  run[i - 1] = more[i - 1]
      BY DEF RunStep
    <3>1. i - 1 \in 0 .. m
      OBVIOUS
    <3>. HIDE DEF more
    <3>. QED  BY <2>2, <3>1
  <2>4. more = [i \in 0 .. m + 1 |-> RunStep(more, i, parser, p, tokens)]
    BY <2>3
  <2>. HIDE DEF more
  <2>. QED  BY <2>4
<1>3. Nat \subseteq S
  <2>1. 0 \in S
    BY <1>1
  <2>2. \A m \in Nat : m \in S => m + 1 \in S
    BY <1>2
  <2>. HIDE DEF S
  <2>. QED  BY <2>1, <2>2, Induction
<1>4. Len(tokens) \in S
  BY <1>3 DEF IsSequence
<1>. QED  BY <1>4

(* Run is the last state of a run.                                           *)
LEMMA RunFacts ==
  ASSUME NEW parser, NEW p, NEW tokens, IsSequence(tokens)
  PROVE  \E run : IsRun(run, parser, p, tokens) /\ Run(parser, p, tokens) = run[Len(tokens)]
<1>. DEFINE Is_(r) == r = [i \in 0 .. Len(tokens) |-> RunStep(r, i, parser, p, tokens)]
            run == CHOOSE r : Is_(r)
<1>1. Is_(run)
  BY RunExists
<1>2. Run(parser, p, tokens) = run[Len(tokens)]
  BY DEF Run, RunStep
<1>. HIDE DEF run
<1>3. Len(tokens) \in Nat
  BY DEF IsSequence
<1>4. IsRun(run, parser, p, tokens)
  BY <1>1, <1>3 DEF IsRun, RunStep
<1>. QED  BY <1>2, <1>4

(* Any run ends in the same state.                                           *)
LEMMA RunIs ==
  ASSUME NEW parser, NEW p, NEW tokens, IsSequence(tokens), NEW run, IsRun(run, parser, p, tokens)
  PROVE  Run(parser, p, tokens) = run[Len(tokens)]
<1>1. PICK r : IsRun(r, parser, p, tokens) /\ Run(parser, p, tokens) = r[Len(tokens)]
  BY RunFacts
<1>. DEFINE S == {i \in Nat : i <= Len(tokens) => r[i] = run[i]}
<1>2. 0 \in S
  BY <1>1 DEF IsRun
<1>3. ASSUME NEW i \in Nat, i \in S PROVE i + 1 \in S
  <2>. SUFFICES ASSUME i + 1 <= Len(tokens) PROVE r[i + 1] = run[i + 1]
    OBVIOUS
  <2>1. Len(tokens) \in Nat /\ i + 1 \in 1 .. Len(tokens) /\ (i + 1) - 1 = i
    BY DEF IsSequence
  <2>. QED  BY <1>1, <1>3, <2>1 DEF IsRun
<1>4. Nat \subseteq S
  <2>. HIDE DEF S
  <2>. QED  BY <1>2, <1>3, Induction
<1>5. Len(tokens) \in S
  BY <1>4 DEF IsSequence
<1>. QED  BY <1>1, <1>5 DEF IsSequence

(* A parser that gets no token stays as it is.                               *)
LEMMA RunNothing ==
  ASSUME NEW parser, NEW p
  PROVE  Run(parser, p, <<>>) = p
<1>1. IsSequence(<<>>) /\ Len(<<>>) = 0
  BY Tuples
<1>. QED  BY <1>1, RunFacts DEF IsRun

(* The tokens of two pieces of a file go through the parser in turn.         *)
LEMMA RunOn ==
  ASSUME NEW parser, NEW p, NEW s, NEW t, IsSequence(s), IsSequence(t)
  PROVE  Run(parser, p, s \o t) = Run(parser, Run(parser, p, s), t)
<1>1. PICK r : IsRun(r, parser, p, s) /\ Run(parser, p, s) = r[Len(s)]
  BY RunFacts
<1>2. PICK r2 : /\ IsRun(r2, parser, Run(parser, p, s), t)
                /\ Run(parser, Run(parser, p, s), t) = r2[Len(t)]
  BY RunFacts
<1>3. /\ Len(s) \in Nat /\ Len(t) \in Nat
      /\ IsSequence(s \o t) /\ Len(s \o t) = Len(s) + Len(t)
  BY Concatenation DEF IsSequence
<1>. DEFINE run == [i \in Nat |-> IF i <= Len(s) THEN r[i] ELSE r2[i - Len(s)]]
<1>4. IsRun(run, parser, p, s \o t)
  <2>1. run[0] = p
    BY <1>1, <1>3 DEF IsRun
  <2>2. ASSUME NEW i \in 1 .. Len(s) + Len(t), i <= Len(s)
        PROVE  run[i] = Token(parser, run[i - 1], (s \o t)[i])
    <3>1. (s \o t)[i] = s[i]
      BY <1>3, <2>2, Concatenation
    <3>2. i \in 1 .. Len(s) /\ i \in Nat /\ i - 1 \in Nat /\ i - 1 <= Len(s)
      BY <1>3, <2>2
    <3>. QED  BY <1>1, <3>1, <3>2 DEF IsRun
  <2>3. ASSUME NEW i \in 1 .. Len(s) + Len(t), ~(i <= Len(s))
        PROVE  run[i] = Token(parser, run[i - 1], (s \o t)[i])
    <3>. DEFINE j == i - Len(s)
    <3>1. j \in 1 .. Len(t) /\ i = Len(s) + j /\ i \in Nat /\ i - 1 \in Nat /\ (i - 1) - Len(s) = j - 1
      BY <1>3, <2>3
    <3>2. (s \o t)[i] = t[j]
      BY <1>3, <3>1, Concatenation
    <3>3. run[i] = r2[j]
      BY <2>3, <3>1
    <3>4. run[i - 1] = r2[j - 1]
      <4>1. CASE i - 1 <= Len(s)
        <5>1. j = 1 /\ i - 1 = Len(s)
          BY <1>3, <3>1, <4>1
        <5>. QED  BY <1>1, <1>2, <3>1, <4>1, <5>1 DEF IsRun
      <4>2. CASE ~(i - 1 <= Len(s))
        BY <3>1, <4>2
      <4>. QED  BY <4>1, <4>2
    <3>. HIDE DEF run, j
    <3>. QED  BY <1>2, <3>1, <3>2, <3>3, <3>4 DEF IsRun
  <2>. HIDE DEF run
  <2>. QED  BY <1>3, <2>1, <2>2, <2>3 DEF IsRun
<1>5. run[Len(s) + Len(t)] = r2[Len(t)]
  <2>1. CASE Len(t) = 0
    BY <1>1, <1>2, <1>3, <2>1 DEF IsRun
  <2>2. CASE Len(t) # 0
    BY <1>3, <2>2
  <2>. QED  BY <2>1, <2>2
<1>. HIDE DEF run
<1>6. Run(parser, p, s \o t) = run[Len(s \o t)]
  BY <1>3, <1>4, RunIs
<1>. QED  BY <1>2, <1>3, <1>5, <1>6

(* What a parser found before is still ahead of what it finds in a run.      *)
LEMMA RunAhead ==
  ASSUME NEW parser \in Parsers, NEW o, NEW p, NEW q, Ahead(o, p, q), NEW tokens, IsSequence(tokens)
  PROVE  Ahead(o, Run(parser, p, tokens), Run(parser, q, tokens))
<1>1. PICK r : IsRun(r, parser, p, tokens) /\ Run(parser, p, tokens) = r[Len(tokens)]
  BY RunFacts
<1>2. PICK r2 : IsRun(r2, parser, q, tokens) /\ Run(parser, q, tokens) = r2[Len(tokens)]
  BY RunFacts
<1>. DEFINE S == {i \in Nat : i <= Len(tokens) => Ahead(o, r[i], r2[i])}
<1>3. 0 \in S
  BY <1>1, <1>2 DEF IsRun
<1>4. ASSUME NEW i \in Nat, i \in S PROVE i + 1 \in S
  <2>. SUFFICES ASSUME i + 1 <= Len(tokens) PROVE Ahead(o, r[i + 1], r2[i + 1])
    OBVIOUS
  <2>1. Len(tokens) \in Nat /\ i + 1 \in 1 .. Len(tokens) /\ (i + 1) - 1 = i
    BY DEF IsSequence
  <2>2. Ahead(o, r[i], r2[i])
    BY <1>4, <2>1
  <2>3. /\ r[i + 1] = Token(parser, r[i], tokens[i + 1])
        /\ r2[i + 1] = Token(parser, r2[i], tokens[i + 1])
    BY <1>1, <1>2, <2>1 DEF IsRun
  <2>. QED  BY <2>2, <2>3, TokenAhead
<1>5. Nat \subseteq S
  <2>. HIDE DEF S
  <2>. QED  BY <1>3, <1>4, Induction
<1>6. Len(tokens) \in S
  BY <1>5 DEF IsSequence
<1>. QED  BY <1>1, <1>2, <1>6 DEF IsSequence

-----------------------------------------------------------------------------
(* Parsers that start with nothing                                           *)

(* A parser is itself without its output, with the output put ahead.         *)
LEMMA BareAhead ==
  ASSUME NEW p, Parser(p)
  PROVE  Parser(Bare(p)) /\ Bare(p).output = <<>> /\ Ahead(p.output, Bare(p), p)
<1>1. IsSequence(<<>>) /\ p.output \o <<>> = p.output
  BY Tuples, Concatenation DEF Parser
<1>2. Parser(Bare(p)) /\ Bare(p).output = <<>>
  BY <1>1 DEF Parser, Bare
<1>3. p = [Bare(p) EXCEPT !.output = p.output \o <<>>]
  BY <1>1 DEF Parser, Bare
<1>. QED  BY <1>1, <1>2, <1>3 DEF Ahead, Parser

(* Two parsers, one with more output than the other.                         *)
LEMMA AheadFacts ==
  ASSUME NEW o, NEW p, NEW q, Ahead(o, p, q)
  PROVE  /\ Parser(p) /\ Parser(q) /\ Bare(q) = Bare(p)
         /\ q.output = o \o p.output /\ Range(q.output) = Range(o) \cup Range(p.output)
<1>1. Parser(p) /\ IsSequence(o) /\ IsSequence(o \o p.output) /\ Range(o \o p.output) = Range(o) \cup Range(p.output)
  BY Concatenation DEF Ahead, Parser
<1>2. q.output = o \o p.output /\ Parser(q)
  BY <1>1 DEF Ahead, Parser
<1>3. Bare(q) = Bare(p)
  BY <1>1 DEF Ahead, Parser, Bare
<1>. QED  BY <1>1, <1>2, <1>3

(* What a run adds to the output is what it finds without the output.        *)
LEMMA RunAdds ==
  ASSUME NEW parser \in Parsers, NEW p, Parser(p), NEW tokens, IsSequence(tokens)
  PROVE  Ahead(p.output, Run(parser, Bare(p), tokens), Run(parser, p, tokens))
<1>1. Ahead(p.output, Bare(p), p)
  BY BareAhead
<1>. QED  BY <1>1, RunAhead

(* What a parser starts with, which has found nothing.                       *)
LEMMA StartIsParser == Parser(Start) /\ Start.output = <<>> /\ Bare(Start) = Start
<1>1. IsSequence(<<>>)
  BY Tuples
<1>. QED  BY <1>1 DEF Parser, Start, Bare

(* A longer file: what was found in the first part of a file stays what is   *)
(* found first.                                                              *)
THEOREM FoundStaysFirst ==
  ASSUME NEW parser \in Parsers, NEW p, Parser(p), NEW s, NEW t, IsSequence(s), IsSequence(t)
  PROVE  LET first == Run(parser, p, s)
         IN  Run(parser, p, s \o t).output = first.output \o Run(parser, Bare(first), t).output
<1>1. Run(parser, p, s \o t) = Run(parser, Run(parser, p, s), t)
  BY RunOn
<1>2. Parser(Run(parser, p, s))
  BY RunAdds, AheadFacts
<1>3. ASSUME NEW f, Parser(f)
      PROVE  Run(parser, f, t).output = f.output \o Run(parser, Bare(f), t).output
  <2>1. Ahead(f.output, Run(parser, Bare(f), t), Run(parser, f, t))
    BY <1>3, RunAdds
  <2>. QED  BY <2>1, AheadFacts
<1>. QED  BY <1>1, <1>2, <1>3

-----------------------------------------------------------------------------
(* Sequences of sequences                                                    *)

(* joined has the first sequences of seqs, one after another.                *)
IsJoining(joined, seqs) ==
  joined[0] = <<>> /\ \A i \in 1 .. Len(seqs) : joined[i] = joined[i - 1] \o seqs[i]

(* The same, of a function over no more than the numbers of seqs.            *)
JoinStep(joined, i, seqs) == IF i = 1 THEN seqs[i] ELSE joined[i - 1] \o seqs[i]

(* There is such a function.                                                 *)
LEMMA JoinExists ==
  ASSUME NEW seqs, IsSequence(seqs)
  PROVE  \E joined : joined = [i \in 1 .. Len(seqs) |-> JoinStep(joined, i, seqs)]
<1>. DEFINE Joins(m) == \E joined : joined = [i \in 1 .. m |-> JoinStep(joined, i, seqs)]
            S == {m \in Nat : Joins(m)}
<1>1. Joins(0)
  <2>. DEFINE joined == [i \in 1 .. 0 |-> seqs]
  <2>1. joined = [i \in 1 .. 0 |-> JoinStep(joined, i, seqs)]
    OBVIOUS
  <2>. HIDE DEF joined
  <2>. QED  BY <2>1
<1>2. ASSUME NEW m \in Nat, Joins(m) PROVE Joins(m + 1)
  <2>1. PICK joined : joined = [i \in 1 .. m |-> JoinStep(joined, i, seqs)]
    BY <1>2
  <2>. DEFINE more == [i \in 1 .. m + 1 |-> JoinStep(joined, i, seqs)]
  <2>2. \A i \in 1 .. m : more[i] = joined[i]
    BY <2>1
  <2>3. \A i \in 1 .. m + 1 : JoinStep(joined, i, seqs) = JoinStep(more, i, seqs)
    <3>. SUFFICES ASSUME NEW i \in 1 .. m + 1, i # 1
                  PROVE  joined[i - 1] = more[i - 1]
      BY DEF JoinStep
    <3>1. i - 1 \in 1 .. m
      OBVIOUS
    <3>. HIDE DEF more
    <3>. QED  BY <2>2, <3>1
  <2>4. more = [i \in 1 .. m + 1 |-> JoinStep(more, i, seqs)]
    BY <2>3
  <2>. HIDE DEF more
  <2>. QED  BY <2>4
<1>3. Nat \subseteq S
  <2>1. 0 \in S
    BY <1>1
  <2>2. \A m \in Nat : m \in S => m + 1 \in S
    BY <1>2
  <2>. HIDE DEF S
  <2>. QED  BY <2>1, <2>2, Induction
<1>4. Len(seqs) \in S
  BY <1>3 DEF IsSequence
<1>. QED  BY <1>4

(* FlattenSeq is the last of the joined sequences.                           *)
LEMMA FlattenFacts ==
  ASSUME NEW seqs, IsSequence(seqs), \A i \in 1 .. Len(seqs) : IsSequence(seqs[i])
  PROVE  \E joined : /\ IsJoining(joined, seqs) /\ FlattenSeq(seqs) = joined[Len(seqs)]
                     /\ \A i \in 0 .. Len(seqs) : IsSequence(joined[i])
<1>. DEFINE Is_(j) == j = [i \in 1 .. Len(seqs) |-> JoinStep(j, i, seqs)]
            flatten == CHOOSE j : Is_(j)
            joined == [i \in 0 .. Len(seqs) |-> IF i = 0 THEN <<>> ELSE flatten[i]]
<1>1. Is_(flatten)
  BY JoinExists
<1>2. FlattenSeq(seqs) = IF Len(seqs) = 0 THEN <<>> ELSE flatten[Len(seqs)]
  BY DEF FlattenSeq, JoinStep
<1>. HIDE DEF flatten
<1>3. Len(seqs) \in Nat
  BY DEF IsSequence
<1>4. FlattenSeq(seqs) = joined[Len(seqs)]
  BY <1>2, <1>3
<1>5. joined[0] = <<>>
  BY <1>3
<1>6. ASSUME NEW i \in 1 .. Len(seqs) PROVE joined[i] = joined[i - 1] \o seqs[i]
  <2>1. joined[i] = JoinStep(flatten, i, seqs)
    BY <1>1, <1>3
  <2>2. CASE i = 1
    <3>1. joined[i - 1] = <<>>
      BY <1>5, <2>2
    <3>2. <<>> \o seqs[i] = seqs[i]
      BY Concatenation, Tuples
    <3>. QED  BY <2>1, <2>2, <3>1, <3>2 DEF JoinStep
  <2>3. CASE i # 1
    <3>1. joined[i - 1] = flatten[i - 1]
      BY <1>3, <2>3
    <3>. QED  BY <2>1, <2>3, <3>1 DEF JoinStep
  <2>. QED  BY <2>2, <2>3
<1>. HIDE DEF joined
<1>. DEFINE S == {i \in Nat : i <= Len(seqs) => IsSequence(joined[i])}
<1>7. 0 \in S
  BY <1>5, Tuples
<1>8. ASSUME NEW i \in Nat, i \in S PROVE i + 1 \in S
  <2>. SUFFICES ASSUME i + 1 <= Len(seqs) PROVE IsSequence(joined[i + 1])
    OBVIOUS
  <2>1. i + 1 \in 1 .. Len(seqs) /\ (i + 1) - 1 = i /\ i <= Len(seqs)
    BY <1>3
  <2>2. joined[i + 1] = joined[i] \o seqs[i + 1] /\ IsSequence(joined[i]) /\ IsSequence(seqs[i + 1])
    BY <1>6, <1>8, <2>1
  <2>. QED  BY <2>2, Concatenation
<1>9. Nat \subseteq S
  <2>. HIDE DEF S
  <2>. QED  BY <1>7, <1>8, Induction
<1>10. \A i \in 0 .. Len(seqs) : IsSequence(joined[i])
  BY <1>3, <1>9
<1>. QED  BY <1>4, <1>5, <1>6, <1>10 DEF IsJoining

-----------------------------------------------------------------------------
(* The statements of a file, one after another                               *)

(* What the name of a file adds to the output, and where its parser begins.  *)
Named(language, file) == IF language = "JSON" THEN FilenameJSON(file.name).output ELSE <<>>
Begun(language, file) == IF language = "JSON" THEN FilenameJSON(file.name) ELSE Start

(* The name of a file is read before its tokens, if it is one of JSON's.     *)
LEMMA BegunFacts ==
  ASSUME NEW language, NEW file
  PROVE  /\ Ahead(Named(language, file), Start, Begun(language, file))
         /\ Parser(Begun(language, file)) /\ IsSequence(Named(language, file))
<1>1. Ahead(<<>>, Start, Start)
  BY StartIsParser, BareAhead
<1>2. ASSUME NEW dep PROVE Ahead(Emit(Start, dep).output, Start, Emit(Start, dep))
  <2>1. Ahead(<<>>, Emit(Start, dep), Emit(Start, dep))
    BY <1>1, EmitAhead
  <2>2. Parser(Emit(Start, dep)) /\ Bare(Emit(Start, dep)) = Start
    <3>1. Parser(Emit(Start, dep))
      BY <2>1, AheadFacts
    <3>2. Bare(Emit(Start, dep)) = Start
      BY StartIsParser DEF Bare, Emit, Start
    <3>. QED  BY <3>1, <3>2
  <2>. QED  BY <2>2, BareAhead
<1>3. Ahead(Named(language, file), Start, Begun(language, file))
  BY <1>1, <1>2, StartIsParser DEF Named, Begun, FilenameJSON
<1>. QED  BY <1>3, AheadFacts DEF Ahead

(* Each language has a parser, which gets the tokens of the file.            *)
LEMMA DetectIsRun ==
  ASSUME NEW language \in Parsed, NEW file
  PROVE  /\ Machine(language) \in Parsers
         /\ Detect(language, file) = Run(Machine(language), Begun(language, file), Tokens(language, file)).output
<1>. DEFINE tokens == Tokens(language, file)
<1>. HIDE DEF tokens
<1>0. /\ ParseC(tokens) = Run("C", Start, tokens).output
      /\ ParseCSharp(tokens) = Run("C#", Start, tokens).output
      /\ ParseElm(tokens) = Run("Elm", Start, tokens).output
      /\ ParseGo(tokens) = Run("Go", Start, tokens).output
      /\ ParseHaskell(tokens) = Run("Haskell", Start, tokens).output
      /\ ParseHaxe(tokens) = Run("Haxe", Start, tokens).output
      /\ ParseHTML(tokens) = Run("HTML", Start, tokens).output
      /\ ParseJava(tokens) = Run("Java", Start, tokens).output
      /\ ParseJavaScript(tokens) = Run("JavaScript", Start, tokens).output
      /\ ParseJSON(file.name, tokens) = Run("JSON", FilenameJSON(file.name), tokens).output
      /\ ParseKotlin(tokens) = Run("Kotlin", Start, tokens).output
      /\ ParseObjectiveC(tokens) = Run("Objective-C", Start, tokens).output
      /\ ParsePHP(tokens) = Run("PHP", Start, tokens).output
      /\ ParsePython(tokens) = Run("Python", Start, tokens).output
      /\ ParseRust(tokens) = Run("Rust", Start, tokens).output
      /\ ParseScala(tokens) = Run("Scala", Start, tokens).output
      /\ ParseSwift(tokens) = Run("Swift", Start, tokens).output
      /\ ParseVbNet(tokens) = Run("VB.NET", Start, tokens).output
  BY DEF ParseC, ParseCSharp, ParseElm, ParseGo, ParseHaskell, ParseHaxe, ParseHTML, ParseJava,
         ParseJavaScript, ParseJSON, ParseKotlin, ParseObjectiveC, ParsePHP, ParsePython, ParseRust,
         ParseScala, ParseSwift, ParseVbNet
<1>1. Machine(language) \in Parsers
  BY DEF Parsed, Parsers, Machine
<1>2. CASE language \in {"C", "C++"}
  <2>1. Detect(language, file) = ParseC(tokens)
    BY <1>2, Zenon DEF Detect, tokens
  <2>. QED  BY <1>0, <1>1, <1>2, <2>1 DEF Machine, Begun, tokens
<1>3. CASE language = "C#"
  <2>1. Detect(language, file) = ParseCSharp(tokens)
    BY <1>3, Zenon DEF Detect, tokens
  <2>. QED  BY <1>0, <1>1, <1>3, <2>1 DEF Machine, Begun, tokens
<1>4. CASE language = "Elm"
  <2>1. Detect(language, file) = ParseElm(tokens)
    BY <1>4, Zenon DEF Detect, tokens
  <2>. QED  BY <1>0, <1>1, <1>4, <2>1 DEF Machine, Begun, tokens
<1>5. CASE language = "Go"
  <2>1. Detect(language, file) = ParseGo(tokens)
    BY <1>5, Zenon DEF Detect, tokens
  <2>. QED  BY <1>0, <1>1, <1>5, <2>1 DEF Machine, Begun, tokens
<1>6. CASE language = "Haskell"
  <2>1. Detect(language, file) = ParseHaskell(tokens)
    BY <1>6, Zenon DEF Detect, tokens
  <2>. QED  BY <1>0, <1>1, <1>6, <2>1 DEF Machine, Begun, tokens
<1>7. CASE language = "Haxe"
  <2>1. Detect(language, file) = ParseHaxe(tokens)
    BY <1>7, Zenon DEF Detect, tokens
  <2>. QED  BY <1>0, <1>1, <1>7, <2>1 DEF Machine, Begun, tokens
<1>8. CASE language = "HTML"
  <2>1. Detect(language, file) = ParseHTML(tokens)
    BY <1>8, Zenon DEF Detect, tokens
  <2>. QED  BY <1>0, <1>1, <1>8, <2>1 DEF Machine, Begun, tokens
<1>9. CASE language = "Java"
  <2>1. Detect(language, file) = ParseJava(tokens)
    BY <1>9, Zenon DEF Detect, tokens
  <2>. QED  BY <1>0, <1>1, <1>9, <2>1 DEF Machine, Begun, tokens
<1>10. CASE language \in {"JavaScript", "TypeScript"}
  <2>1. Detect(language, file) = ParseJavaScript(tokens)
    BY <1>10, Zenon DEF Detect, tokens
  <2>. QED  BY <1>0, <1>1, <1>10, <2>1 DEF Machine, Begun, tokens
<1>11. CASE language = "JSON"
  <2>1. Detect(language, file) = ParseJSON(file.name, tokens)
    BY <1>11, Zenon DEF Detect, tokens
  <2>. QED  BY <1>0, <1>1, <1>11, <2>1 DEF Machine, Begun, tokens
<1>12. CASE language = "Kotlin"
  <2>1. Detect(language, file) = ParseKotlin(tokens)
    BY <1>12, Zenon DEF Detect, tokens
  <2>. QED  BY <1>0, <1>1, <1>12, <2>1 DEF Machine, Begun, tokens
<1>13. CASE language = "Objective-C"
  <2>1. Detect(language, file) = ParseObjectiveC(tokens)
    BY <1>13, Zenon DEF Detect, tokens
  <2>. QED  BY <1>0, <1>1, <1>13, <2>1 DEF Machine, Begun, tokens
<1>14. CASE language = "PHP"
  <2>1. Detect(language, file) = ParsePHP(tokens)
    BY <1>14, Zenon DEF Detect, tokens
  <2>. QED  BY <1>0, <1>1, <1>14, <2>1 DEF Machine, Begun, tokens
<1>15. CASE language = "Python"
  <2>1. Detect(language, file) = ParsePython(tokens)
    BY <1>15, Zenon DEF Detect, tokens
  <2>. QED  BY <1>0, <1>1, <1>15, <2>1 DEF Machine, Begun, tokens
<1>16. CASE language = "Rust"
  <2>1. Detect(language, file) = ParseRust(tokens)
    BY <1>16, Zenon DEF Detect, tokens
  <2>. QED  BY <1>0, <1>1, <1>16, <2>1 DEF Machine, Begun, tokens
<1>17. CASE language = "Scala"
  <2>1. Detect(language, file) = ParseScala(tokens)
    BY <1>17, Zenon DEF Detect, tokens
  <2>. QED  BY <1>0, <1>1, <1>17, <2>1 DEF Machine, Begun, tokens
<1>18. CASE language = "Swift"
  <2>1. Detect(language, file) = ParseSwift(tokens)
    BY <1>18, Zenon DEF Detect, tokens
  <2>. QED  BY <1>0, <1>1, <1>18, <2>1 DEF Machine, Begun, tokens
<1>19. CASE language = "VB.NET"
  <2>1. Detect(language, file) = ParseVbNet(tokens)
    BY <1>19, Zenon DEF Detect, tokens
  <2>. QED  BY <1>0, <1>1, <1>19, <2>1 DEF Machine, Begun, tokens
<1>. QED  BY <1>1, <1>2, <1>3, <1>4, <1>5, <1>6, <1>7, <1>8, <1>9, <1>10, <1>11, <1>12,
             <1>13, <1>14, <1>15, <1>16, <1>17, <1>18, <1>19 DEF Parsed

(* A file, apart from its language.                                          *)
IsFile(file) ==
  /\ IsSequence(file.statements)
  /\ \A s \in Range(file.statements) : IsSequence(s.tokens) /\ IsSequence(s.deps)

(* r has the states of the parser at the end of each statement.              *)
IsReading(r, language, file) ==
  /\ Ahead(Named(language, file), Run(Machine(language), Start, Opening[language]), r[0])
  /\ \A i \in 1 .. Len(file.statements) :
       Ahead(r[i - 1].output, After(language, Bare(r[i - 1]), file.statements[i]), r[i])
  /\ Detect(language, file) = r[Len(file.statements)].output

(* What a statement adds to what was found is what it yields when nothing    *)
(* was found before it.                                                      *)
LEMMA ReadingExists ==
  ASSUME NEW language \in Parsed, NEW file, IsFile(file)
  PROVE  \E r : IsReading(r, language, file)
<1>. DEFINE statements == file.statements
            seqs == [i \in DOMAIN statements |-> statements[i].tokens]
            parser == Machine(language)
<1>1. /\ DOMAIN statements = 1 .. Len(statements) /\ Len(statements) \in Nat
      /\ \A i \in 1 .. Len(statements) : statements[i] \in Range(statements)
  BY LenProperties DEF IsFile, IsSequence, Range
<1>2. /\ IsSequence(seqs) /\ Len(seqs) = Len(statements)
      /\ \A i \in 1 .. Len(seqs) : seqs[i] = statements[i].tokens /\ IsSequence(seqs[i])
  <2>1. seqs \in Seq({s.tokens : s \in Range(statements)}) /\ Len(seqs) = Len(statements)
    BY <1>1
  <2>. QED  BY <1>1, <2>1, OwnType DEF IsFile
<1>3. PICK joined : /\ IsJoining(joined, seqs) /\ FlattenSeq(seqs) = joined[Len(seqs)]
                    /\ \A i \in 0 .. Len(seqs) : IsSequence(joined[i])
  <2>. HIDE DEF seqs
  <2>. QED  BY <1>2, FlattenFacts
<1>4. IsSequence(Opening[language]) /\ parser \in Parsers /\ Parser(Begun(language, file))
  BY OpeningAssumption, DetectIsRun, BegunFacts
<1>. DEFINE opened == Run(parser, Begun(language, file), Opening[language])
            r == [i \in 0 .. Len(statements) |-> Run(parser, opened, joined[i])]
<1>5. Ahead(Named(language, file), Run(parser, Start, Opening[language]), opened)
  BY <1>4, BegunFacts, RunAhead
<1>6. Parser(opened)
  BY <1>5, AheadFacts
<1>. HIDE DEF seqs, parser, opened
<1>7. r[0] = opened
  BY <1>1, <1>3, RunNothing DEF IsJoining
<1>8. ASSUME NEW i \in 1 .. Len(statements)
      PROVE  Ahead(r[i - 1].output, After(language, Bare(r[i - 1]), statements[i]), r[i])
  <2>1. /\ i - 1 \in 0 .. Len(statements) /\ i \in 0 .. Len(statements)
        /\ IsSequence(joined[i - 1]) /\ IsSequence(seqs[i]) /\ seqs[i] = statements[i].tokens
        /\ joined[i] = joined[i - 1] \o seqs[i]
    <3>1. i - 1 \in 0 .. Len(statements) /\ i \in 0 .. Len(statements) /\ Len(seqs) = Len(statements)
      BY <1>1, <1>2
    <3>2. i \in 1 .. Len(seqs) /\ i - 1 \in 0 .. Len(seqs)
      BY <3>1
    <3>3. joined[i] = joined[i - 1] \o seqs[i]
      BY <1>3, <3>2 DEF IsJoining
    <3>. QED  BY <1>2, <1>3, <3>1, <3>2, <3>3
  <2>2. r[i - 1] = Run(parser, opened, joined[i - 1]) /\ r[i] = Run(parser, opened, joined[i])
    BY <2>1
  <2>. HIDE DEF r
  <2>3. r[i] = Run(parser, r[i - 1], seqs[i])
    BY <2>1, <2>2, RunOn
  <2>4. Parser(r[i - 1])
    <3>1. Ahead(opened.output, Run(parser, Bare(opened), joined[i - 1]), Run(parser, opened, joined[i - 1]))
      BY <1>4, <1>6, <2>1, RunAdds
    <3>. QED  BY <2>2, <3>1, AheadFacts
  <2>5. Ahead(r[i - 1].output, Run(parser, Bare(r[i - 1]), seqs[i]), r[i])
    BY <1>4, <2>1, <2>3, <2>4, RunAdds
  <2>. QED  BY <2>1, <2>5 DEF After, parser
<1>9. Detect(language, file) = r[Len(statements)].output
  <2>1. Tokens(language, file) = Opening[language] \o joined[Len(statements)]
    BY <1>2, <1>3 DEF Tokens, seqs
  <2>2. IsSequence(joined[Len(statements)])
    BY <1>1, <1>2, <1>3
  <2>3. Run(parser, Begun(language, file), Tokens(language, file)) = Run(parser, opened, joined[Len(statements)])
    BY <1>4, <2>1, <2>2, RunOn DEF opened
  <2>4. r[Len(statements)] = Run(parser, opened, joined[Len(statements)])
    BY <1>1
  <2>. HIDE DEF r
  <2>. QED  BY <2>3, <2>4, DetectIsRun DEF parser
<1>. HIDE DEF r
<1>. QED  BY <1>5, <1>7, <1>8, <1>9 DEF IsReading, parser

(* The states that the tokens before the first statement may leave.          *)
LEMMA OpensFacts ==
  ASSUME NEW language \in Parsed, NEW file, NEW r, IsReading(r, language, file),
         NEW states, Opens(language, Opening[language], states)
  PROVE  Parser(r[0]) /\ Bare(r[0]) \in states /\ r[0].output = Named(language, file)
<1>. DEFINE opened == Run(Machine(language), Start, Opening[language])
<1>1. opened \in states /\ opened.output = <<>>
  BY DEF Opens
<1>2. Ahead(Named(language, file), opened, r[0])
  BY DEF IsReading
<1>. HIDE DEF opened
<1>3. Parser(opened) /\ Parser(r[0]) /\ Bare(r[0]) = Bare(opened) /\ r[0].output = Named(language, file) \o opened.output
  BY <1>2, AheadFacts
<1>4. Bare(opened) = opened
  BY <1>1, <1>3 DEF Bare, Parser
<1>5. Named(language, file) \o <<>> = Named(language, file)
  BY BegunFacts, Concatenation
<1>. QED  BY <1>1, <1>3, <1>4, <1>5

(* What a reader takes from a file, one statement after another.             *)
LEMMA ImportsFacts ==
  ASSUME NEW language, NEW file, IsFile(file)
  PROVE  \E d : /\ d[0] = <<>>
                /\ \A i \in 1 .. Len(file.statements) : d[i] = d[i - 1] \o file.statements[i].deps
                /\ \A i \in 0 .. Len(file.statements) : IsSequence(d[i])
                /\ Imports(language, file) = Named(language, file) \o d[Len(file.statements)]
<1>. DEFINE statements == file.statements
            seqs == [i \in DOMAIN statements |-> statements[i].deps]
<1>1. /\ DOMAIN statements = 1 .. Len(statements) /\ Len(statements) \in Nat
      /\ \A i \in 1 .. Len(statements) : statements[i] \in Range(statements)
  BY LenProperties DEF IsFile, IsSequence, Range
<1>2. /\ IsSequence(seqs) /\ Len(seqs) = Len(statements)
      /\ \A i \in 1 .. Len(statements) : seqs[i] = statements[i].deps /\ IsSequence(seqs[i])
  <2>1. seqs \in Seq({s.deps : s \in Range(statements)}) /\ Len(seqs) = Len(statements)
    BY <1>1
  <2>. QED  BY <1>1, <2>1, OwnType DEF IsFile
<1>3. PICK d : /\ IsJoining(d, seqs) /\ FlattenSeq(seqs) = d[Len(seqs)]
               /\ \A i \in 0 .. Len(seqs) : IsSequence(d[i])
  <2>. HIDE DEF seqs
  <2>. QED  BY <1>2, FlattenFacts
<1>4. Imports(language, file) = Named(language, file) \o d[Len(statements)]
  BY <1>2, <1>3 DEF Imports, Named
<1>. HIDE DEF seqs
<1>5. \A i \in 1 .. Len(statements) : d[i] = d[i - 1] \o statements[i].deps
  BY <1>2, <1>3 DEF IsJoining
<1>6. d[0] = <<>> /\ \A i \in 0 .. Len(statements) : IsSequence(d[i])
  BY <1>2, <1>3 DEF IsJoining
<1>. QED  BY <1>4, <1>5, <1>6

(* Statement i of a file, and the states of the parser around it.            *)
LEMMA ReadingFacts ==
  ASSUME NEW language \in Parsed, NEW file, IsFile(file), NEW r, IsReading(r, language, file),
         NEW i \in Nat, i + 1 <= Len(file.statements)
  PROVE  /\ i + 1 \in DOMAIN file.statements /\ file.statements[i + 1] \in Range(file.statements)
         /\ Ahead(r[i].output, After(language, Bare(r[i]), file.statements[i + 1]), r[i + 1])
<1>1. DOMAIN file.statements = 1 .. Len(file.statements) /\ Len(file.statements) \in Nat
  BY LenProperties DEF IsFile, IsSequence
<1>2. i + 1 \in 1 .. Len(file.statements) /\ (i + 1) - 1 = i
  BY <1>1
<1>3. Ahead(r[i].output, After(language, Bare(r[i]), file.statements[i + 1]), r[i + 1])
  BY <1>2 DEF IsReading
<1>. QED  BY <1>1, <1>2, <1>3 DEF Range

(* Regular statements one after another yield their dependencies.            *)
LEMMA RegularFile ==
  ASSUME NEW language \in Parsed, NEW file, IsFile(file), Regular(file),
         Range(file.statements) \subseteq Statements[language],
         NEW between, Separable(Opening, Statements, between)
  PROVE  Detect(language, file) = Imports(language, file)
<1>. DEFINE statements == file.statements
            named == Named(language, file)
<1>1. PICK r : IsReading(r, language, file)
  BY ReadingExists
<1>2. PICK d : /\ d[0] = <<>>
               /\ \A i \in 1 .. Len(statements) : d[i] = d[i - 1] \o statements[i].deps
               /\ \A i \in 0 .. Len(statements) : IsSequence(d[i])
               /\ Imports(language, file) = named \o d[Len(statements)]
  BY ImportsFacts
<1>3. Len(statements) \in Nat /\ IsSequence(named)
  BY BegunFacts DEF IsFile, IsSequence
<1>4. /\ Opens(language, Opening[language], between[language])
      /\ \A p \in between[language] : \A s \in Statements[language] :
           s.regular => /\ Bare(After(language, p, s)) \in between[language]
                        /\ After(language, p, s).output = s.deps
  BY DEF Separable
<1>. DEFINE S == {i \in Nat : i <= Len(statements) =>
                     Bare(r[i]) \in between[language] /\ r[i].output = named \o d[i]}
<1>5. 0 \in S
  <2>1. Bare(r[0]) \in between[language] /\ r[0].output = named
    BY <1>1, <1>4, OpensFacts
  <2>2. named \o d[0] = named
    BY <1>2, <1>3, Concatenation
  <2>. QED  BY <2>1, <2>2
<1>6. ASSUME NEW i \in Nat, i \in S PROVE i + 1 \in S
  <2>. SUFFICES ASSUME i + 1 <= Len(statements)
                PROVE  Bare(r[i + 1]) \in between[language] /\ r[i + 1].output = named \o d[i + 1]
    OBVIOUS
  <2>. DEFINE s == statements[i + 1]  q == After(language, Bare(r[i]), s)
  <2>1. Bare(r[i]) \in between[language] /\ r[i].output = named \o d[i]
    BY <1>3, <1>6
  <2>2. /\ i + 1 \in DOMAIN statements /\ s \in Range(statements)
        /\ Bare(r[i + 1]) = Bare(q) /\ r[i + 1].output = r[i].output \o q.output
    <3>1. i + 1 \in DOMAIN statements /\ s \in Range(statements) /\ Ahead(r[i].output, q, r[i + 1])
      BY <1>1, ReadingFacts
    <3>. HIDE DEF q, s
    <3>. QED  BY <3>1, AheadFacts
  <2>3. Bare(q) \in between[language] /\ q.output = s.deps
    BY <1>4, <2>1, <2>2 DEF Regular
  <2>4. d[i + 1] = d[i] \o s.deps /\ IsSequence(d[i]) /\ IsSequence(s.deps)
    <3>1. i + 1 \in 1 .. Len(statements) /\ (i + 1) - 1 = i /\ i \in 0 .. Len(statements)
      BY <1>3
    <3>. QED  BY <1>2, <2>2, <3>1 DEF IsFile
  <2>. HIDE DEF q, s, named
  <2>5. (named \o d[i]) \o s.deps = named \o (d[i] \o s.deps)
    <3>1. PICK x : x = d[i]
      OBVIOUS
    <3>2. PICK y : y = s.deps
      OBVIOUS
    <3>3. PICK z : z = named
      OBVIOUS
    <3>4. IsSequence(x) /\ IsSequence(y) /\ IsSequence(z)
      BY <1>3, <2>4, <3>1, <3>2, <3>3
    <3>5. (z \o x) \o y = z \o (x \o y)
      BY <3>4, InTurn
    <3>. QED  BY <3>1, <3>2, <3>3, <3>5
  <2>. QED  BY <2>1, <2>2, <2>3, <2>4, <2>5
<1>7. Nat \subseteq S
  <2>. HIDE DEF S
  <2>. QED  BY <1>5, <1>6, Induction
<1>8. r[Len(statements)].output = named \o d[Len(statements)]
  <2>1. Len(statements) \in S /\ Len(statements) <= Len(statements)
    BY <1>3, <1>7
  <2>. HIDE DEF statements, named
  <2>. QED  BY <2>1
<1>. QED  BY <1>1, <1>2, <1>8 DEF IsReading

(* Sequences that end in another one.                                        *)
LEMMA EndsInFacts ==
  ASSUME NEW x, NEW last, IsSequence(x), IsSequence(last)
  PROVE  /\ EndsIn(x \o last, last)
         /\ EndsIn(x, last) => \E y : IsSequence(y) /\ x = y \o last
<1>1. Len(x) \in Nat /\ x \in Seq(Range(x))
  BY DEF IsSequence
<1>2. EndsIn(x \o last, last)
  <2>1. PICK z : z = x \o last
    OBVIOUS
  <2>2. /\ IsSequence(z) /\ Len(z) = Len(x) + Len(last) /\ Len(last) \in Nat
        /\ \A i \in 1 .. Len(x) : z[i] = x[i]
    BY <2>1, Concatenation DEF IsSequence
  <2>3. /\ SubSeq(z, 1, Len(x)) = [i \in 1 .. Len(x) |-> z[i]]
        /\ x = [i \in 1 .. Len(x) |-> x[i]]
    BY <1>1, <2>2 DEF IsSequence
  <2>4. SubSeq(z, 1, Len(x)) = x
    BY <2>2, <2>3
  <2>5. Len(x) \in 0 .. Len(z) /\ z = SubSeq(z, 1, Len(x)) \o last
    BY <1>1, <2>1, <2>2, <2>4
  <2>. QED  BY <2>1, <2>5 DEF EndsIn
<1>3. ASSUME EndsIn(x, last) PROVE \E y : IsSequence(y) /\ x = y \o last
  <2>1. PICK m \in 0 .. Len(x) : x = SubSeq(x, 1, m) \o last
    BY <1>3 DEF EndsIn
  <2>2. PICK y : y = SubSeq(x, 1, m)
    OBVIOUS
  <2>3. y \in Seq(Range(x))
    BY <1>1, <2>1, <2>2
  <2>. QED  BY <2>1, <2>2, <2>3, OwnType
<1>. QED  BY <1>2, <1>3

(* What the statements of a file name from statement i on.                   *)
LEMMA DepsFromFacts ==
  ASSUME NEW file, IsFile(file), NEW i \in DOMAIN file.statements
  PROVE  \E d : /\ d[0] = <<>>
                /\ \A j \in 1 .. Len(file.statements) :
                     d[j] = d[j - 1] \o (IF j < i THEN <<>> ELSE file.statements[j].deps)
                /\ \A j \in 0 .. Len(file.statements) : IsSequence(d[j])
                /\ DepsFrom(file.statements, i) = d[Len(file.statements)]
<1>. DEFINE statements == file.statements
            seqs == [j \in DOMAIN statements |-> IF j < i THEN <<>> ELSE statements[j].deps]
<1>1. /\ DOMAIN statements = 1 .. Len(statements) /\ Len(statements) \in Nat
      /\ \A j \in 1 .. Len(statements) : statements[j] \in Range(statements)
  BY LenProperties DEF IsFile, IsSequence, Range
<1>2. /\ IsSequence(seqs) /\ Len(seqs) = Len(statements)
      /\ \A j \in 1 .. Len(statements) :
           seqs[j] = (IF j < i THEN <<>> ELSE statements[j].deps) /\ IsSequence(seqs[j])
  <2>1. seqs \in Seq({<<>>} \cup {s.deps : s \in Range(statements)}) /\ Len(seqs) = Len(statements)
    BY <1>1
  <2>2. \A s \in Range(statements) : IsSequence(s.deps)
    BY DEF IsFile
  <2>3. IsSequence(<<>>)
    BY Tuples
  <2>4. IsSequence(seqs)
    BY <2>1, OwnType
  <2>. QED  BY <1>1, <2>1, <2>2, <2>3, <2>4
<1>3. PICK d : /\ IsJoining(d, seqs) /\ FlattenSeq(seqs) = d[Len(seqs)]
               /\ \A j \in 0 .. Len(seqs) : IsSequence(d[j])
  <2>. HIDE DEF seqs
  <2>. QED  BY <1>2, FlattenFacts
<1>4. DepsFrom(statements, i) = d[Len(statements)]
  BY <1>2, <1>3 DEF DepsFrom
<1>. HIDE DEF seqs
<1>5. \A j \in 1 .. Len(statements) : d[j] = d[j - 1] \o (IF j < i THEN <<>> ELSE statements[j].deps)
  BY <1>2, <1>3 DEF IsJoining
<1>6. d[0] = <<>> /\ \A j \in 0 .. Len(statements) : IsSequence(d[j])
  BY <1>2, <1>3 DEF IsJoining
<1>. QED  BY <1>4, <1>5, <1>6

(* From a regular import on, if all statements are regular, a file yields    *)
(* what they name.                                                           *)
LEMMA ResumedFile ==
  ASSUME NEW language \in Parsed \ Gluing, NEW file, IsFile(file),
         Range(file.statements) \subseteq Statements[language],
         NEW between, Separable(Opening, Statements, between),
         NEW anywhere, Recovering(Opening, Statements, between, anywhere),
         NEW i \in DOMAIN file.statements, file.statements[i].deps # <<>>,
         \A j \in DOMAIN file.statements : j >= i => file.statements[j].regular
  PROVE  EndsIn(Detect(language, file), DepsFrom(file.statements, i))
<1>. DEFINE statements == file.statements
<1>0. language \in Parsed /\ language \in Parsed \ Gluing
  OBVIOUS
<1>1. PICK r : IsReading(r, language, file)
  BY <1>0, ReadingExists
<1>2. PICK d : /\ d[0] = <<>>
               /\ \A j \in 1 .. Len(statements) : d[j] = d[j - 1] \o (IF j < i THEN <<>> ELSE statements[j].deps)
               /\ \A j \in 0 .. Len(statements) : IsSequence(d[j])
               /\ DepsFrom(statements, i) = d[Len(statements)]
  BY DepsFromFacts
<1>3. Len(statements) \in Nat /\ DOMAIN statements = 1 .. Len(statements) /\ i \in 1 .. Len(statements)
  BY LenProperties DEF IsFile, IsSequence
<1>4. \A p \in between[language] : \A s \in Statements[language] :
        s.regular => /\ Bare(After(language, p, s)) \in between[language]
                     /\ After(language, p, s).output = s.deps
  BY <1>0 DEF Separable
<1>5. /\ Opens(language, Opening[language], anywhere[language])
      /\ \A p \in anywhere[language] : \A s \in Statements[language] :
           /\ Bare(After(language, p, s)) \in anywhere[language]
           /\ s.regular /\ s.deps # <<>> => /\ Bare(After(language, p, s)) \in between[language]
                                           /\ EndsIn(After(language, p, s).output, s.deps)
  BY <1>0 DEF Recovering
<1>. DEFINE Found(m) == \E x : IsSequence(x) /\ r[m].output = x \o d[m]
            Good(m) == /\ Bare(r[m]) \in anywhere[language]
                       /\ m < i => d[m] = <<>>
                       /\ m >= i => Bare(r[m]) \in between[language] /\ Found(m)
            S == {m \in Nat : m <= Len(statements) => Good(m)}
<1>6. 0 \in S
  <2>1. Bare(r[0]) \in anywhere[language]
    BY <1>0, <1>1, <1>5, OpensFacts
  <2>2. 0 < i /\ ~(0 >= i)
    BY <1>3
  <2>. QED  BY <1>2, <2>1, <2>2
<1>7. ASSUME NEW m \in Nat, m \in S PROVE m + 1 \in S
  <2>. SUFFICES ASSUME m + 1 <= Len(statements) PROVE Good(m + 1)
    OBVIOUS
  <2>. DEFINE s == statements[m + 1]  q == After(language, Bare(r[m]), s)
  <2>1. Good(m)
    BY <1>3, <1>7
  <2>2. /\ m + 1 \in DOMAIN statements /\ s \in Range(statements) /\ Parser(q) /\ IsSequence(r[m].output)
        /\ Bare(r[m + 1]) = Bare(q) /\ r[m + 1].output = r[m].output \o q.output
    <3>1. m + 1 \in DOMAIN statements /\ s \in Range(statements) /\ Ahead(r[m].output, q, r[m + 1])
      BY <1>0, <1>1, ReadingFacts
    <3>. HIDE DEF q, s
    <3>. QED  BY <3>1, AheadFacts DEF Ahead
  <2>3. Bare(q) \in anywhere[language]
    BY <1>5, <2>1, <2>2
  <2>4. /\ d[m + 1] = d[m] \o (IF m + 1 < i THEN <<>> ELSE s.deps)
        /\ IsSequence(d[m]) /\ IsSequence(s.deps) /\ IsSequence(q.output)
    <3>1. m + 1 \in 1 .. Len(statements) /\ (m + 1) - 1 = m /\ m \in 0 .. Len(statements)
      BY <1>3
    <3>. QED  BY <1>2, <2>2, <3>1 DEF IsFile, Parser
  <2>5. CASE m + 1 < i
    <3>1. d[m] = <<>> /\ d[m + 1] = <<>> \o <<>>
      BY <1>3, <2>1, <2>4, <2>5
    <3>2. <<>> \o <<>> = <<>>
      BY Tuples, Concatenation
    <3>3. ~(m + 1 >= i)
      BY <1>3, <2>5
    <3>. HIDE DEF q, s
    <3>. QED  BY <2>2, <2>3, <3>1, <3>2, <3>3
  <2>6. CASE m + 1 = i
    <3>1. s.regular /\ s.deps # <<>>
      BY <1>3, <2>2, <2>6
    <3>2. Bare(q) \in between[language] /\ EndsIn(q.output, s.deps)
      BY <1>5, <2>1, <2>2, <3>1
    <3>3. d[m + 1] = s.deps
      <4>1. d[m] = <<>> /\ ~(m + 1 < i)
        BY <1>3, <2>1, <2>6
      <4>2. <<>> \o s.deps = s.deps
        BY <2>4, Tuples, Concatenation
      <4>. QED  BY <2>4, <4>1, <4>2
    <3>. HIDE DEF q, s
    <3>4. PICK z : z = s.deps
      OBVIOUS
    <3>5. PICK o : o = q.output
      OBVIOUS
    <3>6. PICK x : x = r[m].output
      OBVIOUS
    <3>7. IsSequence(x) /\ IsSequence(o) /\ IsSequence(z)
      BY <2>2, <2>4, <3>4, <3>5, <3>6
    <3>8. EndsIn(o, z)
      BY <3>2, <3>4, <3>5
    <3>9. \E y : IsSequence(y) /\ o = y \o z
      BY <3>7, <3>8, EndsInFacts
    <3>10. PICK y : IsSequence(y) /\ o = y \o z
      BY <3>9
    <3>11. IsSequence(x \o y) /\ (x \o y) \o z = x \o (y \o z)
      <4>1. IsSequence(x \o y)
        BY <3>7, <3>10, Concatenation
      <4>2. IsSequence(x) /\ IsSequence(y) /\ IsSequence(z)
        BY <3>7, <3>10
      <4>3. (x \o y) \o z = x \o (y \o z)
        BY <4>2, InTurn
      <4>. QED  BY <4>1, <4>3
    <3>12. Found(m + 1)
      BY <2>2, <3>3, <3>4, <3>5, <3>6, <3>10, <3>11
    <3>13. ~(m + 1 < i)
      BY <1>3, <2>6
    <3>. HIDE DEF Found
    <3>. QED  BY <2>2, <2>3, <3>2, <3>12, <3>13
  <2>7. CASE m + 1 > i
    <3>1. m >= i /\ s.regular /\ ~(m + 1 < i)
      BY <1>3, <2>2, <2>7
    <3>2. Bare(q) \in between[language] /\ q.output = s.deps
      BY <1>4, <2>1, <2>2, <3>1
    <3>3. d[m + 1] = d[m] \o s.deps
      BY <2>4, <3>1
    <3>4. PICK x : IsSequence(x) /\ r[m].output = x \o d[m]
      BY <2>1, <3>1
    <3>. HIDE DEF q, s
    <3>5. PICK y : y = d[m]
      OBVIOUS
    <3>6. PICK z : z = s.deps
      OBVIOUS
    <3>7. IsSequence(x) /\ IsSequence(y) /\ IsSequence(z)
      BY <2>4, <3>4, <3>5, <3>6
    <3>8. (x \o y) \o z = x \o (y \o z)
      BY <3>7, InTurn
    <3>9. Found(m + 1)
      BY <2>2, <3>2, <3>3, <3>4, <3>5, <3>6, <3>8
    <3>10. ~(m + 1 < i)
      BY <1>3, <2>7
    <3>11. Bare(r[m + 1]) \in anywhere[language] /\ Bare(r[m + 1]) \in between[language]
      BY <2>2, <2>3, <3>2
    <3>. HIDE DEF Found
    <3>. QED  BY <3>9, <3>10, <3>11
  <2>8. m + 1 < i \/ m + 1 = i \/ m + 1 > i
    BY <1>3
  <2>. HIDE DEF Good
  <2>. QED  BY <2>5, <2>6, <2>7, <2>8
<1>8. Nat \subseteq S
  <2>. HIDE DEF S
  <2>. QED  BY <1>6, <1>7, Induction
<1>9. PICK x : IsSequence(x) /\ r[Len(statements)].output = x \o d[Len(statements)]
  <2>1. Len(statements) >= i
    BY <1>3
  <2>2. Len(statements) \in S
    <3>. HIDE DEF S
    <3>. QED  BY <1>3, <1>8
  <2>3. Good(Len(statements))
    <3>. HIDE DEF Good
    <3>. QED  BY <1>3, <2>2
  <2>. QED  BY <2>1, <2>3
<1>10. PICK y : y = d[Len(statements)]
  OBVIOUS
<1>11. EndsIn(x \o y, y)
  <2>1. IsSequence(y)
    BY <1>2, <1>3, <1>10
  <2>. QED  BY <1>9, <2>1, EndsInFacts
<1>. QED  BY <1>1, <1>2, <1>9, <1>10, <1>11 DEF IsReading

(* What a regular statement names is found, whatever stands before it.       *)
LEMMA CompleteStatement ==
  ASSUME NEW language \in Parsed \ Gluing, NEW file, IsFile(file),
         Range(file.statements) \subseteq Statements[language],
         NEW between, NEW anywhere, Recovering(Opening, Statements, between, anywhere),
         NEW j \in DOMAIN file.statements, file.statements[j].regular
  PROVE  Range(file.statements[j].deps) \subseteq Range(Detect(language, file))
<1>. DEFINE statements == file.statements
<1>0. language \in Parsed
  OBVIOUS
<1>1. PICK r : IsReading(r, language, file)
  BY ReadingExists
<1>2. DOMAIN statements = 1 .. Len(statements) /\ Len(statements) \in Nat
  BY LenProperties DEF IsFile, IsSequence
<1>3. /\ Opens(language, Opening[language], anywhere[language])
      /\ \A p \in anywhere[language] : \A s \in Statements[language] :
           /\ Bare(After(language, p, s)) \in anywhere[language]
           /\ s.regular /\ s.deps # <<>> => EndsIn(After(language, p, s).output, s.deps)
  BY DEF Recovering
<1>. DEFINE S == {i \in Nat : i <= Len(statements) =>
                     /\ Bare(r[i]) \in anywhere[language]
                     /\ j <= i => Range(statements[j].deps) \subseteq Range(r[i].output)}
<1>4. 0 \in S
  <2>1. Bare(r[0]) \in anywhere[language]
    BY <1>0, <1>1, <1>3, OpensFacts
  <2>2. ~(j <= 0)
    BY <1>2
  <2>. QED  BY <2>1, <2>2
<1>5. ASSUME NEW i \in Nat, i \in S PROVE i + 1 \in S
  <2>. SUFFICES ASSUME i + 1 <= Len(statements)
                PROVE  /\ Bare(r[i + 1]) \in anywhere[language]
                       /\ j <= i + 1 => Range(statements[j].deps) \subseteq Range(r[i + 1].output)
    OBVIOUS
  <2>. DEFINE s == statements[i + 1]  q == After(language, Bare(r[i]), s)
  <2>1. /\ Bare(r[i]) \in anywhere[language]
        /\ j <= i => Range(statements[j].deps) \subseteq Range(r[i].output)
    BY <1>2, <1>5
  <2>2. /\ i + 1 \in DOMAIN statements /\ s \in Range(statements) /\ Bare(r[i + 1]) = Bare(q)
        /\ Range(r[i + 1].output) = Range(r[i].output) \cup Range(q.output) /\ Parser(q)
    <3>1. i + 1 \in DOMAIN statements /\ s \in Range(statements) /\ Ahead(r[i].output, q, r[i + 1])
      BY <1>0, <1>1, ReadingFacts
    <3>. HIDE DEF q, s
    <3>. QED  BY <3>1, AheadFacts DEF Ahead
  <2>3. Bare(q) \in anywhere[language] /\ (s.regular => Range(s.deps) \subseteq Range(q.output))
    <3>1. /\ Bare(q) \in anywhere[language]
          /\ s.regular /\ s.deps # <<>> => EndsIn(q.output, s.deps)
      BY <1>3, <2>1, <2>2
    <3>2. IsSequence(q.output) /\ IsSequence(s.deps)
      BY <2>2 DEF Parser, IsFile
    <3>. HIDE DEF q, s
    <3>3. ASSUME EndsIn(q.output, s.deps) PROVE Range(s.deps) \subseteq Range(q.output)
      <4>1. PICK y : IsSequence(y) /\ q.output = y \o s.deps
        BY <3>2, <3>3, EndsInFacts
      <4>2. Range(y \o s.deps) = Range(y) \cup Range(s.deps)
        BY <3>2, <4>1, Concatenation
      <4>. QED  BY <4>1, <4>2
    <3>4. s.deps = <<>> => Range(s.deps) = {}
      BY DEF Range
    <3>. QED  BY <3>1, <3>3, <3>4
  <2>4. j <= i \/ j = i + 1 \/ ~(j <= i + 1)
    BY <1>2
  <2>. HIDE DEF q
  <2>. QED  BY <2>1, <2>2, <2>3, <2>4
<1>6. Nat \subseteq S
  <2>. HIDE DEF S
  <2>. QED  BY <1>4, <1>5, Induction
<1>7. Range(statements[j].deps) \subseteq Range(r[Len(statements)].output)
  <2>1. Len(statements) \in S
    BY <1>2, <1>6
  <2>. QED  BY <1>2, <2>1
<1>. QED  BY <1>1, <1>7 DEF IsReading

-----------------------------------------------------------------------------
(* The filter                                                                *)

(* Where something first occurs.                                             *)
LEMMA FirstAtFacts ==
  ASSUME NEW deps, IsSequence(deps), NEW dep \in Range(deps)
  PROVE  /\ FirstAt(deps, dep) \in 1 .. Len(deps) /\ deps[FirstAt(deps, dep)] = dep
         /\ \A i \in 1 .. Len(deps) : deps[i] = dep => FirstAt(deps, dep) <= i
<1>. DEFINE T == {i \in DOMAIN deps : deps[i] = dep}
<1>1. DOMAIN deps = 1 .. Len(deps) /\ Len(deps) \in Nat
  BY LenProperties DEF IsSequence
<1>2. T \subseteq Nat /\ T # {}
  BY <1>1 DEF Range
<1>3. Min(T) \in T /\ \A i \in T : Min(T) <= i
  <2>. HIDE DEF T
  <2>. QED  BY <1>2, LeastNumber DEF Min
<1>. QED  BY <1>1, <1>3 DEF FirstAt

(* The filter sees one more.                                                 *)
LEMMA FilterOne ==
  ASSUME NEW found, NEW deps, NEW m, FilteredUpTo(found, deps, m), m < Len(deps),
         Len(found) < maxDependenciesCount, NEW more,
         more = IF /\ deps[m + 1] \notin Range(found) /\ deps[m + 1] # <<>>
                   /\ Len(deps[m + 1]) <= maxDependencyLength
                THEN Append(found, deps[m + 1]) ELSE found
  PROVE  FilteredUpTo(more, deps, m + 1)
<1>. DEFINE dep == deps[m + 1]
<1>1. /\ IsSequence(deps) /\ IsSequence(found) /\ m \in Nat /\ Len(deps) \in Nat /\ Len(found) \in Nat
      /\ DOMAIN deps = 1 .. Len(deps) /\ DOMAIN found = 1 .. Len(found) /\ maxDependenciesCount \in Nat
      /\ m + 1 \in 1 .. Len(deps)
  BY LimitAssumption DEF FilteredUpTo, IsSequence
<1>2. dep \in Range(deps)
  BY <1>1 DEF Range
<1>3. Range(found) = {d \in Admissible(deps) : FirstAt(deps, d) <= m}
  BY DEF FilteredUpTo
<1>4. \A d \in Range(deps) : FirstAt(deps, d) \in Nat /\ (FirstAt(deps, d) = m + 1 => d = dep)
  BY <1>1, FirstAtFacts
<1>5. FirstAt(deps, dep) <= m + 1
  BY <1>1, <1>2, FirstAtFacts
<1>6. CASE dep \in Admissible(deps) /\ dep \notin Range(found)
  <2>1. more = Append(found, dep)
    BY <1>6 DEF Admissible
  <2>2. FirstAt(deps, dep) = m + 1
    BY <1>1, <1>2, <1>3, <1>4, <1>5, <1>6
  <2>3. /\ IsSequence(more) /\ Len(more) = Len(found) + 1 /\ DOMAIN more = DOMAIN found \cup {Len(found) + 1}
        /\ more[Len(found) + 1] = dep /\ \A i \in DOMAIN found : more[i] = found[i]
    <3>1. IsSequence(found)
      BY <1>1
    <3>. HIDE DEF dep
    <3>2. IsSequence(more)
      BY <2>1, <3>1, SequenceAppend
    <3>3. Len(more) = Len(found) + 1
      BY <2>1, <3>1, SequenceAppend
    <3>4. DOMAIN more = DOMAIN found \cup {Len(found) + 1}
      BY <2>1, <3>1, SequenceAppend
    <3>5. more[Len(found) + 1] = dep
      BY <2>1, <3>1, SequenceAppend
    <3>6. \A i \in DOMAIN found : more[i] = found[i]
      BY <2>1, <3>1, SequenceAppend
    <3>. QED  BY <3>2, <3>3, <3>4, <3>5, <3>6
  <2>4. Range(more) = Range(found) \cup {dep}
    BY <1>1, <2>3 DEF Range
  <2>5. Range(more) = {d \in Admissible(deps) : FirstAt(deps, d) <= m + 1}
    <3>1. \A d \in Admissible(deps) : FirstAt(deps, d) <= m + 1 <=> FirstAt(deps, d) <= m \/ d = dep
      BY <1>1, <1>4, <2>2 DEF Admissible
    <3>. QED  BY <1>3, <1>6, <2>4, <3>1
  <2>6. ASSUME NEW i \in DOMAIN more, NEW j \in DOMAIN more, i < j
        PROVE  FirstAt(deps, more[i]) < FirstAt(deps, more[j])
    <3>1. i \in DOMAIN found /\ more[i] = found[i]
      BY <1>1, <2>3, <2>6
    <3>2. CASE j \in DOMAIN found
      BY <2>3, <2>6, <3>1, <3>2 DEF FilteredUpTo
    <3>3. CASE j = Len(found) + 1
      <4>1. found[i] \in Range(found)
        BY <3>1 DEF Range
      <4>2. FirstAt(deps, found[i]) <= m /\ FirstAt(deps, found[i]) \in Nat
        BY <1>3, <1>4, <4>1 DEF Admissible
      <4>. QED  BY <1>1, <2>2, <2>3, <3>1, <3>3, <4>2
    <3>. QED  BY <2>3, <3>2, <3>3
  <2>7. Len(more) <= maxDependenciesCount /\ m + 1 \in 0 .. Len(deps)
    BY <1>1, <2>3
  <2>. QED  BY <1>1, <2>3, <2>5, <2>6, <2>7 DEF FilteredUpTo
<1>7. CASE ~(dep \in Admissible(deps) /\ dep \notin Range(found))
  <2>1. more = found
    BY <1>2, <1>7 DEF Admissible
  <2>2. \A d \in Admissible(deps) : FirstAt(deps, d) <= m + 1 <=> FirstAt(deps, d) <= m
    <3>. SUFFICES ASSUME NEW d \in Admissible(deps), FirstAt(deps, d) <= m + 1, ~(FirstAt(deps, d) <= m)
                  PROVE  FALSE
      BY <1>1, <1>4 DEF Admissible
    <3>1. d = dep
      BY <1>1, <1>4 DEF Admissible
    <3>. QED  BY <1>3, <1>7, <3>1
  <2>3. Range(found) = {d \in Admissible(deps) : FirstAt(deps, d) <= m + 1}
    BY <1>3, <2>2
  <2>4. m + 1 \in 0 .. Len(deps)
    BY <1>1
  <2>. QED  BY <2>1, <2>3, <2>4 DEF FilteredUpTo
<1>. QED  BY <1>6, <1>7

(* The filter has seen all, or has kept as much as may be kept.              *)
LEMMA FilterEnd ==
  ASSUME NEW found, NEW deps, NEW m, FilteredUpTo(found, deps, m),
         m = Len(deps) \/ Len(found) >= maxDependenciesCount
  PROVE  IsFiltered(found, deps)
<1>1. /\ IsSequence(deps) /\ IsSequence(found) /\ m \in Nat /\ Len(deps) \in Nat /\ Len(found) \in Nat
      /\ maxDependenciesCount \in Nat /\ Len(found) <= maxDependenciesCount
  BY LimitAssumption DEF FilteredUpTo, IsSequence
<1>2. Range(found) = {d \in Admissible(deps) : FirstAt(deps, d) <= m}
  BY DEF FilteredUpTo
<1>3. ASSUME NEW dep \in Admissible(deps) \ Range(found)
      PROVE  /\ Len(found) = maxDependenciesCount
             /\ \A i \in DOMAIN found : FirstAt(deps, found[i]) < FirstAt(deps, dep)
  <2>1. FirstAt(deps, dep) \in 1 .. Len(deps)
    BY <1>1, FirstAtFacts DEF Admissible
  <2>2. ~(FirstAt(deps, dep) <= m)
    BY <1>2
  <2>3. Len(found) = maxDependenciesCount
    BY <1>1, <2>1, <2>2
  <2>4. ASSUME NEW i \in DOMAIN found PROVE FirstAt(deps, found[i]) < FirstAt(deps, dep)
    <3>1. found[i] \in Range(found)
      BY DEF Range
    <3>2. FirstAt(deps, found[i]) <= m /\ FirstAt(deps, found[i]) \in 1 .. Len(deps)
      BY <1>1, <1>2, <3>1, FirstAtFacts DEF Admissible
    <3>. QED  BY <1>1, <2>1, <2>2, <3>2
  <2>. QED  BY <2>3, <2>4
<1>4. Range(found) \subseteq Admissible(deps)
  BY <1>2
<1>5. \A i, j \in DOMAIN found : i < j => FirstAt(deps, found[i]) < FirstAt(deps, found[j])
  BY DEF FilteredUpTo
<1>. QED  BY <1>1, <1>3, <1>4, <1>5 DEF IsFiltered

-----------------------------------------------------------------------------
(* The loop over the heartbeats                                              *)

(* The parser of a language delivers a sequence.                             *)
LEMMA DetectIsSequence ==
  ASSUME NEW language \in Parsed, NEW file, IsFile(file)
  PROVE  IsSequence(Detect(language, file))
<1>1. PICK r : IsReading(r, language, file)
  BY ReadingExists
<1>2. Len(file.statements) \in Nat
  BY DEF IsFile, IsSequence
<1>3. Parser(r[Len(file.statements)])
  <2>1. CASE Len(file.statements) = 0
    <3>1. Ahead(Named(language, file), Run(Machine(language), Start, Opening[language]), r[0])
      BY <1>1 DEF IsReading
    <3>. QED  BY <2>1, <3>1, AheadFacts
  <2>2. CASE Len(file.statements) # 0
    <3>1. Len(file.statements) \in 1 .. Len(file.statements)
      BY <1>2, <2>2
    <3>2. PICK i : i = Len(file.statements)
      OBVIOUS
    <3>3. Ahead(r[i - 1].output, After(language, Bare(r[i - 1]), file.statements[i]), r[i])
      BY <1>1, <3>1, <3>2 DEF IsReading
    <3>. QED  BY <3>2, <3>3, AheadFacts
  <2>. QED  BY <2>1, <2>2
<1>. QED  BY <1>1, <1>3 DEF IsReading, Parser

(* The file of a heartbeat of a batch.                                       *)
LEMMA KnownFile ==
  ASSUME NEW h, Known(h)
  PROVE  IsFile(FileOf(h))
BY DEF Known, IsFile

(* Before the filter has seen anything.                                      *)
LEMMA FilterStart ==
  ASSUME NEW deps, IsSequence(deps)
  PROVE  FilteredUpTo(<<>>, deps, 0)
<1>1. IsSequence(<<>>) /\ Len(<<>>) = 0 /\ DOMAIN <<>> = {} /\ Range(<<>>) = {}
  <2>1. <<>> \in Seq({}) /\ Len(<<>>) = 0
    OBVIOUS
  <2>2. DOMAIN <<>> = {}
    BY <2>1, LenProperties
  <2>. QED  BY <2>1, <2>2, Tuples DEF Range
<1>2. 0 \in 0 .. Len(deps) /\ maxDependenciesCount \in Nat
  BY LimitAssumption DEF IsSequence
<1>3. \A dep \in Admissible(deps) : FirstAt(deps, dep) \in 1 .. Len(deps)
  BY FirstAtFacts DEF Admissible
<1>4. {dep \in Admissible(deps) : FirstAt(deps, dep) <= 0} = {}
  BY <1>2, <1>3
<1>. QED  BY <1>1, <1>2, <1>4 DEF FilteredUpTo

(* Storing dependencies changes nothing else of a heartbeat.                 *)
LEMMA OnlyDependencies ==
  ASSUME NEW h, Known(h), NEW deps, NEW new, new = [h EXCEPT !.dependencies = deps]
  PROVE  /\ new.dependencies = deps /\ FileOf(new) = FileOf(h) /\ new.language = h.language
         /\ Eligible(new) = Eligible(h) /\ Known(new)
<1>1. DOMAIN new = Field /\ new.dependencies = deps /\ \A x \in Field : x # "dependencies" => new[x] = h[x]
  BY DEF Known, Field
<1>2. /\ new.localFile = h.localFile /\ new.entity = h.entity /\ new.language = h.language
      /\ new.type = h.type /\ new.unsaved = h.unsaved /\ new.hidden = h.hidden
  BY <1>1 DEF Field
<1>3. FileOf(new) = FileOf(h)
  BY <1>2 DEF FileOf
<1>. QED  BY <1>1, <1>2, <1>3 DEF Eligible, Known

(* One element of a sequence is replaced.                                    *)
LEMMA SequenceEdit ==
  ASSUME NEW s, IsSequence(s), NEW i \in DOMAIN s, NEW e, NEW t, t = [s EXCEPT ![i] = e]
  PROVE  /\ IsSequence(t) /\ DOMAIN t = DOMAIN s /\ Len(t) = Len(s) /\ t[i] = e
         /\ \A j \in DOMAIN s : j # i => t[j] = s[j]
<1>. DEFINE R == Range(s) \cup {e}
<1>1. s \in Seq(R) /\ e \in R /\ i \in 1 .. Len(s) /\ DOMAIN s = 1 .. Len(s)
  BY SeqMonotonic, LenProperties DEF IsSequence
<1>2. t \in Seq(R) /\ Len(t) = Len(s)
  <2>. HIDE DEF R
  <2>. QED  BY <1>1
<1>. QED  BY <1>1, <1>2, OwnType

(* What a batch consists of at first.                                        *)
LEMMA Initially == Init => IInv
<1>. SUFFICES ASSUME Init PROVE IInv
  OBVIOUS
<1>1. hh \in Batch /\ IsSequence(hh) /\ n = 1 /\ pc = "detect"
  BY BatchAssumption DEF Init
<1>2. DOMAIN hh = 1 .. Len(hh) /\ Len(hh) \in Nat
  BY <1>1, LenProperties DEF IsSequence
<1>3. ASSUME NEW i \in DOMAIN hh PROVE Known(hh[i])
  <2>. DEFINE h == hh[i]
  <2>1. h \in Range(hh)
    BY DEF Range
  <2>2. /\ DOMAIN h = Field /\ IsSequence(FileOf(h).statements)
        /\ \A s \in Range(FileOf(h).statements) : IsSequence(s.tokens) /\ IsSequence(s.deps)
    BY <1>1, <2>1, BatchAssumption
  <2>. HIDE DEF h
  <2>3. ASSUME h.language \in Parsed PROVE Range(FileOf(h).statements) \subseteq Statements[h.language]
    <3>. DEFINE heartbeats == {g \in UNION {Range(batch) : batch \in Batch} : g.language = h.language}
    <3>1. h \in heartbeats
      BY <1>1, <2>1
    <3>2. Statements[h.language] = UNION {Range(FileOf(g).statements) : g \in heartbeats}
      BY <2>3 DEF Statements
    <3>. HIDE DEF heartbeats
    <3>. QED  BY <3>1, <3>2
  <2>4. Known(h)
    BY <2>2, <2>3 DEF Known
  <2>. QED  BY <2>4 DEF h
<1>4. StoredIsFiltered
  BY <1>1, <1>2 DEF StoredIsFiltered, Served
<1>. QED  BY <1>1, <1>3, <1>4 DEF IInv, Filtering

(* Nothing is stored and the loop goes on with the next heartbeat, which has *)
(* not been served.                                                          *)
LEMMA PassedOver ==
  ASSUME IInv, UNCHANGED hh, n' \in {n, n + 1}, n' = n + 1 => ~Eligible(hh[n]) \/ ~FileOf(hh[n]).readable
  PROVE  StoredIsFiltered'
<1>1. n \in Nat /\ DOMAIN hh = 1 .. Len(hh) /\ Len(hh) \in Nat
  BY LenProperties DEF IInv, IsSequence
<1>2. ASSUME NEW i \in DOMAIN hh, Served(i)' PROVE Served(i)
  BY <1>1, <1>2 DEF Served
<1>3. ASSUME NEW i \in DOMAIN hh, Served(i)'
      PROVE  IsFiltered(hh[i].dependencies, Detect(hh[i].language, FileOf(hh[i])))
  BY <1>2, <1>3 DEF IInv, StoredIsFiltered
<1>. QED  BY <1>3 DEF StoredIsFiltered

(* The parser is done, and its output is to be filtered.                     *)
LEMMA BeforeFilter ==
  ASSUME IInv, n \in DOMAIN hh, NEW output, ToFilter(output),
         hh[n].language \in Parsed => output = Detect(hh[n].language, FileOf(hh[n]))
  PROVE  IInv'
<1>1. UNCHANGED <<hh, n>> /\ parsed' = output /\ k' = 0 /\ results' = <<>>
  BY DEF ToFilter
<1>2. StoredIsFiltered'
  <2>1. n' \in {n, n + 1} /\ n' # n + 1
    BY <1>1 DEF IInv
  <2>. QED  BY <1>1, <2>1, PassedOver
<1>3. Filtering'
  <2>1. ASSUME hh[n].language \in Parsed PROVE FilteredUpTo(<<>>, output, 0)
    <3>1. IsFile(FileOf(hh[n]))
      BY KnownFile DEF IInv
    <3>2. IsSequence(Detect(hh[n].language, FileOf(hh[n])))
      BY <2>1, <3>1, DetectIsSequence
    <3>. QED  BY <2>1, <3>2, FilterStart
  <2>2. FilteredUpTo(results', parsed', k') = FilteredUpTo(<<>>, output, 0)
    BY <1>1
  <2>. QED  BY <1>1, <2>1, <2>2 DEF Filtering
<1>. QED  BY <1>1, <1>2, <1>3 DEF IInv

(* Each step preserves the invariant.                                        *)
LEMMA StepKeeps ==
  ASSUME IInv, [Next]_vars
  PROVE  IInv'
<1>0. /\ DOMAIN hh = 1 .. Len(hh) /\ Len(hh) \in Nat /\ n \in Nat \ {0}
      /\ pc = "detect" => Filtering /\ (n <= Len(hh) => n \in DOMAIN hh)
  BY LenProperties DEF IInv, IsSequence
<1>1. ASSUME UNCHANGED <<hh, parsed, k, results, pc>>, pc = "detect", n' = n + 1,
             n \in DOMAIN hh => ~Eligible(hh[n]) \/ ~FileOf(hh[n]).readable, n <= Len(hh)
      PROVE  IInv'
  <2>1. StoredIsFiltered'
    BY <1>0, <1>1, PassedOver
  <2>2. Filtering'
    BY <1>1 DEF Filtering
  <2>. QED  BY <1>0, <1>1, <2>1, <2>2 DEF IInv
<1>2. CASE Skip
  BY <1>0, <1>1, <1>2 DEF Skip, Detecting
<1>3. CASE Fail
  BY <1>0, <1>1, <1>3 DEF Fail, Detecting
<1>4. CASE Parse
  <2>1. n \in DOMAIN hh /\ ToFilter(Detect(hh[n].language, FileOf(hh[n])))
    BY <1>0, <1>4 DEF Parse, Detecting
  <2>. QED  BY <2>1, BeforeFilter
<1>5. CASE ParseName
  <2>1. n \in DOMAIN hh /\ hh[n].language \notin Parsed
    BY <1>0, <1>5 DEF ParseName, Detecting
  <2>2. PICK walk : ToFilter(ParseUnknown(FileOf(hh[n]).words, walk))
    BY <1>5 DEF ParseName
  <2>. QED  BY <2>1, <2>2, BeforeFilter
<1>6. CASE Filter
  <2>1. /\ pc = "filter" /\ pc' = pc /\ n' = n /\ hh' = hh /\ parsed' = parsed /\ k' = k + 1
        /\ k < Len(parsed) /\ Len(results) < maxDependenciesCount
        /\ results' = IF /\ parsed[k + 1] \notin Range(results) /\ parsed[k + 1] # <<>>
                         /\ Len(parsed[k + 1]) <= maxDependencyLength
                      THEN Append(results, parsed[k + 1]) ELSE results
    BY <1>6 DEF Filter, Kept
  <2>2. Filtering'
    <3>1. ASSUME hh[n].language \in Parsed PROVE FilteredUpTo(results', parsed, k + 1)
      <4>1. FilteredUpTo(results, parsed, k)
        BY <2>1, <3>1 DEF IInv, Filtering
      <4>. QED  BY <2>1, <4>1, FilterOne
    <3>. QED  BY <2>1, <3>1 DEF IInv, Filtering
  <2>3. StoredIsFiltered'
    <3>1. n' \in {n, n + 1} /\ n' # n + 1
      BY <1>0, <2>1
    <3>. QED  BY <2>1, <3>1, PassedOver
  <2>. QED  BY <2>1, <2>2, <2>3 DEF IInv
<1>7. CASE Store
  <2>. DEFINE new == [hh[n] EXCEPT !.dependencies = results]
  <2>1. /\ pc = "filter" /\ pc' = "detect" /\ n' = n + 1 /\ n \in DOMAIN hh
        /\ k = Len(parsed) \/ Len(results) >= maxDependenciesCount
        /\ hh' = [hh EXCEPT ![n] = new]
    BY <1>7 DEF Store, IInv, Filtering
  <2>2. /\ new.dependencies = results /\ FileOf(new) = FileOf(hh[n]) /\ new.language = hh[n].language
        /\ Eligible(new) = Eligible(hh[n]) /\ Known(new)
    <3>1. Known(hh[n])
      BY <2>1 DEF IInv
    <3>. QED  BY <3>1, OnlyDependencies
  <2>. HIDE DEF new
  <2>3. /\ IsSequence(hh') /\ DOMAIN hh' = DOMAIN hh /\ Len(hh') = Len(hh) /\ hh'[n] = new
        /\ \A j \in DOMAIN hh : j # n => hh'[j] = hh[j]
    <3>1. ASSUME NEW e, NEW t, t = [hh EXCEPT ![n] = e]
          PROVE  /\ IsSequence(t) /\ DOMAIN t = DOMAIN hh /\ Len(t) = Len(hh) /\ t[n] = e
                 /\ \A j \in DOMAIN hh : j # n => t[j] = hh[j]
      <4>1. IsSequence(hh)
        BY DEF IInv
      <4>2. n \in DOMAIN hh
        BY <2>1
      <4>3. IsSequence(t) /\ DOMAIN t = DOMAIN hh /\ Len(t) = Len(hh)
        <5>1. IsSequence(t)
          BY <3>1, <4>1, <4>2, SequenceEdit
        <5>2. DOMAIN t = DOMAIN hh
          BY <3>1
        <5>3. Len(t) = Len(hh)
          BY <3>1, <4>1, <4>2, SequenceEdit
        <5>. QED  BY <5>1, <5>2, <5>3
      <4>4. t[n] = e
        BY <3>1, <4>2
      <4>5. \A j \in DOMAIN hh : j # n => t[j] = hh[j]
        BY <3>1, <4>2
      <4>. QED  BY <4>3, <4>4, <4>5
    <3>. QED  BY <2>1, <3>1
  <2>4. \A j \in DOMAIN hh : Known(hh'[j])
    BY <2>2, <2>3 DEF IInv
  <2>5. ASSUME NEW i \in DOMAIN hh, Served(i)'
        PROVE  IsFiltered(hh'[i].dependencies, Detect(hh'[i].language, FileOf(hh'[i])))
    <3>1. CASE i = n
      <4>1. hh[n].language \in Parsed
        BY <2>2, <2>3, <2>5, <3>1 DEF Served
      <4>2. FilteredUpTo(results, parsed, k) /\ parsed = Detect(hh[n].language, FileOf(hh[n]))
        BY <2>1, <4>1 DEF IInv, Filtering
      <4>3. IsFiltered(results, parsed)
        BY <2>1, <4>2, FilterEnd
      <4>. QED  BY <2>2, <2>3, <3>1, <4>2, <4>3
    <3>2. CASE i # n
      <4>1. hh'[i] = hh[i]
        BY <2>3, <3>2
      <4>2. Served(i)
        BY <1>0, <2>1, <2>5, <3>2, <4>1 DEF Served
      <4>. QED  BY <4>1, <4>2 DEF IInv, StoredIsFiltered
    <3>. QED  BY <3>1, <3>2
  <2>6. StoredIsFiltered'
    BY <2>3, <2>5 DEF StoredIsFiltered
  <2>7. Filtering'
    BY <2>1 DEF Filtering
  <2>. QED  BY <1>0, <2>1, <2>3, <2>4, <2>6, <2>7 DEF IInv
<1>8. CASE PassOn
  <2>1. UNCHANGED <<hh, n>> /\ pc' = "next"
    BY <1>8 DEF PassOn
  <2>2. StoredIsFiltered'
    <3>1. n' \in {n, n + 1} /\ n' # n + 1
      BY <1>0, <2>1
    <3>. QED  BY <2>1, <3>1, PassedOver
  <2>. QED  BY <2>1, <2>2 DEF IInv, Filtering
<1>9. CASE UNCHANGED vars
  BY <1>9 DEF vars, IInv, Filtering, StoredIsFiltered, Served
<1>. QED  BY <1>2, <1>3, <1>4, <1>5, <1>6, <1>7, <1>8, <1>9 DEF Next

(* The invariant of the loop.                                                *)
LEMMA Invariant == Spec => []IInv
<1>1. Init => IInv
  BY Initially
<1>2. IInv /\ [Next]_vars => IInv'
  BY StepKeeps
<1>. QED  BY <1>1, <1>2, PTL DEF Spec

-----------------------------------------------------------------------------
(* What the detection is for                                                 *)

(* Whatever the files contain, what is stored with a heartbeat is what the   *)
(* filter lets pass of the output of the parser for the file of that         *)
(* heartbeat: nothing of another one, nothing twice, nothing out of order.   *)
THEOREM WhatIsStored == Spec => []StoredIsFiltered
<1>1. IInv => StoredIsFiltered
  BY DEF IInv
<1>. QED  BY <1>1, Invariant, PTL

(* Statement after statement, in any order and any number, a file whose      *)
(* statements are regular yields the dependencies of each of them and no     *)
(* other, if each of the statements alone does so wherever another one may   *)
(* end.                                                                      *)
THEOREM ImportsAreStored ==
  ASSUME NEW CONSTANT between, Separable(Opening, Statements, between)
  PROVE  Spec => []DepsAreTheImports
<1>1. ASSUME IInv PROVE DepsAreTheImports
  <2>. SUFFICES ASSUME NEW i \in DOMAIN hh, Served(i), Regular(FileOf(hh[i]))
                PROVE  IsFiltered(hh[i].dependencies, Imports(hh[i].language, FileOf(hh[i])))
    BY DEF DepsAreTheImports
  <2>1. /\ hh[i].language \in Parsed /\ IsFile(FileOf(hh[i]))
        /\ Range(FileOf(hh[i]).statements) \subseteq Statements[hh[i].language]
    BY <1>1, KnownFile DEF IInv, Known, Served
  <2>2. Detect(hh[i].language, FileOf(hh[i])) = Imports(hh[i].language, FileOf(hh[i]))
    BY <2>1, RegularFile
  <2>. QED  BY <1>1, <2>2 DEF IInv, StoredIsFiltered
<1>. QED  BY <1>1, Invariant, PTL

(* An interrupted import makes no parser of a language outside Gluing misread *)
(* anything beyond the next regular import, if each of the statements alone   *)
(* is read right wherever a regular one may end, and a regular import leaves  *)
(* the parser in such a state wherever an interrupted one may have ended.     *)
THEOREM InterruptionIsOver ==
  ASSUME NEW CONSTANT between, Separable(Opening, Statements, between),
         NEW CONSTANT anywhere, Recovering(Opening, Statements, between, anywhere)
  PROVE  Spec => []InterruptionEnds
<1>1. ASSUME IInv PROVE InterruptionEnds
  <2>. DEFINE file == FileOf(hh[n])
  <2>. SUFFICES ASSUME pc = "filter", hh[n].language \in Parsed \ Gluing,
                       NEW i \in DOMAIN file.statements, file.statements[i].deps # <<>>,
                       \A j \in DOMAIN file.statements : j >= i => file.statements[j].regular
                PROVE  EndsIn(parsed, DepsFrom(file.statements, i))
    BY DEF InterruptionEnds
  <2>1. n \in DOMAIN hh /\ parsed = Detect(hh[n].language, file)
    BY <1>1 DEF IInv, Filtering
  <2>2. IsFile(file) /\ Range(file.statements) \subseteq Statements[hh[n].language]
    BY <1>1, <2>1, KnownFile DEF IInv, Known
  <2>. HIDE DEF file
  <2>. QED  BY <2>1, <2>2, ResumedFile
<1>. QED  BY <1>1, Invariant, PTL

(* The next regular import is found whatever interrupted one stands before   *)
(* it, but for the languages in Gluing, if each regular statement alone is   *)
(* found wherever an interrupted one may end.                                *)
THEOREM CompleteIsFound ==
  ASSUME NEW CONSTANT between, NEW CONSTANT anywhere,
         Recovering(Opening, Statements, between, anywhere)
  PROVE  Spec => []ImportAfterInterruption
<1>1. ASSUME IInv PROVE ImportAfterInterruption
  <2>. DEFINE file == FileOf(hh[n])
  <2>. SUFFICES ASSUME pc = "filter", hh[n].language \in Parsed \ Gluing,
                       NEW i \in DOMAIN file.statements, file.statements[i].regular
                PROVE  Range(file.statements[i].deps) \subseteq Range(parsed)
    BY DEF ImportAfterInterruption
  <2>1. n \in DOMAIN hh /\ parsed = Detect(hh[n].language, file)
    BY <1>1 DEF IInv, Filtering
  <2>2. IsFile(file) /\ Range(file.statements) \subseteq Statements[hh[n].language]
    BY <1>1, <2>1, KnownFile DEF IInv, Known
  <2>. HIDE DEF file
  <2>. QED  BY <2>1, <2>2, CompleteStatement
<1>. QED  BY <1>1, Invariant, PTL

=============================================================================
