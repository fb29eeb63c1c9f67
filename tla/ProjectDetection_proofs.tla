----------------------- MODULE ProjectDetection_proofs -----------------------
(* For any file tree, any number of commands and any heartbeats: a hidden    *)
(* name stays hidden, a name in a project file is respected by whoever could *)
(* find it, and the name a project was given in place of a hidden one is in  *)
(* its project file when all is done.                                        *)
EXTENDS ProjectDetection, FiniteSetTheorems, SequenceTheorems, WellFoundedInduction, TLAPS

-----------------------------------------------------------------------------
(* Numbers                                                                   *)

(* A set of numbers that is not empty has a least one, since a set of finite *)
(* sets has a minimal one.                                                   *)
LEMMA LeastNumber ==
  ASSUME NEW T \in SUBSET Nat, T # {}
  PROVE  \E m \in T : \A k \in T : m <= k
<1>. DEFINE U == {0 .. k - 1 : k \in T}
<1>1. U \subseteq FiniteSubsetsOf(Nat) /\ U # {}
  <2>1. ASSUME NEW k \in T PROVE 0 .. k - 1 \in FiniteSubsetsOf(Nat)
    <3>1. 0 .. k - 1 \subseteq Nat
      OBVIOUS
    <3>2. IsFiniteSet(0 .. k - 1)
      BY FS_Interval
    <3>. QED  BY <3>1, <3>2 DEF FiniteSubsetsOf
  <2>. QED  BY <2>1
<1>2. PICK S \in U : \A R \in U : <<R, S>> \notin StrictSubsetOrdering(Nat)
  <2>. HIDE DEF U
  <2>. QED  BY <1>1, FS_StrictSubsetOrderingWellFounded, WFMin
<1>3. PICK m \in T : S = 0 .. m - 1
  BY <1>2
<1>4. ASSUME NEW k \in T, k < m PROVE FALSE
  <2>1. 0 .. k - 1 \subseteq 0 .. m - 1 /\ 0 .. m - 1 \subseteq Nat /\ k \in 0 .. m - 1 /\ k \notin 0 .. k - 1
    BY <1>4
  <2>2. 0 .. k - 1 \in U
    OBVIOUS
  <2>. QED  BY <1>2, <1>3, <2>1, <2>2 DEF StrictSubsetOrdering
<1>. QED  BY <1>4

(* The number of the next heartbeat.                                         *)
LEMMA NextNumber == \A k \in Nat : \A m : m = k + 1 => m \in Nat \ {0} /\ m - 1 = k
OBVIOUS

(* A set that contains 0, and the successor of each of its numbers.          *)
LEMMA Induction ==
  ASSUME NEW S, 0 \in S, \A k \in Nat : k \in S => k + 1 \in S
  PROVE  Nat \subseteq S
<1>. DEFINE T == Nat \ S
<1>. SUFFICES ASSUME T # {} PROVE FALSE
  OBVIOUS
<1>1. PICK m \in T : \A k \in T : m <= k
  <2>. HIDE DEF T
  <2>. QED  BY LeastNumber DEF T
<1>2. m # 0 /\ m - 1 \in Nat /\ m - 1 \in S
  BY <1>1
<1>. QED  BY <1>1, <1>2

-----------------------------------------------------------------------------
(* Sequences that are typed by their own elements.                           *)
LEMMA OwnType ==
  ASSUME NEW R, NEW t \in Seq(R)
  PROVE  IsSequence(t) /\ Range(t) \subseteq R
<1>1. DOMAIN t = 1 .. Len(t) /\ Len(t) \in Nat /\ t \in [1 .. Len(t) -> R]
  BY LenProperties
<1>2. \A j \in 1 .. Len(t) : t[j] \in Range(t)
  BY <1>1 DEF Range
<1>3. SubSeq(t, 1, Len(t)) \in Seq(Range(t))
  BY <1>1, <1>2, SubSeqProperties
<1>. QED  BY <1>1, <1>3, SubSeqFull DEF Range, IsSequence

(* One element is replaced.                                                  *)
LEMMA SequenceEdit ==
  ASSUME NEW s, IsSequence(s), NEW i \in 1 .. Len(s), NEW e, NEW t, t = [s EXCEPT ![i] = e]
  PROVE  /\ IsSequence(t) /\ Len(t) = Len(s) /\ DOMAIN t = DOMAIN s
         /\ t[i] = e /\ \A j \in DOMAIN s \ {i} : t[j] = s[j]
<1>. DEFINE R == Range(s) \cup {e}
<1>1. DOMAIN s = 1 .. Len(s) /\ Len(s) \in Nat
  BY LenProperties DEF IsSequence
<1>2. s \in Seq(R)
  BY SeqMonotonic DEF IsSequence
<1>3. t \in Seq(R) /\ Len(t) = Len(s)
  BY <1>2, ExceptSeq
<1>4. IsSequence(t)
  BY <1>3, OwnType
<1>5. DOMAIN t = DOMAIN s /\ t[i] = e /\ \A j \in DOMAIN s \ {i} : t[j] = s[j]
  BY <1>1
<1>. QED  BY <1>3, <1>4, <1>5

(* An element is appended.                                                   *)
LEMMA SequenceAppend ==
  ASSUME NEW s, IsSequence(s), NEW e
  PROVE  LET t == Append(s, e)
         IN  /\ IsSequence(t) /\ DOMAIN t = DOMAIN s \cup {Len(s) + 1}
             /\ t[Len(s) + 1] = e /\ \A j \in DOMAIN s : t[j] = s[j] /\ j # Len(s) + 1
<1>. DEFINE t == Append(s, e)  R == Range(s) \cup {e}
<1>1. s \in Seq(R) /\ e \in R
  BY SeqMonotonic DEF IsSequence
<1>2. /\ DOMAIN s = 1 .. Len(s) /\ Len(s) \in Nat
      /\ Len(t) = Len(s) + 1 /\ DOMAIN t = 1 .. Len(s) + 1
      /\ t[Len(s) + 1] = e /\ \A j \in DOMAIN s : t[j] = s[j]
      /\ t \in Seq(R)
  BY <1>1
<1>3. IsSequence(t)
  BY <1>2, OwnType
<1>. QED  BY <1>2, <1>3

(* A sequence begins with another.                                           *)
LEMMA SequencePart ==
  ASSUME NEW s, IsSequence(s), NEW k \in Int, k <= Len(s)
  PROVE  /\ IsSequence(SubSeq(s, 1, k)) /\ Len(SubSeq(s, 1, k)) = IF 1 <= k THEN k ELSE 0
         /\ \A j \in 1 .. k : SubSeq(s, 1, k)[j] = s[j]
<1>1. DOMAIN s = 1 .. Len(s) /\ Len(s) \in Nat /\ \A j \in 1 .. k : s[j] \in Range(s)
  BY DEF IsSequence, Range
<1>2. /\ SubSeq(s, 1, k) \in Seq(Range(s))
      /\ Len(SubSeq(s, 1, k)) = IF 1 <= k THEN k - 1 + 1 ELSE 0
      /\ \A j \in 1 .. k - 1 + 1 : SubSeq(s, 1, k)[j] = s[1 + j - 1]
  BY <1>1, SubSeqProperties
<1>3. IsSequence(SubSeq(s, 1, k))
  BY <1>2, OwnType
<1>. QED  BY <1>2, <1>3

-----------------------------------------------------------------------------
(* Paths                                                                     *)

(* The directory and the name of a path that was put together.               *)
LEMMA PathFacts ==
  ASSUME NEW s, IsSequence(s), NEW name
  PROVE  LET path == s \o <<name>>
         IN  /\ IsSequence(path) /\ path # <<>>
             /\ Dir(path) = s /\ Base(path) = name
<1>. DEFINE path == s \o <<name>>  R == Range(s) \cup {name}
<1>1. s \in Seq(R) /\ <<name>> \in Seq(R) /\ Len(s) \in Nat /\ Len(<<name>>) = 1
  BY SeqMonotonic DEF IsSequence
<1>2. /\ path \in Seq(R) /\ Len(path) = Len(s) + 1
      /\ \A i \in 1 .. Len(s) : path[i] = s[i]
      /\ path[Len(s) + 1] = name
  BY <1>1, ConcatProperties
<1>. HIDE DEF path
<1>3. IsSequence(path) /\ path # <<>>
  BY <1>1, <1>2, OwnType, EmptySeq
<1>4. Dir(path) = s
  <2>1. LET t == SubSeq(path, 1, Len(s))
        IN  t \in Seq(R) /\ Len(t) = Len(s) /\ \A i \in 1 .. Len(s) : t[i] = path[i]
    BY <1>1, <1>2, <1>3, SequencePart, SeqMonotonic DEF IsSequence, Range
  <2>2. SubSeq(path, 1, Len(s)) = s
    BY <1>1, <1>2, <2>1, SeqEqual
  <2>. QED  BY <1>1, <1>2, <1>3, <2>2 DEF Dir, Front
<1>5. Base(path) = name
  BY <1>1, <1>2, <1>3 DEF Base, Last
<1>. QED  BY <1>3, <1>4, <1>5 DEF path

(* The directory of any path is a path.                                      *)
LEMMA DirFacts ==
  ASSUME NEW path, IsSequence(path)
  PROVE  IsSequence(Dir(path))
<1>1. Len(path) \in Nat
  BY DEF IsSequence
<1>2. IsSequence(SubSeq(path, 1, Len(path) - 1))
  BY <1>1, SequencePart
<1>3. IsSequence(<<>>)
  BY DEF IsSequence
<1>. QED  BY <1>2, <1>3 DEF Dir, Front

(* Tuples are sequences.                                                     *)
LEMMA Tuples ==
  ASSUME NEW a, NEW b
  PROVE  IsSequence(<<>>) /\ IsSequence(<<a>>) /\ IsSequence(<<a, b>>)
<1>1. <<a>> \in Seq({a}) /\ <<a, b>> \in Seq({a, b}) /\ <<>> \in Seq({})
  OBVIOUS
<1>. QED  BY <1>1, OwnType

(* One sequence after another.                                               *)
LEMMA Concatenation ==
  ASSUME NEW s, NEW t, IsSequence(s), IsSequence(t)
  PROVE  IsSequence(s \o t) /\ (t # <<>> => s \o t # <<>>)
<1>1. s \in Seq(Range(s) \cup Range(t)) /\ t \in Seq(Range(s) \cup Range(t))
  BY SeqMonotonic DEF IsSequence
<1>2. IsSequence(s \o t)
  BY <1>1, ConcatProperties, OwnType
<1>3. s \o t = <<>> => t = <<>>
  BY <1>1, ConcatEqualIffEmpty
<1>. QED  BY <1>2, <1>3

(* Step i of the loop over the names of a relative path.                     *)
JoinStep(joined, i, path, rest) ==
  IF i = 0 THEN path
  ELSE IF rest[i] = ".." THEN Dir(joined[i - 1]) ELSE Append(joined[i - 1], rest[i])

(* There is a run of the loop.                                               *)
LEMMA JoinExists ==
  ASSUME NEW path, NEW rest, IsSequence(rest)
  PROVE  \E joined : joined = [i \in 0 .. Len(rest) |-> JoinStep(joined, i, path, rest)]
<1>. DEFINE Runs(m) == \E joined : joined = [i \in 0 .. m |-> JoinStep(joined, i, path, rest)]
            S == {m \in Nat : Runs(m)}
<1>1. Runs(0)
  <2>. DEFINE joined == [i \in 0 .. 0 |-> path]
  <2>1. joined = [i \in 0 .. 0 |-> JoinStep(joined, i, path, rest)]
    BY DEF JoinStep
  <2>. HIDE DEF joined
  <2>. QED  BY <2>1
<1>2. ASSUME NEW m \in Nat, Runs(m) PROVE Runs(m + 1)
  <2>1. PICK joined : joined = [i \in 0 .. m |-> JoinStep(joined, i, path, rest)]
    BY <1>2
  <2>. DEFINE more == [i \in 0 .. m + 1 |-> JoinStep(joined, i, path, rest)]
  <2>2. \A i \in 0 .. m : more[i] = joined[i]
    BY <2>1
  <2>3. \A i \in 0 .. m + 1 : JoinStep(joined, i, path, rest) = JoinStep(more, i, path, rest)
    <3>. SUFFICES ASSUME NEW i \in 0 .. m + 1, i # 0
                  PROVE  joined[i - 1] = more[i - 1]
      BY DEF JoinStep
    <3>1. i - 1 \in 0 .. m
      OBVIOUS
    <3>. HIDE DEF more
    <3>. QED  BY <2>2, <3>1
  <2>4. more = [i \in 0 .. m + 1 |-> JoinStep(more, i, path, rest)]
    BY <2>3
  <2>. HIDE DEF more
  <2>. QED  BY <2>4
<1>3. Nat \subseteq S
  <2>1. 0 \in S
    BY <1>1
  <2>2. \A m \in Nat : m \in S => m + 1 \in S
    BY <1>2
  <2>. HIDE DEF S
  <2>. QED  BY <2>1, <2>2, Induction
<1>4. Len(rest) \in S
  BY <1>3 DEF IsSequence
<1>. QED  BY <1>4

(* A path and a relative one make a path.                                    *)
LEMMA JoinFacts ==
  ASSUME NEW path, NEW rest, IsSequence(path), IsSequence(rest)
  PROVE  IsSequence(Join(path, rest))
<1>. DEFINE Run(j) == j = [i \in 0 .. Len(rest) |-> JoinStep(j, i, path, rest)]
            joined == CHOOSE j : Run(j)
<1>1. Run(joined)
  BY JoinExists
<1>2. Join(path, rest) = joined[Len(rest)]
  BY DEF Join, JoinStep
<1>. HIDE DEF joined
<1>. DEFINE S == {i \in Nat : i <= Len(rest) => IsSequence(joined[i])}
<1>3. 0 \in S
  BY <1>1 DEF JoinStep, IsSequence
<1>4. ASSUME NEW i \in Nat, i \in S PROVE i + 1 \in S
  <2>. SUFFICES ASSUME i + 1 <= Len(rest) PROVE IsSequence(joined[i + 1])
    OBVIOUS
  <2>1. Len(rest) \in Nat
    BY DEF IsSequence
  <2>2. IsSequence(joined[i])
    BY <1>4, <2>1
  <2>3. joined[i + 1] = JoinStep(joined, i + 1, path, rest)
    BY <1>1, <2>1
  <2>4. joined[i + 1] = IF rest[i + 1] = ".." THEN Dir(joined[i]) ELSE Append(joined[i], rest[i + 1])
    BY <2>3 DEF JoinStep
  <2>. QED  BY <2>2, <2>4, DirFacts, SequenceAppend
<1>5. Nat \subseteq S
  <2>. HIDE DEF S
  <2>. QED  BY <1>3, <1>4, Induction
<1>6. Len(rest) \in S
  BY <1>5 DEF IsSequence
<1>. QED  BY <1>2, <1>6 DEF IsSequence

-----------------------------------------------------------------------------
(* Searches                                                                  *)

(* The least and the greatest of some numbers.                               *)
LEMMA MinFacts ==
  ASSUME NEW T \in SUBSET Nat, T # {}
  PROVE  Min(T) \in T /\ \A k \in T : Min(T) <= k
BY LeastNumber DEF Min

LEMMA MaxFacts ==
  ASSUME NEW m \in Nat, NEW T \in SUBSET (0 .. m), T # {}
  PROVE  Max(T) \in T /\ \A k \in T : Max(T) >= k
<1>. DEFINE U == {m - k : k \in T}
<1>1. U \subseteq Nat /\ U # {}
  <2>1. \A k \in T : k \in 0 .. m /\ m - k \in Nat
    OBVIOUS
  <2>2. PICK k \in T : TRUE
    OBVIOUS
  <2>. QED  BY <2>1, <2>2
<1>2. PICK l \in U : \A k \in U : l <= k
  <2>. HIDE DEF U
  <2>. QED  BY <1>1, LeastNumber
<1>3. PICK g \in T : l = m - g
  BY <1>2
<1>4. \A k \in T : m - k \in U
  OBVIOUS
<1>5. ASSUME NEW k \in T PROVE g >= k
  <2>1. m - g <= m - k
    BY <1>2, <1>3, <1>4
  <2>2. k \in 0 .. m /\ g \in 0 .. m
    OBVIOUS
  <2>. HIDE DEF U
  <2>. QED  BY <2>1, <2>2
<1>. QED  BY <1>5 DEF Max

(* It is there after so many names of a path, not too far up.                *)
There(directory, filename, i) ==
  /\ Len(directory) - i < maxRecursiveIteration
  /\ fileExists(SubSeq(directory, 1, i) \o filename)

(* A search finds the nearest of what is there.                              *)
LEMMA SearchFacts ==
  ASSUME NEW directory, IsSequence(directory), NEW filename, IsSequence(filename), filename # <<>>,
         NEW found, found = FindFileOrDirectory(directory, filename)
  PROVE  /\ IsSequence(found)
         /\ found = None => \A i \in 1 .. Len(directory) : ~There(directory, filename, i)
         /\ found # None =>
              \E i \in 1 .. Len(directory) :
                /\ There(directory, filename, i) /\ found = SubSeq(directory, 1, i) \o filename
                /\ \A j \in 1 .. Len(directory) : There(directory, filename, j) => j <= i
<1>. DEFINE depth == {i \in 1 .. Len(directory) : There(directory, filename, i)}
<1>1. Len(directory) \in Nat
  BY DEF IsSequence
<1>2. found = IF depth = {} THEN None ELSE SubSeq(directory, 1, Max(depth)) \o filename
  BY DEF FindFileOrDirectory, There
<1>3. CASE depth = {}
  BY <1>2, <1>3, Tuples DEF None
<1>4. CASE depth # {}
  <2>1. Max(depth) \in depth /\ \A j \in depth : j <= Max(depth)
    <3>1. depth \in SUBSET (0 .. Len(directory))
      BY <1>1
    <3>2. Max(depth) \in depth /\ \A j \in depth : Max(depth) >= j
      <4>. HIDE DEF depth
      <4>. QED  BY <1>1, <1>4, <3>1, MaxFacts
    <3>. QED  BY <1>1, <3>1, <3>2
  <2>2. IsSequence(SubSeq(directory, 1, Max(depth)))
    BY <1>1, <2>1, SequencePart
  <2>3. IsSequence(found) /\ found # None
    BY <1>2, <1>4, <2>2, Concatenation DEF None
  <2>. QED  BY <1>2, <1>4, <2>1, <2>3
<1>. QED  BY <1>3, <1>4

(* The first that detects something.                                         *)
LEMMA FirstOfTwo ==
  ASSUME NEW a, NEW b
  PROVE  FirstDetected(<<a, b>>) = IF a.detected THEN a ELSE IF b.detected THEN b ELSE Undetected
<1>. DEFINE detected == {i \in DOMAIN <<a, b>> : <<a, b>>[i].detected}
<1>1. /\ 1 \in detected <=> a.detected
      /\ 2 \in detected <=> b.detected
      /\ detected \subseteq {1, 2}
  OBVIOUS
<1>2. FirstDetected(<<a, b>>) = IF detected = {} THEN Undetected ELSE <<a, b>>[Min(detected)]
  BY DEF FirstDetected
<1>3. <<a, b>>[1] = a /\ <<a, b>>[2] = b
  OBVIOUS
<1>. HIDE DEF detected
<1>4. detected # {} => Min(detected) \in detected /\ \A k \in detected : Min(detected) <= k
  BY <1>1, MinFacts
<1>5. CASE a.detected
  <2>1. 1 \in detected
    BY <1>1, <1>5
  <2>2. Min(detected) \in detected /\ Min(detected) <= 1
    BY <1>4, <2>1
  <2>3. Min(detected) = 1
    <3>1. \A m \in {1, 2} : m <= 1 => m = 1
      OBVIOUS
    <3>2. detected \subseteq {1, 2}
      BY <1>1
    <3>. QED  BY <2>2, <3>1, <3>2, Zenon
  <2>. QED  BY <1>2, <1>3, <1>5, <2>1, <2>3
<1>6. CASE ~a.detected /\ b.detected
  <2>1. 2 \in detected /\ 1 \notin detected
    BY <1>1, <1>6
  <2>2. Min(detected) \in detected
    BY <1>4, <2>1
  <2>3. Min(detected) = 2
    BY <1>1, <2>1, <2>2
  <2>. QED  BY <1>2, <1>3, <1>6, <2>1, <2>3
<1>7. CASE ~a.detected /\ ~b.detected
  BY <1>1, <1>2, <1>7
<1>. QED  BY <1>5, <1>6, <1>7

(* Whatever is detected was detected by somebody.                            *)
LEMMA FirstOfMany ==
  ASSUME NEW results, IsSequence(results)
  PROVE  FirstDetected(results) \in Range(results) \cup {Undetected}
<1>. DEFINE detected == {i \in DOMAIN results : results[i].detected}
<1>1. FirstDetected(results) = IF detected = {} THEN Undetected ELSE results[Min(detected)]
  BY DEF FirstDetected
<1>2. detected \subseteq DOMAIN results /\ detected \subseteq Nat
  BY DEF IsSequence
<1>. HIDE DEF detected
<1>3. detected # {} => Min(detected) \in detected
  BY <1>2, MinFacts
<1>. QED  BY <1>1, <1>2, <1>3 DEF Range

(* The first string that is not empty, where the second is not after an      *)
(* empty first one.                                                          *)
LEMMA FirstString ==
  \A x, y, z : x # "" \/ ~(y # "") => firstNonEmptyString(<<x, y, z>>) \in {x, z}
<1>. SUFFICES ASSUME NEW x, NEW y, NEW z
              PROVE  x # "" \/ ~(y # "") => firstNonEmptyString(<<x, y, z>>) \in {x, z}
  OBVIOUS
<1>1. ASSUME NEW values, NEW m \in Nat, DOMAIN values = 1 .. m
      PROVE  \/ firstNonEmptyString(values) = "" /\ \A i \in 1 .. m : values[i] = ""
             \/ \E i \in 1 .. m : /\ firstNonEmptyString(values) = values[i] /\ values[i] # ""
                                  /\ \A j \in 1 .. m : values[j] # "" => i <= j
  <2>. DEFINE nonEmpty == {i \in DOMAIN values : values[i] # ""}
  <2>1. firstNonEmptyString(values) = IF nonEmpty = {} THEN "" ELSE values[Min(nonEmpty)]
    BY DEF firstNonEmptyString
  <2>2. nonEmpty \subseteq 1 .. m
    BY <1>1
  <2>3. nonEmpty # {} => Min(nonEmpty) \in nonEmpty /\ \A k \in nonEmpty : Min(nonEmpty) <= k
    <3>. HIDE DEF nonEmpty
    <3>. QED  BY <2>2, MinFacts
  <2>. QED  BY <1>1, <2>1, <2>3
<1>2. ASSUME NEW values, DOMAIN values = 1 .. 3
      PROVE  firstNonEmptyString(values) =
               IF values[1] # "" THEN values[1] ELSE IF values[2] # "" THEN values[2] ELSE values[3]
  <2>1. \/ firstNonEmptyString(values) = "" /\ \A i \in 1 .. 3 : values[i] = ""
        \/ \E i \in 1 .. 3 : /\ firstNonEmptyString(values) = values[i] /\ values[i] # ""
                             /\ \A j \in 1 .. 3 : values[j] # "" => i <= j
    BY <1>1, <1>2
  <2>2. /\ 1 \in 1 .. 3 /\ 2 \in 1 .. 3 /\ 3 \in 1 .. 3
        /\ ~(2 <= 1) /\ ~(3 <= 1) /\ ~(3 <= 2)
        /\ \A i \in 1 .. 3 : i = 1 \/ i = 2 \/ i = 3
    OBVIOUS
  <2>. QED  BY <2>1, <2>2, Zenon
<1>3. /\ DOMAIN <<x, y, z>> = 1 .. 3
      /\ <<x, y, z>>[1] = x /\ <<x, y, z>>[2] = y /\ <<x, y, z>>[3] = z
  OBVIOUS
<1>4. firstNonEmptyString(<<x, y, z>>) = IF x # "" THEN x ELSE IF y # "" THEN y ELSE z
  BY <1>2, <1>3
<1>. QED  BY <1>4, Zenon

(* The parts of what is detected, and of what is not.                        *)
Part == {"detected", "project", "branch", "folder"}

LEMMA UndetectedParts ==
  ASSUME NEW r, r = Undetected
  PROVE  DOMAIN r = Part /\ ~r.detected /\ r.project = "" /\ r.branch = "" /\ r.folder = None
<1>1. DOMAIN r = Part
  BY DEF Undetected, Part
<1>2. ~r.detected
  BY DEF Undetected
<1>3. r.project = "" /\ r.branch = ""
  BY DEF Undetected
<1>4. r.folder = None
  BY DEF Undetected
<1>. QED  BY <1>1, <1>2, <1>3, <1>4

LEMMA ResultParts ==
  ASSUME NEW project, NEW branch, NEW folder, NEW r, r = Result(project, branch, folder)
  PROVE  DOMAIN r = Part /\ r.detected /\ r.project = project /\ r.branch = branch /\ r.folder = folder
<1>1. DOMAIN r = Part
  BY DEF Result, Part
<1>2. r.detected
  BY DEF Result
<1>3. r.project = project /\ r.branch = branch
  BY DEF Result
<1>4. r.folder = folder
  BY DEF Result
<1>. QED  BY <1>1, <1>2, <1>3, <1>4

-----------------------------------------------------------------------------
(* What is read                                                              *)

(* The first lines of a file begin with its first line.                      *)
LEMMA LinesFacts ==
  ASSUME FilesTyped, NEW path \in DOMAIN files, NEW max \in Nat \ {0},
         NEW lines, lines = readFile(path, max)
  PROVE  /\ IsSequence(lines) /\ Len(lines) \in Nat
         /\ lines = <<>> <=> files[path].lines = <<>>
         /\ lines # <<>> =>
              /\ 1 <= Len(lines) /\ lines[1] = files[path].lines[1] /\ 1 \in DOMAIN files[path].lines
              /\ IsSequence(lines[1].value)
<1>. DEFINE all == files[path].lines
            k == Min({max, Len(all)})
<1>1. IsSequence(all) /\ Len(all) \in Nat /\ DOMAIN all = 1 .. Len(all)
  BY DEF FilesTyped, IsSequence
<1>2. k \in {max, Len(all)} /\ k <= max /\ k <= Len(all)
  <2>1. {max, Len(all)} \in SUBSET Nat /\ {max, Len(all)} # {}
    BY <1>1
  <2>. QED  BY <2>1, MinFacts
<1>3. lines = SubSeq(all, 1, k)
  BY DEF readFile
<1>. HIDE DEF k
<1>4. /\ IsSequence(lines) /\ Len(lines) = IF 1 <= k THEN k ELSE 0
      /\ \A j \in 1 .. k : lines[j] = all[j]
  BY <1>1, <1>2, <1>3, SequencePart
<1>5. all = <<>> <=> Len(all) = 0
  BY <1>1, EmptySeq DEF IsSequence
<1>6. lines = <<>> <=> Len(lines) = 0
  BY <1>4, EmptySeq DEF IsSequence
<1>7. k = 0 <=> Len(all) = 0
  BY <1>1, <1>2
<1>8. lines = <<>> <=> all = <<>>
  BY <1>1, <1>2, <1>4, <1>5, <1>6, <1>7
<1>9. lines # <<>> => 1 <= k /\ 1 <= Len(lines) /\ lines[1] = all[1] /\ 1 \in DOMAIN all
  BY <1>1, <1>2, <1>4, <1>6
<1>. QED  BY <1>1, <1>2, <1>4, <1>8, <1>9 DEF FilesTyped

(* What a project file gives.                                                *)
LEMMA ProjectFileFacts ==
  ASSUME FilesTyped, NEW entity, IsSequence(entity), NEW r, r = ProjectFile(entity)
  PROVE  /\ DOMAIN r = Part /\ IsSequence(r.folder)
         /\ ~r.detected => r = Undetected
         /\ r.detected =>
              LET file == ProjectFileIn(r.folder)
              IN  /\ r.folder # None /\ fileExists(file) /\ Base(file) = WakaTimeProjectFile
                  /\ IF files[file].lines = <<>> THEN r.project = "" ELSE r.project = NameIn(file)
         /\ \A d : Finds(entity, d) /\ Named(d) =>
              /\ r.detected
              /\ r.project = "" => r.folder # d
<1>. DEFINE fp == FindFileOrDirectory(entity, <<WakaTimeProjectFile>>)
            lines == readFile(fp, 2)
<1>1. /\ <<WakaTimeProjectFile>> # <<>> /\ IsSequence(<<WakaTimeProjectFile>>)
      /\ Len(entity) \in Nat
  <2>1. IsSequence(<<WakaTimeProjectFile>>)
    BY Tuples
  <2>. QED  BY <2>1 DEF IsSequence
<1>2. /\ IsSequence(fp)
      /\ fp = None => \A i \in 1 .. Len(entity) : ~There(entity, <<WakaTimeProjectFile>>, i)
      /\ fp # None =>
           \E i \in 1 .. Len(entity) :
             /\ There(entity, <<WakaTimeProjectFile>>, i) /\ fp = ProjectFileIn(SubSeq(entity, 1, i))
             /\ \A j \in 1 .. Len(entity) : There(entity, <<WakaTimeProjectFile>>, j) => j <= i
  BY <1>1, SearchFacts DEF ProjectFileIn
<1>3. ASSUME NEW i \in 1 .. Len(entity)
      PROVE  LET part == SubSeq(entity, 1, i)
             IN  /\ IsSequence(part) /\ part # None /\ Len(part) = i
                 /\ Dir(ProjectFileIn(part)) = part /\ Base(ProjectFileIn(part)) = WakaTimeProjectFile
  <2>1. IsSequence(SubSeq(entity, 1, i)) /\ Len(SubSeq(entity, 1, i)) = i
    BY <1>1, SequencePart
  <2>2. SubSeq(entity, 1, i) # None
    BY <2>1, EmptySeq DEF None
  <2>. QED  BY <2>1, <2>2, PathFacts DEF ProjectFileIn
<1>4. ASSUME NEW d, Finds(entity, d), Named(d)
      PROVE  /\ Len(d) \in 1 .. Len(entity) /\ d = SubSeq(entity, 1, Len(d))
             /\ There(entity, <<WakaTimeProjectFile>>, Len(d))
  BY <1>4 DEF Finds, Named, There, ProjectFileIn
<1>. HIDE DEF fp
<1>5. CASE fp = None \/ ~Readable(fp)
  <2>1. r = Undetected
    BY <1>5 DEF ProjectFile, fp
  <2>2. DOMAIN r = Part /\ IsSequence(r.folder) /\ ~r.detected
    <3>1. IsSequence(None)
      BY Tuples DEF None
    <3>. QED  BY <2>1, <3>1, UndetectedParts
  <2>3. ASSUME NEW d, Finds(entity, d), Named(d) PROVE FALSE
    <3>1. fp # None
      BY <1>2, <1>4, <2>3
    <3>2. PICK i \in 1 .. Len(entity) :
            /\ There(entity, <<WakaTimeProjectFile>>, i) /\ fp = ProjectFileIn(SubSeq(entity, 1, i))
            /\ Len(d) <= i
      BY <1>2, <1>4, <2>3, <3>1
    <3>3. Readable(fp)
      BY <1>1, <1>4, <2>3, <3>2 DEF Finds, There, ProjectFileIn
    <3>. QED  BY <1>5, <3>1, <3>3
  <2>. QED  BY <2>1, <2>2, <2>3
<1>6. CASE fp # None /\ Readable(fp)
  <2>1. PICK i \in 1 .. Len(entity) :
          /\ There(entity, <<WakaTimeProjectFile>>, i) /\ fp = ProjectFileIn(SubSeq(entity, 1, i))
          /\ \A j \in 1 .. Len(entity) : There(entity, <<WakaTimeProjectFile>>, j) => j <= i
    BY <1>2, <1>6
  <2>. DEFINE part == SubSeq(entity, 1, i)
  <2>2. /\ IsSequence(part) /\ part # None /\ Len(part) = i
        /\ Dir(fp) = part /\ Base(fp) = WakaTimeProjectFile /\ fileExists(fp)
    BY <1>3, <2>1 DEF There, ProjectFileIn
  <2>3. /\ IsSequence(lines) /\ Len(lines) \in Nat
        /\ lines = <<>> <=> files[fp].lines = <<>>
        /\ lines # <<>> => 1 <= Len(lines) /\ lines[1] = files[fp].lines[1]
    BY <2>2, LinesFacts DEF fileExists
  <2>4. /\ r.detected /\ r.folder = part
        /\ DOMAIN r = Part
        /\ r.project = IF 1 <= Len(lines) THEN Base(lines[1].value) ELSE ""
    <3>. DEFINE name(i_1) == IF i_1 <= Len(lines) THEN Base(lines[i_1].value) ELSE ""
    <3>1. r = Result(name(1), name(2), Dir(fp))
      BY <1>6 DEF ProjectFile, fp
    <3>2. /\ DOMAIN r = Part /\ r.detected /\ r.project = name(1) /\ r.folder = Dir(fp)
      <4>. HIDE DEF name
      <4>. QED  BY <3>1, ResultParts
    <3>3. r.project = IF 1 <= Len(lines) THEN Base(lines[1].value) ELSE ""
      BY <3>2
    <3>. QED  BY <2>2, <3>2, <3>3, Zenon
  <2>5. lines = <<>> => Len(lines) = 0
    BY <2>3, EmptySeq DEF IsSequence
  <2>6. IF files[fp].lines = <<>> THEN r.project = "" ELSE r.project = NameIn(fp)
    <3>1. ~(1 <= 0)
      OBVIOUS
    <3>2. ASSUME lines = <<>> PROVE r.project = ""
      BY <2>4, <2>5, <3>1, <3>2, Zenon
    <3>3. ASSUME lines # <<>> PROVE r.project = NameIn(fp)
      BY <2>3, <2>4, <3>3, Zenon DEF NameIn
    <3>. QED  BY <2>3, <3>2, <3>3, Zenon
  <2>7. ASSUME NEW d, Finds(entity, d), Named(d), r.folder = d PROVE r.project # ""
    BY <2>1, <2>4, <2>6, <2>7 DEF Named, NameIn
  <2>. QED  BY <2>1, <2>2, <2>4, <2>6, <2>7
<1>. QED  BY <1>5, <1>6

(* What the map gives.                                                       *)
LEMMA ProjectMapFacts ==
  ASSUME NEW entity, IsSequence(entity), NEW r, r = ProjectMap(entity)
  PROVE  /\ DOMAIN r = Part /\ IsSequence(r.folder)
         /\ r.project \in {p.name : p \in Range(MapPattern)} \cup {""}
<1>1. matchPattern(entity) \subseteq DOMAIN MapPattern /\ matchPattern(entity) \subseteq Nat
  <2>1. matchPattern(entity) \subseteq DOMAIN MapPattern
    BY DEF matchPattern
  <2>2. DOMAIN MapPattern \subseteq Nat
    BY ConfigAssumption DEF IsSequence
  <2>. QED  BY <2>1, <2>2
<1>2. CASE matchPattern(entity) = {}
  <2>1. r = Undetected
    BY <1>2 DEF ProjectMap
  <2>. QED  BY <2>1, UndetectedParts, Tuples DEF None
<1>3. CASE matchPattern(entity) # {}
  <2>. DEFINE m == Min(matchPattern(entity))
  <2>1. m \in DOMAIN MapPattern
    BY <1>1, <1>3, MinFacts
  <2>. DEFINE name == MapPattern[m].name  branch == ""
  <2>2. r = Result(name, branch, Dir(entity))
    BY <1>3 DEF ProjectMap
  <2>3. DOMAIN r = Part /\ r.project = name /\ r.folder = Dir(entity)
    <3>. HIDE DEF name, branch
    <3>. QED  BY <2>2, ResultParts
  <2>4. name \in {p.name : p \in Range(MapPattern)}
    BY <2>1 DEF Range
  <2>. HIDE DEF name
  <2>. QED  BY <2>3, <2>4, DirFacts
<1>. QED  BY <1>2, <1>3

(* What the configured detecters give: a name that is not given otherwise is *)
(* in a project file of the folder.                                          *)
LEMMA ConfiguredFacts ==
  ASSUME FilesTyped, FileNamesKnown, NEW h, IsSequence(h.entity), NEW r, r = Configured(h)
  PROVE  /\ DOMAIN r = Part /\ IsSequence(r.folder)
         /\ r.project \in Given(h) \cup GeneratedName \cup {""}
         /\ \A d : Finds(h.entity, d) /\ Named(d) => r.project # "" \/ (r.folder # None /\ r.folder # d)
         /\ \/ r.project \in {h.override, ""} \cup {p.name : p \in Range(MapPattern)}
            \/ LET file == ProjectFileIn(r.folder)
               IN  r.folder # None /\ fileExists(file) /\ files[file].lines # <<>> /\ r.project = NameIn(file)
<1>. DEFINE a == ProjectFile(h.entity)
            b == ProjectMap(h.entity)
            first == Detect(h.entity)
            file == ProjectFileIn(a.folder)
            names == {p.name : p \in Range(MapPattern)}
<1>1. /\ DOMAIN a = Part /\ IsSequence(a.folder)
      /\ ~a.detected => a = Undetected
      /\ a.detected =>
           /\ a.folder # None /\ fileExists(file) /\ Base(file) = WakaTimeProjectFile
           /\ IF files[file].lines = <<>> THEN a.project = "" ELSE a.project = NameIn(file)
      /\ \A d : Finds(h.entity, d) /\ Named(d) => a.detected /\ (a.project = "" => a.folder # d)
  BY ProjectFileFacts
<1>2. DOMAIN b = Part /\ IsSequence(b.folder) /\ b.project \in names \cup {""}
  BY ProjectMapFacts
<1>3. first = IF a.detected THEN a ELSE IF b.detected THEN b ELSE Undetected
  BY FirstOfTwo DEF Detect
<1>. HIDE DEF a, b, first, names
<1>4. DOMAIN Undetected = Part /\ Undetected.project = "" /\ IsSequence(Undetected.folder)
  BY UndetectedParts, Tuples DEF None
<1>5. DOMAIN first = Part /\ IsSequence(first.folder)
  BY <1>1, <1>2, <1>3, <1>4, Zenon
<1>6. \/ first = a /\ a.detected
      \/ first.project \in names \cup {""} /\ ~a.detected
  BY <1>2, <1>3, <1>4, Zenon
<1>7. \/ first.project \in names \cup {""}
      \/ /\ first.folder # None /\ first = a /\ fileExists(file) /\ files[file].lines # <<>>
         /\ first.project = NameIn(file) /\ Base(file) = WakaTimeProjectFile
  BY <1>1, <1>6, Zenon
<1>8. \A d : Finds(h.entity, d) /\ Named(d) => first.project # "" \/ (first.folder # None /\ first.folder # d)
  BY <1>1, <1>6, Zenon
<1>9. first.project \in names \cup FileNames \cup GeneratedName \cup {""}
  <2>1. ASSUME fileExists(file), files[file].lines # <<>>, Base(file) = WakaTimeProjectFile
        PROVE  NameIn(file) \in FileNames \cup GeneratedName
    BY <2>1 DEF FileNamesKnown, fileExists
  <2>. QED  BY <1>7, <2>1
<1>10. CASE h.override = ""
  <2>1. r = first
    BY <1>10 DEF Configured, first
  <2>. QED  BY <1>5, <1>7, <1>8, <1>9, <2>1, Zenon DEF Given, names, file
<1>11. CASE h.override # ""
  <2>1. r = [first EXCEPT !.project = h.override]
    BY <1>11 DEF Configured, first
  <2>2. DOMAIN r = Part /\ r.project = h.override
    BY <1>5, <2>1 DEF Part
  <2>3. r.folder = first.folder
    BY <1>5, <2>1 DEF Part
  <2>4. r.project \in {h.override, ""} \cup names
    BY <2>2
  <2>5. r.project \in Given(h)
    BY <2>2 DEF Given
  <2>. QED  BY <1>5, <1>11, <2>2, <2>3, <2>4, <2>5 DEF names
<1>. QED  BY <1>10, <1>11

-----------------------------------------------------------------------------
(* Revision control                                                          *)

(* A result with a path for its folder.                                      *)
IsResult(r) == DOMAIN r = Part /\ IsSequence(r.folder)

LEMMA Results ==
  /\ IsResult(Undetected)
  /\ \A project, branch, folder : IsSequence(folder) => IsResult(Result(project, branch, folder))
<1>1. IsResult(Undetected)
  BY UndetectedParts, Tuples DEF None, IsResult
<1>2. ASSUME NEW project, NEW branch, NEW folder, IsSequence(folder)
      PROVE  IsResult(Result(project, branch, folder))
  BY <1>2, ResultParts DEF IsResult
<1>. QED  BY <1>1, <1>2

(* What is found is there, and is a path.                                    *)
LEMMA FoundFacts ==
  ASSUME NEW directory, IsSequence(directory)
  PROVE  /\ LET found == FindFileOrDirectory(directory, <<".git">>)
            IN  IsSequence(found) /\ (found # None => fileExists(found))
         /\ IsSequence(FindFileOrDirectory(directory, <<".git", "config">>))
         /\ IsSequence(FindFileOrDirectory(directory, <<".hg">>))
         /\ IsSequence(FindFileOrDirectory(directory, <<".tf", "properties.tf1">>))
<1>1. ASSUME NEW name PROVE IsSequence(<<name>>) /\ <<name>> # <<>>
  <2>1. <<name>> # <<>>
    OBVIOUS
  <2>. QED  BY <2>1, Tuples
<1>2. ASSUME NEW name, NEW inside PROVE IsSequence(<<name, inside>>) /\ <<name, inside>> # <<>>
  <2>1. <<name, inside>> # <<>>
    OBVIOUS
  <2>. QED  BY <2>1, Tuples
<1>3. ASSUME NEW filename, IsSequence(filename), filename # <<>>
      PROVE  LET found == FindFileOrDirectory(directory, filename)
             IN  IsSequence(found) /\ (found # None => fileExists(found))
  <2>. DEFINE found == FindFileOrDirectory(directory, filename)
  <2>1. /\ IsSequence(found)
        /\ found = None => \A i \in 1 .. Len(directory) : ~There(directory, filename, i)
        /\ found # None =>
             \E i \in 1 .. Len(directory) :
               /\ There(directory, filename, i) /\ found = SubSeq(directory, 1, i) \o filename
               /\ \A j \in 1 .. Len(directory) : There(directory, filename, j) => j <= i
    BY <1>3, SearchFacts
  <2>. QED  BY <2>1, Zenon DEF There
<1>. QED  BY <1>1, <1>2, <1>3, Zenon

(* What git gives has a path for its folder.                                 *)
LEMMA GitFacts ==
  ASSUME FilesTyped, NEW entity, IsSequence(entity)
  PROVE  IsResult(Git(entity))
<1>. DEFINE directory == IF fileExists(entity) THEN Dir(entity) ELSE entity
            dotgit == FindFileOrDirectory(directory, <<".git">>)
            opened == dotgit # None /\ Readable(dotgit)
            config == FindFileOrDirectory(directory, <<".git", "config">>)
            gitdir == IF opened THEN findGitdir(dotgit) ELSE None
            commondir == findCommondir(gitdir)
            branch == findGitBranch(gitdir \o <<"HEAD">>)
<1>1. IsSequence(directory)
  BY DirFacts
<1>2. IsSequence(dotgit) /\ (dotgit # None => fileExists(dotgit)) /\ IsSequence(config)
  BY <1>1, FoundFacts, Zenon
<1>3. IsSequence(None)
  BY Tuples DEF None
<1>4. IsSequence(gitdir)
  <2>. SUFFICES ASSUME opened PROVE IsSequence(findGitdir(dotgit))
    BY <1>3
  <2>. DEFINE lines == readFile(dotgit, 1)
  <2>1. lines # <<>> => IsSequence(lines[1].value)
    BY <1>2, LinesFacts DEF fileExists
  <2>. HIDE DEF directory, dotgit
  <2>2. findGitdir(dotgit) \in {resolveGitdir(Dir(dotgit), lines[1]), None}
        /\ (findGitdir(dotgit) # None => lines # <<>>)
    BY DEF findGitdir
  <2>3. ASSUME lines # <<>>
        PROVE  IsSequence(resolveGitdir(Dir(dotgit), lines[1]))
    <3>1. IsSequence(lines[1].value) /\ IsSequence(Join(Dir(dotgit), lines[1].value))
      BY <1>2, <2>1, <2>3, DirFacts, JoinFacts
    <3>. QED  BY <1>3, <3>1, Zenon DEF resolveGitdir
  <2>. QED  BY <1>3, <2>2, <2>3
<1>5. IsSequence(commondir)
  <2>. HIDE DEF gitdir
  <2>. DEFINE file == gitdir \o <<"commondir">>
              lines == readFile(file, 1)
  <2>1. CASE Base(Dir(gitdir)) = "worktrees" /\ fileExists(file)
    <3>1. lines # <<>> => IsSequence(lines[1].value)
      BY <2>1, LinesFacts DEF fileExists
    <3>2. lines # <<>> => IsSequence(Join(gitdir, lines[1].value))
      BY <1>4, <3>1, JoinFacts
    <3>3. commondir = resolveCommondir(gitdir)
      BY <2>1 DEF findCommondir
    <3>. QED  BY <1>3, <3>2, <3>3, Zenon DEF resolveCommondir
  <2>2. CASE ~(Base(Dir(gitdir)) = "worktrees" /\ fileExists(file))
    <3>1. commondir = None
      BY <2>2 DEF findCommondir
    <3>. QED  BY <1>3, <3>1
  <2>. QED  BY <2>1, <2>2
<1>6. IsSequence(Dir(gitdir)) /\ IsSequence(Dir(Dir(config))) /\ IsSequence(Dir(commondir))
  BY <1>2, <1>4, <1>5, DirFacts, Zenon
<1>7. /\ IsResult(Undetected)
      /\ IsResult(Result(Base(gitdir), branch, Dir(gitdir)))
      /\ IsResult(Result(Base(Dir(Dir(config))), findGitBranch(Dir(config) \o <<"HEAD">>), Dir(Dir(config))))
      /\ IsResult(Result(Base(Dir(commondir)), branch, Dir(commondir)))
      /\ IsResult(Result(Base(Dir(dotgit)), branch, Dir(gitdir)))
  BY <1>6, Results, Zenon
<1>8. Git(entity) =
        CASE shouldTakeSubmodule(directory) /\ dotgit # None /\ ~opened -> Undetected
          [] shouldTakeSubmodule(directory) /\ InModules(gitdir) -> Result(Base(gitdir), branch, Dir(gitdir))
          [] OTHER ->
               CASE config # None -> Result(Base(Dir(Dir(config))),
                                            findGitBranch(Dir(config) \o <<"HEAD">>),
                                            Dir(Dir(config)))
                 [] config = None /\ (gitdir = None \/ CommondirFails(gitdir)) -> Undetected
                 [] config = None /\ commondir # None ->
                      Result(Base(Dir(commondir)), branch, Dir(commondir))
                 [] OTHER -> Result(Base(Dir(dotgit)), branch, Dir(gitdir))
  BY DEF Git
<1>. HIDE DEF directory, dotgit, opened, config, gitdir, commondir, branch
<1>. QED  BY <1>7, <1>8

(* Whatever revision control there is, the folder is a path.                 *)
LEMMA RevControlFacts ==
  ASSUME FilesTyped, NEW entity, IsSequence(entity)
  PROVE  IsResult(DetectWithRevControl(entity))
<1>1. IsResult(Git(entity))
  BY GitFacts
<1>2. IsSequence(StartOf(entity))
  BY DirFacts, Tuples DEF StartOf, None
<1>3. IsResult(Mercurial(entity))
  <2>. DEFINE hg == FindFileOrDirectory(StartOf(entity), <<".hg">>)
  <2>1. IsSequence(hg)
    BY <1>2, FoundFacts, Zenon
  <2>2. IsSequence(Dir(Dir(hg)))
    BY <2>1, DirFacts
  <2>. QED  BY <2>2, Results, Zenon DEF Mercurial
<1>4. IsResult(Subversion(entity))
  BY ConfigAssumption, Results, Zenon DEF Subversion
<1>5. IsResult(Tfvc(entity))
  <2>. DEFINE tf == FindFileOrDirectory(StartOf(entity), <<".tf", "properties.tf1">>)
  <2>1. IsSequence(tf)
    BY <1>2, FoundFacts, Zenon
  <2>2. IsSequence(Dir(Dir(Dir(tf))))
    BY <2>1, DirFacts
  <2>. QED  BY <2>2, Results, Zenon DEF Tfvc
<1>. DEFINE results == <<Git(entity), Mercurial(entity), Subversion(entity), Tfvc(entity)>>
<1>6. IsSequence(results) /\ \A r \in Range(results) : IsResult(r)
  <2>1. ASSUME NEW a, NEW b, NEW c, NEW d
        PROVE  IsSequence(<<a, b, c, d>>) /\ Range(<<a, b, c, d>>) \subseteq {a, b, c, d}
    <3>1. <<a, b, c, d>> \in Seq({a, b, c, d})
      OBVIOUS
    <3>. QED  BY <3>1, OwnType
  <2>. QED  BY <1>1, <1>3, <1>4, <1>5, <2>1
<1>7. DetectWithRevControl(entity) = FirstDetected(results)
  BY DEF DetectWithRevControl
<1>. HIDE DEF results
<1>. QED  BY <1>6, <1>7, FirstOfMany, Results, Zenon

-----------------------------------------------------------------------------
(* Steps                                                                     *)

(* What a command has is as it was.                                          *)
Same(c) == work'[c] = work[c] /\ n'[c] = n[c] /\ result'[c] = result[c] /\ pc'[c] = pc[c] /\ named'[c] = named[c]

(* g is h but for what a detection finds.                                    *)
SameHeartbeat(g, h) ==
  /\ DOMAIN g = Field /\ g.type = h.type /\ g.unsaved = h.unsaved /\ g.entity = h.entity
  /\ g.override = h.override /\ g.alternate = h.alternate

(* Command c has stored r for its heartbeat, and is at the next.             *)
Stored(c, r) ==
  LET hh == work[c].hh
      new == work'[c].hh
  IN  /\ DOMAIN work'[c] = {"hh", "hide"} /\ work'[c].hide = work[c].hide
      /\ IsSequence(new) /\ DOMAIN new = DOMAIN hh
      /\ \A i \in DOMAIN hh \ {n[c]} : new[i] = hh[i]
      /\ SameHeartbeat(new[n[c]], hh[n[c]])
      /\ new[n[c]].project = r.project /\ new[n[c]].projectPath = r.folder
      /\ n'[c] = n[c] + 1
      /\ IF pc'[c] = "next" THEN n[c] \in DOMAIN hh ELSE pc'[c] = "config" /\ n'[c] \in DOMAIN hh


LEMMA StoreFacts ==
  ASSUME CommandsTyped, NEW c \in Command, pc[c] # "next", NEW r, Store(c, r)
  PROVE  /\ Stored(c, r)
         /\ DOMAIN work' = Command /\ DOMAIN n' = Command /\ DOMAIN pc' = Command
         /\ \A d \in Command \ {c} : work'[d] = work[d] /\ n'[d] = n[d] /\ pc'[d] = pc[d]
<1>. DEFINE hh == work[c].hh
            i == n[c]
            g == [hh[i] EXCEPT !.project = r.project, !.branch = r.branch, !.projectPath = r.folder]
            new == [hh EXCEPT ![i] = g]
<1>1. /\ DOMAIN work = Command /\ DOMAIN n = Command /\ DOMAIN pc = Command
      /\ DOMAIN work[c] = {"hh", "hide"} /\ IsSequence(hh) /\ i \in Nat \ {0}
      /\ i \in DOMAIN hh
      /\ DOMAIN hh[i] = Field
  BY DEF CommandsTyped, CommandTyped
<1>2. work' = [work EXCEPT ![c] = [work[c] EXCEPT !.hh = new]]
  BY DEF Store
<1>3. n' = [n EXCEPT ![c] = i + 1] /\ pc' = [pc EXCEPT ![c] = IF i = Len(hh) THEN "next" ELSE "config"]
  BY DEF Store
<1>4. DOMAIN work' = Command /\ DOMAIN n' = Command /\ DOMAIN pc' = Command
  BY <1>1, <1>2, <1>3
<1>5. \A d \in Command \ {c} : work'[d] = work[d] /\ n'[d] = n[d] /\ pc'[d] = pc[d]
  BY <1>1, <1>2, <1>3
<1>6. n'[c] = i + 1 /\ pc'[c] = IF i = Len(hh) THEN "next" ELSE "config"
  BY <1>1, <1>3
<1>7. work'[c] = [work[c] EXCEPT !.hh = new]
  BY <1>1, <1>2
<1>8. DOMAIN work'[c] = {"hh", "hide"} /\ work'[c].hh = new
  BY <1>1, <1>7
<1>9. work'[c].hide = work[c].hide
  BY <1>1, <1>7
<1>10. SameHeartbeat(g, hh[i]) /\ g.project = r.project /\ g.projectPath = r.folder
  <2>1. DOMAIN g = Field
    BY <1>1
  <2>2. g.type = hh[i].type
    BY <1>1 DEF Field
  <2>3. g.unsaved = hh[i].unsaved
    BY <1>1 DEF Field
  <2>4. g.entity = hh[i].entity
    BY <1>1 DEF Field
  <2>5. g.override = hh[i].override
    BY <1>1 DEF Field
  <2>6. g.alternate = hh[i].alternate
    BY <1>1 DEF Field
  <2>7. g.project = r.project
    BY <1>1 DEF Field
  <2>8. g.projectPath = r.folder
    BY <1>1 DEF Field
  <2>. QED  BY <2>1, <2>2, <2>3, <2>4, <2>5, <2>6, <2>7, <2>8 DEF SameHeartbeat
<1>. HIDE DEF g
<1>11. Len(hh) \in Nat /\ DOMAIN hh = 1 .. Len(hh)
  BY <1>1 DEF IsSequence
<1>12. /\ IsSequence(new) /\ DOMAIN new = DOMAIN hh /\ new[i] = g
       /\ \A j \in DOMAIN hh \ {i} : new[j] = hh[j]
  <2>. HIDE DEF hh
  <2>. QED  BY <1>1, <1>11, SequenceEdit
<1>. HIDE DEF new
<1>13. IF pc'[c] = "next" THEN i \in DOMAIN hh ELSE pc'[c] = "config" /\ i + 1 \in DOMAIN hh
  <2>1. CASE i = Len(hh)
    BY <1>1, <1>6, <2>1
  <2>2. CASE i # Len(hh)
    <3>1. pc'[c] = "config"
      BY <1>6, <2>2
    <3>2. i + 1 \in DOMAIN hh
      BY <1>1, <1>11, <2>2
    <3>. QED  BY <3>1, <3>2
  <2>. QED  BY <2>1, <2>2
<1>14. Stored(c, r)
  BY <1>6, <1>8, <1>9, <1>10, <1>12, <1>13, Zenon DEF Stored
<1>. QED  BY <1>4, <1>5, <1>14

-----------------------------------------------------------------------------
(* Changes of the files                                                      *)

(* Only the file p changes, which could be written to.                       *)
FileChanges(p) ==
  /\ IsSequence(p) /\ Base(p) = WakaTimeProjectFile
  /\ DOMAIN files' = DOMAIN files \cup {p} /\ \A path \in DOMAIN files \ {p} : files'[path] = files[path]
  /\ fileExists(p) => Readable(p)
  /\ Readable(p)'
  /\ DOMAIN files'[p] = {"readable", "lines"} /\ IsSequence(files'[p].lines)
  /\ \A i \in DOMAIN files'[p].lines : IsSequence(files'[p].lines[i].value)

LEMMA TruncateFacts ==
  ASSUME CommandsTyped, NEW c \in Command, Truncate(c), NEW p, p = ProjectFileOf(c)
  PROVE  /\ FileChanges(p) /\ files'[p].lines = <<>>
         /\ Dir(p) = result[c].folder
<1>1. IsSequence(result[c].folder)
  BY DEF CommandsTyped, CommandTyped
<1>2. IsSequence(p) /\ Base(p) = WakaTimeProjectFile /\ Dir(p) = result[c].folder
  BY <1>1, PathFacts DEF ProjectFileOf, ProjectFileIn
<1>. DEFINE f == [readable |-> TRUE, lines |-> <<>>]
<1>3. files' = [path \in DOMAIN files \cup {p} |-> IF path = p THEN f ELSE files[path]]
  BY DEF Truncate, Emptied
<1>4. DOMAIN files' = DOMAIN files \cup {p} /\ files'[p] = f
  BY <1>3
<1>5. \A path \in DOMAIN files \ {p} : files'[path] = files[path]
  BY <1>3
<1>6. fileExists(p) => Readable(p)
  BY DEF Truncate, Writable
<1>7. DOMAIN f = {"readable", "lines"}
  OBVIOUS
<1>8. f.readable
  OBVIOUS
<1>9. f.lines = <<>>
  OBVIOUS
<1>. HIDE DEF f
<1>10. Readable(p)'
  BY <1>4, <1>8 DEF Readable
<1>11. IsSequence(files'[p].lines) /\ \A i \in DOMAIN files'[p].lines : IsSequence(files'[p].lines[i].value)
  <2>1. DOMAIN <<>> = {}
    OBVIOUS
  <2>. QED  BY <1>4, <1>9, <2>1, Tuples
<1>. QED  BY <1>2, <1>4, <1>5, <1>6, <1>7, <1>9, <1>10, <1>11, Zenon DEF FileChanges

(* What is left behind a name are lines.                                     *)
LEMMA OverlaidFacts ==
  ASSUME NEW lines, NEW name, NEW new \in Overlaid(lines, name)
  PROVE  /\ IsSequence(new) /\ new # <<>> /\ new[1] = Text(<<name>>)
         /\ \A i \in DOMAIN new : IsSequence(new[i].value)
<1>. PICK line : line = Text(<<name>>)
  OBVIOUS
<1>1. PICK rest : new = <<line>> \o rest /\ (rest = <<>> \/ \E l \in Left : rest = l.lines)
  BY DEF Overlaid
<1>2. IsSequence(rest) /\ \A other \in Range(rest) : IsSequence(other.value)
  <2>1. CASE rest = <<>>
    <3>1. DOMAIN <<>> = {}
      OBVIOUS
    <3>2. Range(rest) = {}
      BY <2>1, <3>1 DEF Range
    <3>. QED  BY <2>1, <3>2, Tuples
  <2>2. CASE \E l \in Left : rest = l.lines
    <3>1. PICK l \in Left : rest = l.lines
      BY <2>2
    <3>2. IsSequence(l.lines) /\ \A other \in Range(l.lines) : IsSequence(other.value)
      BY LeftAssumption
    <3>. QED  BY <3>1, <3>2
  <2>. QED  BY <1>1, <2>1, <2>2
<1>3. IsSequence(line.value)
  <2>1. line.value = <<name>>
    BY DEF Text
  <2>. QED  BY <2>1, Tuples
<1>. DEFINE R == {line} \cup Range(rest)
<1>4. /\ <<line>> \in Seq(R) /\ Len(<<line>>) = 1 /\ <<line>>[1] = line
      /\ rest \in Seq(R) /\ Len(rest) \in Nat
  BY <1>2, SeqMonotonic DEF IsSequence
<1>. HIDE DEF R
<1>5. /\ new \in Seq(R) /\ Len(new) = 1 + Len(rest)
      /\ \A i \in 1 .. 1 : new[i] = <<line>>[i]
  BY <1>1, <1>4, ConcatProperties
<1>6. new[1] = line
  BY <1>4, <1>5
<1>7. IsSequence(new) /\ Range(new) \subseteq R
  BY <1>5, OwnType
<1>8. new # <<>>
  BY <1>4, <1>5, EmptySeq
<1>9. ASSUME NEW i \in DOMAIN new PROVE IsSequence(new[i].value)
  <2>1. new[i] \in R
    BY <1>7 DEF Range
  <2>. QED  BY <1>2, <1>3, <2>1 DEF R
<1>. QED  BY <1>6, <1>7, <1>8, <1>9

LEMMA WriteFacts ==
  ASSUME FilesTyped, CommandsTyped, NEW c \in Command, SearchDone(c), Write(c), NEW p, p = ProjectFileOf(c)
  PROVE  /\ FileChanges(p) /\ files'[p].lines # <<>> /\ NameIn(p)' = result[c].project
         /\ fileExists(p) /\ Dir(p) = result[c].folder
<1>1. IsSequence(result[c].folder)
  BY DEF CommandsTyped, CommandTyped
<1>2. IsSequence(p) /\ Base(p) = WakaTimeProjectFile /\ Dir(p) = result[c].folder
  BY <1>1, PathFacts DEF ProjectFileOf, ProjectFileIn
<1>3. fileExists(p) /\ Readable(p)
  BY DEF SearchDone, Write
<1>. DEFINE line == Text(<<result[c].project>>)
<1>4. PICK lines \in Overlaid(files[p].lines, result[c].project) :
        files' = [files EXCEPT ![p] = [files[p] EXCEPT !.lines = lines]]
  BY DEF Write
<1>5. DOMAIN files[p] = {"readable", "lines"}
  BY <1>3 DEF FilesTyped, fileExists
<1>6. line.value = <<result[c].project>>
  BY DEF Text
<1>7. DOMAIN files' = DOMAIN files \cup {p} /\ files'[p] = [files[p] EXCEPT !.lines = lines]
  BY <1>3, <1>4 DEF fileExists
<1>8. \A path \in DOMAIN files \ {p} : files'[path] = files[path]
  BY <1>4
<1>9. DOMAIN files'[p] = {"readable", "lines"} /\ files'[p].lines = lines
  BY <1>5, <1>7
<1>10. files'[p].readable = files[p].readable
  BY <1>5, <1>7
<1>11. Readable(p)'
  BY <1>3, <1>10 DEF Readable
<1>12. IsSequence(lines) /\ lines # <<>> /\ lines[1] = line
       /\ \A i \in DOMAIN lines : IsSequence(lines[i].value)
  BY OverlaidFacts
<1>. HIDE DEF line
<1>13. IsSequence(files'[p].lines) /\ \A i \in DOMAIN files'[p].lines : IsSequence(files'[p].lines[i].value)
  BY <1>9, <1>12
<1>14. Base(<<result[c].project>>) = result[c].project
  BY DEF Base, Last
<1>15. NameIn(p)' = result[c].project
  BY <1>6, <1>9, <1>12, <1>14, Zenon DEF NameIn
<1>. QED  BY <1>2, <1>3, <1>7, <1>8, <1>9, <1>11, <1>12, <1>13, <1>15, Zenon DEF FileChanges

(* The files stay files.                                                     *)
LEMMA FilesStayTyped ==
  ASSUME FilesTyped, NEW p, FileChanges(p)
  PROVE  FilesTyped'
<1>. SUFFICES ASSUME NEW path \in DOMAIN files'
              PROVE  /\ IsSequence(path)
                     /\ DOMAIN files'[path] = {"readable", "lines"}
                     /\ IsSequence(files'[path].lines)
                     /\ \A i \in DOMAIN files'[path].lines : IsSequence(files'[path].lines[i].value)
  BY DEF FilesTyped
<1>1. CASE path = p
  BY <1>1, Zenon DEF FileChanges
<1>2. CASE path # p
  <2>1. path \in DOMAIN files /\ files'[path] = files[path]
    BY <1>2 DEF FileChanges
  <2>. QED  BY <2>1, Zenon DEF FilesTyped
<1>. QED  BY <1>1, <1>2

(* What cannot be read stays so: a search finds no more than before.         *)
LEMMA FindsStays ==
  ASSUME NEW p, FileChanges(p), NEW entity, NEW d, Finds(entity, d)'
  PROVE  Finds(entity, d)
<1>1. ASSUME NEW file, fileExists(file)' => Readable(file)', fileExists(file)
      PROVE  Readable(file)
  <2>1. CASE file = p
    BY <1>1, <2>1 DEF FileChanges
  <2>2. CASE file # p
    <3>1. file \in DOMAIN files' /\ files'[file] = files[file]
      BY <1>1, <2>2 DEF FileChanges, fileExists
    <3>. QED  BY <1>1, <3>1 DEF fileExists, Readable
  <2>. QED  BY <2>1, <2>2
<1>. QED  BY <1>1, Zenon DEF Finds

(* A file that can be written to could be before, unless its folder is new.  *)
LEMMA WritableStays ==
  ASSUME NEW p, FileChanges(p), NEW file, Base(Dir(file)) # WakaTimeProjectFile, Writable(file)'
  PROVE  Writable(file)
<1>1. fileExists(Dir(file))
  BY DEF Writable, fileExists, FileChanges
<1>2. fileExists(file) => Readable(file)
  <2>1. CASE file = p
    BY <2>1 DEF FileChanges
  <2>2. CASE file # p /\ fileExists(file)
    <3>1. file \in DOMAIN files' /\ files'[file] = files[file]
      BY <2>2 DEF FileChanges, fileExists
    <3>. QED  BY <3>1, Zenon DEF Writable, Readable, fileExists
  <2>. QED  BY <2>1, <2>2
<1>. QED  BY <1>1, <1>2 DEF Writable

-----------------------------------------------------------------------------
(* The invariant, command by command                                         *)

Good(c) ==
  /\ CommandTyped(c) /\ NameKnown(c) /\ SearchDone(c)
  /\ work[c].hide => \A i \in Detected(c) : NameHidden(work[c].hh[i])

FilesKept == files' = files \/ \E p : FileChanges(p)

(* A search finds no more than before, and what can be read is there still.  *)
LEMMA KeptFacts ==
  ASSUME FilesKept
  PROVE  /\ \A entity, d : Finds(entity, d)' => Finds(entity, d)
         /\ \A file : fileExists(file) /\ Readable(file) => fileExists(file)' /\ Readable(file)'
<1>1. CASE files' = files
  BY <1>1, Zenon DEF Finds, fileExists, Readable
<1>2. ASSUME NEW p, FileChanges(p)
      PROVE  /\ \A entity, d : Finds(entity, d)' => Finds(entity, d)
             /\ \A file : fileExists(file) /\ Readable(file) => fileExists(file)' /\ Readable(file)'
  <2>1. \A entity, d : Finds(entity, d)' => Finds(entity, d)
    BY <1>2, FindsStays
  <2>2. ASSUME NEW file, fileExists(file), Readable(file)
        PROVE  fileExists(file)' /\ Readable(file)'
    <3>1. CASE file = p
      BY <1>2, <3>1 DEF FileChanges, fileExists
    <3>2. CASE file # p
      <4>1. file \in DOMAIN files' /\ files'[file] = files[file]
        BY <1>2, <2>2, <3>2 DEF FileChanges, fileExists
      <4>. QED  BY <2>2, <4>1, Zenon DEF fileExists, Readable
    <3>. QED  BY <3>1, <3>2
  <2>. QED  BY <2>1, <2>2
<1>. QED  BY <1>1, <1>2 DEF FilesKept

(* What another command does changes nothing for this one.                   *)
LEMMA GoodStays ==
  ASSUME NEW c \in Command, Good(c), Same(c), FilesKept
  PROVE  Good(c)'
<1>1. /\ Heartbeat(c)' = Heartbeat(c) /\ Detected(c)' = Detected(c)
      /\ work'[c] = work[c] /\ n'[c] = n[c] /\ result'[c] = result[c] /\ pc'[c] = pc[c]
      /\ named'[c] = named[c] /\ ProjectFileOf(c)' = ProjectFileOf(c)
  BY Zenon DEF Same, Heartbeat, Detected, ProjectFileOf
<1>2. CommandTyped(c)'
  BY <1>1, Zenon DEF Good, CommandTyped
<1>3. NameKnown(c)'
  BY <1>1, Zenon DEF Good, NameKnown
<1>4. SearchDone(c)'
  <2>1. ASSUME pc[c] = "write" PROVE fileExists(ProjectFileOf(c))' /\ Readable(ProjectFileOf(c))'
    BY <1>1, <2>1, KeptFacts DEF Good, SearchDone
  <2>2. \A d : Finds(Heartbeat(c).entity, d)' => Finds(Heartbeat(c).entity, d)
    BY <1>1, KeptFacts
  <2>. QED  BY <1>1, <2>1, <2>2, Zenon DEF Good, SearchDone
<1>5. work'[c].hide => \A i \in Detected(c)' : NameHidden(work'[c].hh[i])
  BY <1>1, Zenon DEF Good
<1>. QED  BY <1>2, <1>3, <1>4, <1>5 DEF Good

(* The heartbeats that are detected: one more.                               *)
LEMMA DetectedGrows ==
  ASSUME NEW c \in Command, CommandTyped(c), pc[c] # "next", NEW r, Stored(c, r)
  PROVE  /\ Detected(c) \subseteq DOMAIN work[c].hh \ {n[c]}
         /\ Detected(c) \subseteq Detected(c)'
         /\ \A i \in Detected(c)' :
              i \in Detected(c) \/ (i = n[c] /\ Heartbeat(c).type = "file" /\ ~Heartbeat(c).unsaved)
         /\ Heartbeat(c).type = "file" /\ ~Heartbeat(c).unsaved => n[c] \in Detected(c)'
<1>. DEFINE hh == work[c].hh
            new == work'[c].hh
<1>1. /\ DOMAIN hh = 1 .. Len(hh) /\ Len(hh) \in Nat /\ n[c] \in DOMAIN hh /\ n[c] \in Nat \ {0}
      /\ n'[c] = n[c] + 1
  BY DEF CommandTyped, IsSequence, Stored
<1>2. /\ \A i \in DOMAIN hh \ {n[c]} : new[i] = hh[i]
      /\ new[n[c]].type = hh[n[c]].type /\ new[n[c]].unsaved = hh[n[c]].unsaved
  BY DEF Stored, SameHeartbeat
<1>3. /\ 1 .. n'[c] - 1 = (1 .. n[c] - 1) \cup {n[c]}
      /\ 1 .. n[c] - 1 \subseteq DOMAIN hh \ {n[c]}
  BY <1>1
<1>4. \A i : i \in Detected(c) <=> i \in 1 .. n[c] - 1 /\ hh[i].type = "file" /\ ~hh[i].unsaved
  BY DEF Detected
<1>5. \A i : i \in Detected(c)' <=> i \in 1 .. n'[c] - 1 /\ new[i].type = "file" /\ ~new[i].unsaved
  BY DEF Detected
<1>6. Heartbeat(c) = hh[n[c]]
  BY DEF Heartbeat
<1>. HIDE DEF hh, new
<1>. QED  BY <1>2, <1>3, <1>4, <1>5, <1>6, Zenon DEF hh

(* A command that has stored what it found.                                  *)
LEMMA GoodStored ==
  ASSUME NEW c \in Command, Good(c), pc[c] # "next", NEW r, Stored(c, r), IsSequence(r.folder),
         DOMAIN result'[c] = DOMAIN Undetected, IsSequence(result'[c].folder),
         work[c].hide /\ Heartbeat(c).type = "file" /\ ~Heartbeat(c).unsaved =>
           r.project \in Given(Heartbeat(c)) \cup GeneratedName \cup {""}
  PROVE  Good(c)'
<1>. DEFINE hh == work[c].hh
            new == work'[c].hh
<1>1. /\ DOMAIN new = DOMAIN hh /\ IsSequence(new) /\ IsSequence(hh)
      /\ \A i \in DOMAIN hh \ {n[c]} : new[i] = hh[i]
      /\ SameHeartbeat(new[n[c]], hh[n[c]])
      /\ new[n[c]].project = r.project /\ new[n[c]].projectPath = r.folder
      /\ DOMAIN work'[c] = {"hh", "hide"} /\ work'[c].hide = work[c].hide
      /\ n'[c] = n[c] + 1
      /\ n[c] \in DOMAIN hh /\ n[c] \in Nat \ {0}
      /\ IF pc'[c] = "next" THEN n[c] \in DOMAIN hh ELSE pc'[c] = "config" /\ n'[c] \in DOMAIN hh
      /\ Heartbeat(c) = hh[n[c]]
  BY DEF Stored, Good, CommandTyped, Heartbeat
<1>2. /\ Detected(c) \subseteq DOMAIN hh \ {n[c]}
      /\ \A i \in Detected(c)' :
           i \in Detected(c) \/ (i = n[c] /\ Heartbeat(c).type = "file" /\ ~Heartbeat(c).unsaved)
  BY DetectedGrows DEF Good
<1>3. pc'[c] \in {"config", "next"}
  BY <1>1
<1>4. CommandTyped(c)'
  <2>1. ASSUME NEW i \in DOMAIN new PROVE DOMAIN new[i] = Field /\ IsSequence(new[i].entity)
    <3>1. DOMAIN hh[i] = Field /\ IsSequence(hh[i].entity)
      BY <1>1, <2>1, Zenon DEF Good, CommandTyped
    <3>2. CASE i = n[c]
      BY <1>1, <3>1, <3>2, Zenon DEF SameHeartbeat
    <3>3. CASE i # n[c]
      BY <1>1, <3>1, <3>3
    <3>. QED  BY <3>2, <3>3
  <2>2. n'[c] \in Nat \ {0} /\ n'[c] - 1 = n[c]
    <3>1. n[c] \in Nat
      BY <1>1, Zenon
    <3>. QED  BY <1>1, <3>1, NextNumber, Zenon
  <2>3. IF pc'[c] = "next" THEN n'[c] - 1 \in DOMAIN new ELSE n'[c] \in DOMAIN new
    BY <1>1, <2>2
  <2>4. \A i \in Detected(c)' : IsSequence(new[i].projectPath)
    <3>. SUFFICES ASSUME NEW i \in Detected(c)' PROVE IsSequence(new[i].projectPath)
      OBVIOUS
    <3>1. CASE i = n[c]
      BY <1>1, <3>1
    <3>2. CASE i # n[c]
      <4>1. i \in Detected(c) /\ i \in DOMAIN hh \ {n[c]}
        BY <1>2, <3>2
      <4>. QED  BY <1>1, <4>1, Zenon DEF Good, CommandTyped
    <3>. QED  BY <3>1, <3>2
  <2>. QED  BY <1>1, <1>3, <2>1, <2>2, <2>3, <2>4, Zenon DEF CommandTyped
<1>5. NameKnown(c)' /\ SearchDone(c)'
  <2>1. pc'[c] \notin {"revcontrol", "truncate", "write"}
    BY <1>3
  <2>. QED  BY <2>1 DEF NameKnown, SearchDone
<1>6. ASSUME work'[c].hide, NEW i \in Detected(c)' PROVE NameHidden(new[i])
  <2>1. CASE i = n[c]
    <3>1. Heartbeat(c).type = "file" /\ ~Heartbeat(c).unsaved
      BY <1>2, <2>1
    <3>2. r.project \in Given(Heartbeat(c)) \cup GeneratedName \cup {""}
      BY <1>1, <1>6, <3>1
    <3>3. Given(new[i]) = Given(Heartbeat(c))
      BY <1>1, <2>1, Zenon DEF Given, SameHeartbeat
    <3>. QED  BY <1>1, <2>1, <3>2, <3>3, Zenon DEF NameHidden
  <2>2. CASE i # n[c]
    <3>1. i \in Detected(c) /\ i \in DOMAIN hh \ {n[c]}
      BY <1>2, <2>2
    <3>. QED  BY <1>1, <1>6, <3>1, Zenon DEF Good
  <2>. QED  BY <2>1, <2>2
<1>. QED  BY <1>4, <1>5, <1>6, Zenon DEF Good

-----------------------------------------------------------------------------
(* Each action keeps the invariant                                           *)

Domains ==
  /\ DOMAIN work = Command /\ DOMAIN n = Command /\ DOMAIN result = Command
  /\ DOMAIN pc = Command /\ DOMAIN named = Command

LEMMA InvariantParts ==
  IInv <=> FilesTyped /\ Domains /\ FileNamesKnown /\ \A c \in Command : Good(c)
BY Zenon DEF IInv, CommandsTyped, Domains, Good, NamesHidden

(* What an action of command c does to the invariant.                        *)
Keeps(c) ==
  /\ Good(c)' /\ Domains' /\ FilesKept /\ FilesTyped' /\ FileNamesKnown'
  /\ \A d \in Command \ {c} : Same(d)

LEMMA KeptInvariant ==
  ASSUME IInv, NEW c \in Command, Keeps(c)
  PROVE  IInv'
<1>1. ASSUME NEW d \in Command PROVE Good(d)'
  <2>1. CASE d = c
    BY <2>1 DEF Keeps
  <2>2. CASE d # c
    <3>1. Good(d) /\ Same(d) /\ FilesKept
      BY <2>2, InvariantParts DEF Keeps
    <3>. QED  BY <3>1, GoodStays
  <2>. QED  BY <2>1, <2>2
<1>2. FilesTyped' /\ Domains' /\ FileNamesKnown'
  BY DEF Keeps
<1>3. CommandsTyped' /\ NamesHidden' /\ \A d \in Command : NameKnown(d)' /\ SearchDone(d)'
  BY <1>1, <1>2, Zenon DEF Domains, Good, CommandsTyped, NamesHidden
<1>. QED  BY <1>2, <1>3, Zenon DEF IInv

(* The files are as they were.                                               *)
LEMMA FilesSame ==
  ASSUME IInv, files' = files
  PROVE  FilesKept /\ FilesTyped' /\ FileNamesKnown'
<1>1. FilesKept
  BY DEF FilesKept
<1>2. FilesTyped'
  BY Zenon DEF IInv, FilesTyped
<1>3. FileNamesKnown'
  BY Zenon DEF IInv, FileNamesKnown, NameIn
<1>. QED  BY <1>1, <1>2, <1>3

LEMMA OtherKeeps ==
  ASSUME IInv, NEW c \in Command, DetectOther(c)
  PROVE  Keeps(c)
<1>. DEFINE name == firstNonEmptyString(<<Heartbeat(c).override, Heartbeat(c).alternate>>)
            r == [Undetected EXCEPT !.project = name]
<1>1. pc[c] = "config" /\ (Heartbeat(c).type # "file" \/ Heartbeat(c).unsaved) /\ Store(c, r)
  BY DEF DetectOther
<1>2. files' = files /\ result' = result /\ named' = named
  BY DEF DetectOther
<1>3. IsSequence(r.folder)
  <2>1. r.folder = Undetected.folder
    BY DEF Undetected
  <2>. QED  BY <2>1, UndetectedParts, Tuples DEF None
<1>. HIDE DEF r
<1>4. /\ Stored(c, r) /\ DOMAIN work' = Command /\ DOMAIN n' = Command /\ DOMAIN pc' = Command
      /\ \A d \in Command \ {c} : work'[d] = work[d] /\ n'[d] = n[d] /\ pc'[d] = pc[d]
  BY <1>1, StoreFacts DEF IInv
<1>5. Good(c)
  BY InvariantParts
<1>6. DOMAIN result'[c] = DOMAIN Undetected /\ IsSequence(result'[c].folder)
  BY <1>2, <1>5 DEF Good, CommandTyped
<1>7. pc[c] # "next"
  BY <1>1
<1>8. ~(Heartbeat(c).type = "file" /\ ~Heartbeat(c).unsaved)
  BY <1>1
<1>9. Good(c)'
  BY <1>3, <1>4, <1>5, <1>6, <1>7, <1>8, GoodStored
<1>10. \A d \in Command \ {c} : Same(d)
  BY <1>2, <1>4, Zenon DEF Same
<1>11. Domains'
  BY <1>2, <1>4, Zenon, InvariantParts DEF Domains
<1>. QED  BY <1>2, <1>9, <1>10, <1>11, FilesSame, Zenon DEF Keeps

LEMMA ConfiguredKeeps ==
  ASSUME IInv, NEW c \in Command, DetectConfigured(c)
  PROVE  Keeps(c)
<1>. DEFINE h == Heartbeat(c)
            r == Configured(h)
            looked == {d \in DOMAIN files : Named(d)}
<1>1. pc[c] = "config" /\ h.type = "file" /\ ~h.unsaved
  BY DEF DetectConfigured
<1>2. files' = files /\ result' = [result EXCEPT ![c] = r] /\ named' = [named EXCEPT ![c] = looked]
  BY DEF DetectConfigured
<1>3. \/ pc' = [pc EXCEPT ![c] = "revcontrol"] /\ work' = work /\ n' = n
      \/ Store(c, r)
  BY DEF DetectConfigured
<1>4. Good(c) /\ Domains /\ FilesTyped /\ FileNamesKnown
  BY InvariantParts
<1>5. IsSequence(h.entity)
  <2>1. n[c] \in DOMAIN work[c].hh
    BY <1>1, <1>4 DEF Good, CommandTyped
  <2>. QED  BY <1>4, <2>1, Zenon DEF Good, CommandTyped, Heartbeat
<1>6. /\ DOMAIN r = Part /\ IsSequence(r.folder)
      /\ r.project \in Given(h) \cup GeneratedName \cup {""}
      /\ \A d : Finds(h.entity, d) /\ Named(d) => r.project # "" \/ (r.folder # None /\ r.folder # d)
  BY <1>4, <1>5, ConfiguredFacts
<1>7. DOMAIN Undetected = Part
  BY UndetectedParts
<1>. HIDE DEF r, looked
<1>8. result'[c] = r /\ named'[c] = looked /\ DOMAIN result' = Command /\ DOMAIN named' = Command
  BY <1>2, <1>4 DEF Domains
<1>9. \A d \in Command \ {c} : result'[d] = result[d] /\ named'[d] = named[d]
  BY <1>2, <1>4 DEF Domains
<1>10. CASE pc' = [pc EXCEPT ![c] = "revcontrol"] /\ work' = work /\ n' = n
  <2>1. pc'[c] = "revcontrol" /\ DOMAIN pc' = Command /\ \A d \in Command \ {c} : pc'[d] = pc[d]
    BY <1>4, <1>10 DEF Domains
  <2>2. /\ Heartbeat(c)' = h /\ Detected(c)' = Detected(c) /\ work'[c] = work[c] /\ n'[c] = n[c]
    BY <1>10, Zenon DEF Heartbeat, Detected
  <2>3. CommandTyped(c)'
    <3>1. pc[c] # "next" /\ pc'[c] # "next"
      BY <1>1, <2>1
    <3>. QED  BY <1>1, <1>4, <1>6, <1>7, <1>8, <2>2, <3>1, Zenon DEF Good, CommandTyped
  <2>4. NameKnown(c)'
    <3>1. pc'[c] \notin {"truncate", "write"}
      BY <2>1
    <3>. QED  BY <1>6, <1>8, <2>2, <3>1, Zenon DEF NameKnown
  <2>5. SearchDone(c)'
    <3>1. pc'[c] # "write"
      BY <2>1
    <3>2. ASSUME NEW d \in named'[c], Finds(h.entity, d)'
          PROVE  result'[c].project # "" \/ (result'[c].folder # None /\ result'[c].folder # d)
      <4>1. Finds(h.entity, d) /\ Named(d)
        <5>1. Named(d)
          BY <1>8, <3>2 DEF looked
        <5>2. Finds(h.entity, d)
          BY <1>2, <2>2, <3>2, FilesSame, KeptFacts
        <5>. QED  BY <5>1, <5>2
      <4>. QED  BY <1>6, <1>8, <4>1, Zenon
    <3>. QED  BY <2>1, <2>2, <3>1, <3>2, Zenon DEF SearchDone
  <2>6. Good(c)'
    BY <1>4, <2>2, <2>3, <2>4, <2>5, Zenon DEF Good
  <2>7. \A d \in Command \ {c} : Same(d)
    BY <1>9, <1>10, <2>1, Zenon DEF Same
  <2>8. Domains'
    BY <1>4, <1>8, <1>10, <2>1, Zenon DEF Domains
  <2>. QED  BY <1>2, <2>6, <2>7, <2>8, FilesSame, Zenon DEF Keeps
<1>11. CASE Store(c, r)
  <2>1. pc[c] # "next"
    BY <1>1
  <2>2. /\ Stored(c, r) /\ DOMAIN work' = Command /\ DOMAIN n' = Command /\ DOMAIN pc' = Command
        /\ \A d \in Command \ {c} : work'[d] = work[d] /\ n'[d] = n[d] /\ pc'[d] = pc[d]
    BY <1>11, <2>1, StoreFacts DEF IInv
  <2>3. DOMAIN result'[c] = DOMAIN Undetected /\ IsSequence(result'[c].folder)
    BY <1>6, <1>7, <1>8
  <2>4. Good(c)'
    BY <1>4, <1>6, <2>1, <2>2, <2>3, GoodStored
  <2>5. \A d \in Command \ {c} : Same(d)
    BY <1>9, <2>2, Zenon DEF Same
  <2>6. Domains'
    BY <1>8, <2>2, Zenon DEF Domains
  <2>. QED  BY <1>2, <2>4, <2>5, <2>6, FilesSame, Zenon DEF Keeps
<1>. QED  BY <1>3, <1>10, <1>11

(* What revision control adds.                                               *)
LEMMA CompletedParts ==
  ASSUME NEW r, DOMAIN r = Part, NEW rev, NEW project, NEW k, k = Completed(r, rev, project)
  PROVE  /\ DOMAIN k = Part /\ k.project = project
         /\ k.folder = IF r.folder # None THEN r.folder ELSE rev.folder
<1>1. DOMAIN k = Part
  BY DEF Completed
<1>2. k.project = project
  BY DEF Completed, Part
<1>3. k.folder = IF r.folder # None THEN r.folder ELSE rev.folder
  BY DEF Completed, Part
<1>. QED  BY <1>1, <1>2, <1>3

LEMMA RevControlKeeps ==
  ASSUME IInv, NEW c \in Command, DetectRevControl(c)
  PROVE  Keeps(c)
<1>. DEFINE h == Heartbeat(c)
            r == result[c]
            rev == DetectWithRevControl(h.entity)
            name_(generated) == Completed(r, rev, generated)
            project == firstNonEmptyString(<<r.project, rev.project, h.alternate>>)
<1>1. Good(c) /\ Domains /\ FilesTyped /\ FileNamesKnown
  BY InvariantParts
<1>2. pc[c] = "revcontrol" /\ files' = files /\ named' = named
  BY DEF DetectRevControl
<1>3. \/ /\ Obfuscates(c, rev)
         /\ \E generated \in GeneratedName : result' = [result EXCEPT ![c] = Completed(r, rev, generated)]
         /\ pc' = [pc EXCEPT ![c] = "truncate"] /\ work' = work /\ n' = n
      \/ ~Obfuscates(c, rev) /\ Store(c, Completed(r, rev, project)) /\ result' = result
  BY DEF DetectRevControl
<1>4. IsSequence(h.entity)
  <2>1. n[c] \in DOMAIN work[c].hh
    BY <1>1, <1>2 DEF Good, CommandTyped
  <2>. QED  BY <1>1, <2>1, Zenon DEF Good, CommandTyped, Heartbeat
<1>5. IsSequence(rev.folder)
  BY <1>1, <1>4, RevControlFacts DEF IsResult
<1>. HIDE DEF rev
<1>6. DOMAIN Undetected = Part /\ DOMAIN r = Part /\ IsSequence(r.folder)
  BY <1>1, UndetectedParts DEF Good, CommandTyped
<1>7. ASSUME NEW generated
      PROVE  LET k == Completed(r, rev, generated)
             IN  DOMAIN k = Part /\ k.project = generated /\ IsSequence(k.folder)
                 /\ k.folder = IF r.folder # None THEN r.folder ELSE rev.folder
  <2>. DEFINE k == Completed(r, rev, generated)
  <2>1. /\ DOMAIN k = Part /\ k.project = generated
        /\ k.folder = IF r.folder # None THEN r.folder ELSE rev.folder
    BY <1>6, CompletedParts
  <2>. HIDE DEF k
  <2>2. IsSequence(k.folder)
    BY <1>5, <1>6, <2>1
  <2>. QED  BY <2>1, <2>2 DEF k
<1>8. CASE /\ Obfuscates(c, rev)
           /\ \E generated \in GeneratedName : result' = [result EXCEPT ![c] = Completed(r, rev, generated)]
           /\ pc' = [pc EXCEPT ![c] = "truncate"] /\ work' = work /\ n' = n
  <2>1. PICK generated \in GeneratedName : result' = [result EXCEPT ![c] = Completed(r, rev, generated)]
    BY <1>8
  <2>. DEFINE k == Completed(r, rev, generated)
  <2>2. /\ DOMAIN k = Part /\ k.project = generated /\ IsSequence(k.folder)
        /\ k.folder = IF r.folder # None THEN r.folder ELSE rev.folder
    BY <1>7
  <2>. HIDE DEF k
  <2>3. result'[c] = k /\ DOMAIN result' = Command
    BY <1>1, <2>1 DEF Domains, k
  <2>4. \A d \in Command \ {c} : result'[d] = result[d]
    BY <1>1, <2>1 DEF Domains
  <2>5. pc'[c] = "truncate" /\ DOMAIN pc' = Command /\ \A d \in Command \ {c} : pc'[d] = pc[d]
    BY <1>1, <1>8 DEF Domains
  <2>6. Heartbeat(c)' = h /\ Detected(c)' = Detected(c) /\ work'[c] = work[c] /\ n'[c] = n[c]
    BY <1>8, Zenon DEF Heartbeat, Detected
  <2>7. h.type = "file" /\ ~h.unsaved
    BY <1>1, <1>2 DEF Good, CommandTyped
  <2>8. CommandTyped(c)'
    <3>1. pc[c] # "next" /\ pc'[c] # "next"
      BY <1>2, <2>5
    <3>. QED  BY <1>1, <1>6, <2>2, <2>3, <2>6, <2>7, <3>1, Zenon DEF Good, CommandTyped
  <2>9. NameKnown(c)'
    <3>1. pc'[c] # "revcontrol"
      BY <2>5
    <3>. QED  BY <2>2, <2>3, <3>1, Zenon DEF NameKnown
  <2>10. SearchDone(c)'
    <3>1. pc'[c] # "write" /\ pc'[c] # "revcontrol"
      BY <2>5
    <3>2. ASSUME NEW d \in named'[c], Finds(h.entity, d)'
          PROVE  result'[c].folder # None /\ result'[c].folder # d
      <4>1. Finds(h.entity, d) /\ d \in named[c]
        BY <1>2, <2>6, <3>2, FilesSame, KeptFacts
      <4>2. r.project = ""
        BY <1>8 DEF Obfuscates
      <4>3. r.folder # None /\ r.folder # d
        BY <1>1, <1>2, <4>1, <4>2, Zenon DEF Good, SearchDone
      <4>. QED  BY <2>2, <2>3, <4>3, Zenon
    <3>. QED  BY <2>6, <3>1, <3>2, Zenon DEF SearchDone
  <2>11. Good(c)'
    BY <1>1, <2>6, <2>8, <2>9, <2>10, Zenon DEF Good
  <2>12. \A d \in Command \ {c} : Same(d)
    BY <1>2, <1>8, <2>4, <2>5, Zenon DEF Same
  <2>13. Domains'
    BY <1>1, <1>2, <1>8, <2>3, <2>5, Zenon DEF Domains
  <2>. QED  BY <1>2, <2>11, <2>12, <2>13, FilesSame, Zenon DEF Keeps
<1>9. CASE ~Obfuscates(c, rev) /\ Store(c, Completed(r, rev, project)) /\ result' = result
  <2>. DEFINE k == Completed(r, rev, project)
  <2>1. DOMAIN k = Part /\ k.project = project /\ IsSequence(k.folder)
    BY <1>7
  <2>2. pc[c] # "next"
    BY <1>2
  <2>3. Store(c, k)
    BY <1>9
  <2>. HIDE DEF k, project
  <2>4. /\ Stored(c, k) /\ DOMAIN work' = Command /\ DOMAIN n' = Command /\ DOMAIN pc' = Command
        /\ \A d \in Command \ {c} : work'[d] = work[d] /\ n'[d] = n[d] /\ pc'[d] = pc[d]
    BY <2>2, <2>3, StoreFacts DEF IInv
  <2>5. DOMAIN result'[c] = DOMAIN Undetected /\ IsSequence(result'[c].folder)
    BY <1>6, <1>9
  <2>6. ASSUME work[c].hide PROVE k.project \in Given(h) \cup GeneratedName \cup {""}
    <3>1. r.project # "" \/ ~(rev.project # "")
      BY <1>9, <2>6, Zenon DEF Obfuscates
    <3>2. project \in {r.project, h.alternate}
      BY <3>1, FirstString, Zenon DEF project
    <3>3. h.alternate \in Given(h)
      BY DEF Given
    <3>4. r.project \in Given(h) \cup GeneratedName \cup {""}
      BY <1>1, <1>2 DEF Good, NameKnown
    <3>. QED  BY <2>1, <3>2, <3>3, <3>4
  <2>7. Good(c)'
    BY <1>1, <2>1, <2>2, <2>4, <2>5, <2>6, GoodStored
  <2>8. \A d \in Command \ {c} : Same(d)
    BY <1>2, <1>9, <2>4, Zenon DEF Same
  <2>9. Domains'
    BY <1>1, <1>2, <1>9, <2>4, Zenon DEF Domains
  <2>. QED  BY <1>2, <2>7, <2>8, <2>9, FilesSame, Zenon DEF Keeps
<1>. QED  BY <1>3, <1>8, <1>9

(* The names in project files stay known.                                    *)
LEMMA FileNamesStay ==
  ASSUME FileNamesKnown, NEW p, FileChanges(p),
         files'[p].lines # <<>> => NameIn(p)' \in FileNames \cup GeneratedName
  PROVE  FileNamesKnown'
<1>. SUFFICES ASSUME NEW path \in DOMAIN files', Base(path) = WakaTimeProjectFile, files'[path].lines # <<>>
              PROVE  NameIn(path)' \in FileNames \cup GeneratedName
  BY Zenon DEF FileNamesKnown
<1>1. CASE path = p
  BY <1>1, Zenon
<1>2. CASE path # p
  <2>1. path \in DOMAIN files /\ files'[path] = files[path]
    BY <1>2 DEF FileChanges
  <2>. QED  BY <2>1, Zenon DEF FileNamesKnown, NameIn
<1>. QED  BY <1>1, <1>2

LEMMA TruncateKeeps ==
  ASSUME IInv, NEW c \in Command, Truncate(c)
  PROVE  Keeps(c)
<1>. PICK p : p = ProjectFileOf(c)
  OBVIOUS
<1>1. Good(c) /\ Domains /\ FilesTyped /\ FileNamesKnown
  BY InvariantParts
<1>2. /\ pc[c] = "truncate" /\ pc' = [pc EXCEPT ![c] = "write"]
      /\ work' = work /\ n' = n /\ result' = result /\ named' = named
  BY DEF Truncate
<1>3. FileChanges(p) /\ files'[p].lines = <<>>
  BY TruncateFacts DEF IInv
<1>4. FilesKept /\ FilesTyped' /\ FileNamesKnown'
  BY <1>1, <1>3, FilesStayTyped, FileNamesStay DEF FilesKept
<1>5. pc'[c] = "write" /\ DOMAIN pc' = Command /\ \A d \in Command \ {c} : pc'[d] = pc[d]
  BY <1>1, <1>2 DEF Domains
<1>6. /\ Heartbeat(c)' = Heartbeat(c) /\ Detected(c)' = Detected(c) /\ ProjectFileOf(c)' = p
      /\ work'[c] = work[c] /\ n'[c] = n[c] /\ result'[c] = result[c] /\ named'[c] = named[c]
  BY <1>2, Zenon DEF Heartbeat, Detected, ProjectFileOf
<1>7. CommandTyped(c)'
  <2>1. pc[c] \notin {"config", "next"} /\ pc'[c] # "next"
    BY <1>2, <1>5
  <2>2. pc[c] # "next"
    BY <1>2
  <2>. QED  BY <1>1, <1>6, <2>1, <2>2, Zenon DEF Good, CommandTyped
<1>8. NameKnown(c)'
  <2>1. pc'[c] # "revcontrol"
    BY <1>5
  <2>. QED  BY <1>1, <1>2, <1>6, <2>1, Zenon DEF Good, NameKnown
<1>9. SearchDone(c)'
  <2>1. fileExists(p)' /\ Readable(p)'
    BY <1>3, Zenon DEF FileChanges, fileExists
  <2>2. pc[c] # "revcontrol"
    BY <1>2
  <2>3. \A d : Finds(Heartbeat(c).entity, d)' => Finds(Heartbeat(c).entity, d)
    BY <1>4, <1>6, KeptFacts
  <2>4. \A d \in named[c] : Finds(Heartbeat(c).entity, d) => result[c].folder # None /\ result[c].folder # d
    BY <1>1, <1>2, <2>2, Zenon DEF Good, SearchDone
  <2>. QED  BY <1>6, <2>1, <2>3, <2>4, Zenon DEF SearchDone
<1>10. Good(c)'
  BY <1>1, <1>6, <1>7, <1>8, <1>9, Zenon DEF Good
<1>11. \A d \in Command \ {c} : Same(d)
  BY <1>2, <1>5, Zenon DEF Same
<1>12. Domains'
  BY <1>1, <1>2, <1>5, Zenon DEF Domains
<1>. QED  BY <1>4, <1>10, <1>11, <1>12, Zenon DEF Keeps

(* A command that has written, or could not, stores the name it generated.   *)
LEMMA GeneratedStored ==
  ASSUME IInv, NEW c \in Command, pc[c] \in {"truncate", "write"},
         Store(c, result[c]), result' = result, named' = named
  PROVE  Good(c)' /\ Domains' /\ Stored(c, result[c]) /\ \A d \in Command \ {c} : Same(d)
<1>1. Good(c) /\ Domains
  BY InvariantParts
<1>2. pc[c] # "next"
  OBVIOUS
<1>3. /\ Stored(c, result[c]) /\ DOMAIN work' = Command /\ DOMAIN n' = Command /\ DOMAIN pc' = Command
      /\ \A d \in Command \ {c} : work'[d] = work[d] /\ n'[d] = n[d] /\ pc'[d] = pc[d]
  BY <1>2, StoreFacts DEF IInv
<1>4. /\ DOMAIN result'[c] = DOMAIN Undetected /\ IsSequence(result'[c].folder)
      /\ IsSequence(result[c].folder)
  BY <1>1 DEF Good, CommandTyped
<1>5. result[c].project \in Given(Heartbeat(c)) \cup GeneratedName \cup {""}
  BY <1>1 DEF Good, NameKnown
<1>6. Good(c)'
  BY <1>1, <1>2, <1>3, <1>4, <1>5, GoodStored
<1>. QED  BY <1>1, <1>3, <1>6, Zenon DEF Same, Domains

LEMMA WriteFailsKeeps ==
  ASSUME IInv, NEW c \in Command, WriteFails(c)
  PROVE  Keeps(c)
<1>1. pc[c] \in {"truncate", "write"} /\ Store(c, result[c])
  BY DEF WriteFails
<1>2. files' = files /\ result' = result /\ named' = named
  BY DEF WriteFails
<1>. QED  BY <1>1, <1>2, GeneratedStored, FilesSame DEF Keeps

LEMMA WriteKeeps ==
  ASSUME IInv, NEW c \in Command, Write(c)
  PROVE  Keeps(c)
<1>. PICK p : p = ProjectFileOf(c)
  OBVIOUS
<1>1. Good(c) /\ FilesTyped /\ FileNamesKnown
  BY InvariantParts
<1>2. pc[c] = "write" /\ Store(c, result[c]) /\ result' = result /\ named' = named
  BY DEF Write
<1>3. FileChanges(p) /\ NameIn(p)' = result[c].project
  BY <1>1, WriteFacts DEF IInv, Good
<1>4. NameIn(p)' \in FileNames \cup GeneratedName
  BY <1>1, <1>2, <1>3 DEF Good, NameKnown
<1>5. FilesKept /\ FilesTyped' /\ FileNamesKnown'
  BY <1>1, <1>3, <1>4, FilesStayTyped, FileNamesStay DEF FilesKept
<1>6. Good(c)' /\ Domains' /\ \A d \in Command \ {c} : Same(d)
  BY <1>2, GeneratedStored
<1>. QED  BY <1>5, <1>6 DEF Keeps

LEMMA WriteBreaksOffKeeps ==
  ASSUME IInv, NEW c \in Command, WriteBreaksOff(c)
  PROVE  Keeps(c)
<1>1. pc[c] \in {"truncate", "write"} /\ Store(c, result[c])
  BY DEF WriteBreaksOff
<1>2. files' = files /\ result' = result /\ named' = named
  BY DEF WriteBreaksOff
<1>. QED  BY <1>1, <1>2, GeneratedStored, FilesSame DEF Keeps

LEMMA KillKeeps ==
  ASSUME IInv, NEW c \in Command, Kill(c) \/ Panic(c)
  PROVE  Keeps(c)
<1>1. Good(c) /\ Domains
  BY InvariantParts
<1>2. /\ pc[c] \in {"revcontrol", "truncate", "write"} /\ pc' = [pc EXCEPT ![c] = "killed"]
      /\ files' = files /\ work' = work /\ n' = n /\ result' = result /\ named' = named
  BY DEF Kill, Panic
<1>3. pc'[c] = "killed" /\ DOMAIN pc' = Command /\ \A d \in Command \ {c} : pc'[d] = pc[d]
  BY <1>1, <1>2 DEF Domains
<1>4. /\ Heartbeat(c)' = Heartbeat(c) /\ Detected(c)' = Detected(c)
      /\ work'[c] = work[c] /\ n'[c] = n[c] /\ result'[c] = result[c]
  BY <1>2, Zenon DEF Heartbeat, Detected
<1>5. CommandTyped(c)'
  <2>1. pc[c] \notin {"config", "next"} /\ pc'[c] # "next"
    BY <1>2, <1>3
  <2>2. pc[c] # "next"
    BY <1>2
  <2>. QED  BY <1>1, <1>4, <2>1, <2>2, Zenon DEF Good, CommandTyped
<1>6. NameKnown(c)' /\ SearchDone(c)'
  <2>1. pc'[c] \notin {"revcontrol", "truncate", "write"}
    BY <1>3
  <2>. QED  BY <2>1 DEF NameKnown, SearchDone
<1>7. Good(c)'
  BY <1>1, <1>4, <1>5, <1>6, Zenon DEF Good
<1>8. \A d \in Command \ {c} : Same(d)
  BY <1>2, <1>3, Zenon DEF Same
<1>9. Domains'
  BY <1>1, <1>2, <1>3, Zenon DEF Domains
<1>. QED  BY <1>2, <1>7, <1>8, <1>9, FilesSame, Zenon DEF Keeps

(* At the start nothing is detected, and the project files are the users'.   *)
LEMMA Start ==
  ASSUME Init
  PROVE  IInv
<1>1. /\ files \in Tree /\ work \in [Command -> Work]
      /\ n = [c \in Command |-> 1] /\ result = [c \in Command |-> Undetected]
      /\ pc = [c \in Command |-> "config"] /\ named = [c \in Command |-> {}]
  BY DEF Init
<1>2. FilesTyped
  <2>1. ASSUME NEW path \in DOMAIN files
        PROVE  /\ IsSequence(path) /\ DOMAIN files[path] = {"readable", "lines"}
               /\ IsSequence(files[path].lines)
               /\ \A line \in Range(files[path].lines) : IsSequence(line.value)
    BY <1>1, TreeAssumption
  <2>2. ASSUME NEW path \in DOMAIN files, NEW i \in DOMAIN files[path].lines
        PROVE  IsSequence(files[path].lines[i].value)
    BY <2>1 DEF Range
  <2>. QED  BY <2>1, <2>2 DEF FilesTyped
<1>3. Domains
  BY <1>1 DEF Domains
<1>4. FileNamesKnown
  <2>. SUFFICES ASSUME NEW path \in DOMAIN files, Base(path) = WakaTimeProjectFile, files[path].lines # <<>>
                PROVE  NameIn(path) \in FileNames
    BY DEF FileNamesKnown
  <2>. DEFINE first(tree) == {tree[q].lines[1] : q \in {q \in DOMAIN tree : Base(q) = WakaTimeProjectFile
                                                                  /\ tree[q].lines # <<>>}}
  <2>1. files[path].lines[1] \in first(files)
    OBVIOUS
  <2>2. files[path].lines[1] \in UNION {first(tree) : tree \in Tree}
    BY <1>1, <2>1
  <2>. QED  BY <2>2 DEF FileNames, NameIn
<1>5. ASSUME NEW c \in Command PROVE Good(c)
  <2>1. n[c] = 1 /\ result[c] = Undetected /\ pc[c] = "config" /\ work[c] \in Work
    BY <1>1
  <2>2. Detected(c) = {}
    BY <2>1 DEF Detected
  <2>3. /\ DOMAIN work[c] = {"hh", "hide"} /\ IsSequence(work[c].hh) /\ work[c].hh # <<>>
        /\ \A h \in Range(work[c].hh) : DOMAIN h = Field /\ IsSequence(h.entity)
    BY <2>1, WorkAssumption
  <2>4. \A i \in DOMAIN work[c].hh : DOMAIN work[c].hh[i] = Field /\ IsSequence(work[c].hh[i].entity)
    BY <2>3 DEF Range
  <2>5. n[c] \in DOMAIN work[c].hh /\ n[c] \in Nat \ {0}
    <3>1. /\ DOMAIN work[c].hh = 1 .. Len(work[c].hh) /\ Len(work[c].hh) \in Nat
          /\ Len(work[c].hh) # 0
      BY <2>3, EmptySeq DEF IsSequence
    <3>. QED  BY <2>1, <3>1
  <2>6. DOMAIN result[c] = DOMAIN Undetected /\ IsSequence(result[c].folder)
    BY <2>1, UndetectedParts, Tuples DEF None
  <2>7. pc[c] # "next" /\ pc[c] \notin {"revcontrol", "truncate", "write"} /\ pc[c] \in {"config", "next"}
    BY <2>1
  <2>. QED  BY <2>2, <2>3, <2>4, <2>5, <2>6, <2>7, Zenon DEF Good, CommandTyped, NameKnown, SearchDone
<1>. QED  BY <1>2, <1>3, <1>4, <1>5, InvariantParts

(* Each step is one of these actions.                                        *)
LEMMA Step ==
  ASSUME IInv, Next
  PROVE  \E c \in Command : Keeps(c)
BY OtherKeeps, ConfiguredKeeps, RevControlKeeps, TruncateKeeps, WriteFailsKeeps, WriteKeeps,
   WriteBreaksOffKeeps, KillKeeps DEF Next

(* IInv is inductive.                                                        *)
THEOREM DetectionInvariant == Spec => []IInv
<1>1. Init => IInv
  BY Start
<1>2. IInv /\ [Next]_vars => IInv'
  <2>. SUFFICES ASSUME IInv, [Next]_vars PROVE IInv'
    OBVIOUS
  <2>1. CASE Next
    BY <2>1, Step, KeptInvariant
  <2>2. CASE UNCHANGED vars
    <3>1. /\ files' = files /\ work' = work /\ n' = n /\ result' = result /\ pc' = pc /\ named' = named
      BY <2>2 DEF vars
    <3>2. ASSUME NEW c \in Command PROVE Good(c)'
      BY <3>1, FilesSame, InvariantParts, GoodStays DEF Same
    <3>3. FilesTyped' /\ Domains' /\ FileNamesKnown'
      BY <3>1, FilesSame, InvariantParts, Zenon DEF Domains
    <3>4. CommandsTyped' /\ NamesHidden' /\ \A d \in Command : NameKnown(d)' /\ SearchDone(d)'
      BY <3>2, <3>3, Zenon DEF Domains, Good, CommandsTyped, NamesHidden
    <3>. QED  BY <3>3, <3>4, Zenon DEF IInv
  <2>. QED  BY <2>1, <2>2
<1>. QED  BY <1>1, <1>2, PTL DEF Spec

(* hide_project_names: a heartbeat whose project name is to be hidden has    *)
(* a name that was given or generated, or none, whatever is in the tree and  *)
(* in revision control, and whatever other commands write meanwhile.         *)
THEOREM HiddenNamesStayHidden == Spec => []NamesHidden
<1>1. IInv => NamesHidden
  BY DEF IInv
<1>. QED  BY <1>1, DetectionInvariant, PTL

(* A name in a project file is replaced only by a command that looked before *)
(* it was there, or whose search does not find it.                           *)
THEOREM NamesAreKept == Spec => NameKept
<1>. DEFINE Kept(d) ==
       Named(d) /\ files'[ProjectFileIn(d)] # files[ProjectFileIn(d)]
         => \E c \in Command :
              /\ pc[c] \in {"truncate", "write"} /\ result[c].folder = d
              /\ Finds(Heartbeat(c).entity, d) => d \notin named[c]
<1>1. ASSUME IInv, Next, NEW d \in DOMAIN files PROVE Kept(d)
  <2>. SUFFICES ASSUME Named(d), files'[ProjectFileIn(d)] # files[ProjectFileIn(d)]
                PROVE  \E c \in Command :
                         /\ pc[c] \in {"truncate", "write"} /\ result[c].folder = d
                         /\ Finds(Heartbeat(c).entity, d) => d \notin named[c]
    OBVIOUS
  <2>1. PICK c \in Command : Truncate(c) \/ Write(c)
    <3>1. files' # files
      OBVIOUS
    <3>. QED  BY <1>1, <3>1 DEF Next, DetectOther, DetectConfigured, DetectRevControl, Panic, WriteFails,
                              WriteBreaksOff, Kill
  <2>2. Good(c)
    BY <1>1, InvariantParts
  <2>. PICK p : p = ProjectFileOf(c)
    OBVIOUS
  <2>3. FileChanges(p) /\ Dir(p) = result[c].folder
    BY <1>1, <2>1, <2>2, TruncateFacts, WriteFacts DEF IInv, Good
  <2>4. ProjectFileIn(d) = p
    <3>1. ProjectFileIn(d) \in DOMAIN files
      BY DEF Named, fileExists
    <3>. QED  BY <2>3, <3>1 DEF FileChanges
  <2>5. d = result[c].folder
    <3>1. IsSequence(d)
      BY <1>1 DEF IInv, FilesTyped
    <3>2. Dir(ProjectFileIn(d)) = d
      BY <3>1, PathFacts DEF ProjectFileIn
    <3>. QED  BY <2>3, <2>4, <3>2
  <2>6. pc[c] \in {"truncate", "write"} /\ pc[c] # "revcontrol"
    BY <2>1 DEF Truncate, Write
  <2>7. Finds(Heartbeat(c).entity, d) => d \notin named[c]
    BY <2>2, <2>5, <2>6, Zenon DEF Good, SearchDone
  <2>. QED  BY <2>5, <2>6, <2>7
<1>2. ASSUME IInv, [Next]_vars PROVE [\A d \in DOMAIN files : Kept(d)]_vars
  <2>1. CASE Next
    BY <1>1, <1>2, <2>1
  <2>2. CASE UNCHANGED vars
    BY <2>2
  <2>. QED  BY <1>2, <2>1, <2>2
<1>. HIDE DEF Kept
<1>3. Spec => [][\A d \in DOMAIN files : Kept(d)]_vars
  BY <1>2, DetectionInvariant, PTL DEF Spec
<1>. QED  BY <1>3 DEF NameKept, Kept

-----------------------------------------------------------------------------
(* A generated name lasts                                                    *)

Acts(c) ==
  \/ DetectOther(c) \/ DetectConfigured(c) \/ DetectRevControl(c)
  \/ Panic(c) \/ Truncate(c) \/ WriteFails(c) \/ Write(c) \/ WriteBreaksOff(c) \/ Kill(c)

(* What an action does to the heartbeats, to the files and to the others.    *)
LEMMA ActFacts ==
  ASSUME IInv, NEW c \in Command, Acts(c)
  PROVE  /\ Keeps(c) /\ Good(c)
         /\ (work' = work /\ n' = n) \/ (pc[c] # "next" /\ \E r : Stored(c, r))
         /\ Truncate(c) \/ Write(c) \/ files' = files
<1>1. Keeps(c)
  BY OtherKeeps, ConfiguredKeeps, RevControlKeeps, TruncateKeeps, WriteFailsKeeps, WriteKeeps,
     WriteBreaksOffKeeps, KillKeeps DEF Acts
<1>2. Good(c)
  BY InvariantParts
<1>3. (work' = work /\ n' = n) \/ (pc[c] # "next" /\ \E r : Store(c, r))
  BY DEF Acts, DetectOther, DetectConfigured, DetectRevControl, Panic, Truncate, WriteFails, Write,
         WriteBreaksOff, Kill
<1>4. (pc[c] # "next" /\ \E r : Store(c, r)) => \E r : Stored(c, r)
  BY StoreFacts DEF IInv
<1>5. Truncate(c) \/ Write(c) \/ files' = files
  BY DEF Acts, DetectOther, DetectConfigured, DetectRevControl, Panic, WriteFails, WriteBreaksOff, Kill
<1>. QED  BY <1>1, <1>2, <1>3, <1>4, <1>5

(* What is detected stays as it is.                                          *)
LEMMA HistoryStays ==
  ASSUME IInv, NEW c \in Command, Acts(c), NEW d \in Command, NEW i \in Detected(d)
  PROVE  i \in Detected(d)' /\ work'[d].hh[i] = work[d].hh[i]
<1>1. CASE work' = work /\ n' = n
  BY <1>1, Zenon DEF Detected
<1>2. CASE d # c
  <2>1. work'[d] = work[d] /\ n'[d] = n[d]
    BY <1>2, ActFacts DEF Keeps, Same
  <2>. QED  BY <2>1, Zenon DEF Detected
<1>3. ASSUME d = c, pc[c] # "next", NEW r, Stored(c, r)
      PROVE  i \in Detected(d)' /\ work'[d].hh[i] = work[d].hh[i]
  <2>1. /\ Detected(c) \subseteq DOMAIN work[c].hh \ {n[c]}
        /\ Detected(c) \subseteq Detected(c)'
    BY <1>3, ActFacts, DetectedGrows DEF Good
  <2>2. i \in DOMAIN work[c].hh \ {n[c]}
    BY <1>3, <2>1
  <2>3. work'[c].hh[i] = work[c].hh[i]
    BY <1>3, <2>2 DEF Stored
  <2>4. i \in Detected(c)'
    BY <1>3, <2>1
  <2>. QED  BY <1>3, <2>3, <2>4, Zenon
<1>. QED  BY <1>1, <1>2, <1>3, ActFacts

(* A name that is given stays given.                                         *)
LEMMA GivenStays ==
  ASSUME IInv, NEW c \in Command, Acts(c), NEW file, IsGiven(file), files'[file] = files[file]
  PROVE  IsGiven(file)'
<1>1. PICK d \in Command : \E i \in Detected(d) :
        ProjectFileIn(work[d].hh[i].projectPath) = file /\ work[d].hh[i].project = NameIn(file)
  BY Zenon DEF IsGiven
<1>2. PICK i \in Detected(d) :
        ProjectFileIn(work[d].hh[i].projectPath) = file /\ work[d].hh[i].project = NameIn(file)
  BY <1>1
<1>3. i \in Detected(d)' /\ work'[d].hh[i] = work[d].hh[i]
  BY HistoryStays
<1>4. NameIn(file)' = NameIn(file)
  BY Zenon DEF NameIn
<1>. QED  BY <1>2, <1>3, <1>4, Zenon DEF IsGiven

(* A name that was written is that of a heartbeat.                           *)
LEMMA WrittenIsGiven ==
  ASSUME IInv, NEW c \in Command, Write(c), NEW p, p = ProjectFileOf(c)
  PROVE  fileExists(p)' /\ files'[p].lines # <<>> /\ IsGiven(p)'
<1>1. Good(c) /\ FilesTyped
  BY InvariantParts
<1>2. FileChanges(p) /\ files'[p].lines # <<>> /\ NameIn(p)' = result[c].project
  BY <1>1, WriteFacts DEF IInv, Good
<1>3. pc[c] = "write" /\ Store(c, result[c]) /\ result' = result /\ named' = named
  BY DEF Write
<1>4. Stored(c, result[c])
  BY <1>3, GeneratedStored
<1>5. pc[c] # "next" /\ Heartbeat(c).type = "file" /\ ~Heartbeat(c).unsaved
  BY <1>1, <1>3 DEF Good, CommandTyped
<1>6. n[c] \in Detected(c)'
  BY <1>1, <1>4, <1>5, DetectedGrows DEF Good
<1>7. work'[c].hh[n[c]].project = NameIn(p)' /\ ProjectFileIn(work'[c].hh[n[c]].projectPath) = p
  BY <1>2, <1>4, Zenon DEF Stored, ProjectFileOf
<1>8. fileExists(p)'
  BY <1>2 DEF FileChanges, fileExists
<1>. QED  BY <1>2, <1>6, <1>7, <1>8, Zenon DEF IsGiven

(* A command about to write, or killed before, is so until it has written or *)
(* failed to.                                                                *)
LEMMA WriterStays ==
  ASSUME IInv, NEW c \in Command, Acts(c), ~Write(c), ~WriteBreaksOff(c), NEW d \in Command, pc[d] \in {"write", "killed"}
  PROVE  pc'[d] \in {"write", "killed"} /\ ProjectFileOf(d)' = ProjectFileOf(d)
<1>1. CASE d # c
  <2>1. Same(d)
    BY <1>1, ActFacts DEF Keeps
  <2>. QED  BY <2>1, Zenon DEF Same, ProjectFileOf
<1>2. CASE d = c
  <2>1. Kill(c)
    BY <1>2 DEF Acts, DetectOther, DetectConfigured, DetectRevControl, Panic, Truncate, WriteFails
  <2>2. pc' = [pc EXCEPT ![c] = "killed"] /\ result' = result
    BY <2>1 DEF Kill
  <2>3. pc'[c] = "killed"
    BY <2>2, InvariantParts DEF Domains
  <2>. QED  BY <1>2, <2>2, <2>3, Zenon DEF ProjectFileOf
<1>. QED  BY <1>1, <1>2

(* What could not be written is not forgotten.                               *)
LEMMA LostStays ==
  ASSUME NEW c \in Command, Acts(c)
  PROVE  lost \subseteq lost'
BY DEF Acts, DetectOther, DetectConfigured, DetectRevControl, Panic, Truncate, WriteFails, Write,
       WriteBreaksOff, Kill

(* A file goes on holding a name, that one or another that is given.         *)
LEMMA HoldsStays ==
  ASSUME IInv, NEW c \in Command, Acts(c), NEW file, NEW name, Holds(file, name)
  PROVE  Holds(file, name)'
<1>. PICK p : p = ProjectFileOf(c)
  OBVIOUS
<1>1. CASE Write(c) /\ file = p
  BY <1>1, WrittenIsGiven, Zenon DEF Holds
<1>2. CASE Truncate(c) /\ file = p
  <2>1. FileChanges(p)
    BY <1>2, TruncateFacts DEF IInv
  <2>2. fileExists(p)'
    BY <2>1 DEF FileChanges, fileExists
  <2>3. pc'[c] = "write" /\ result' = result
    BY <1>2, InvariantParts DEF Truncate, Domains
  <2>4. ProjectFileOf(c)' = p
    BY <2>3, Zenon DEF ProjectFileOf
  <2>. QED  BY <1>2, <2>2, <2>3, <2>4 DEF Holds
<1>3. CASE files' = files \/ ((Truncate(c) \/ Write(c)) /\ file # p)
  <2>1. fileExists(file)' /\ files'[file] = files[file]
    <3>1. CASE files' = files
      BY <3>1 DEF Holds, fileExists
    <3>2. CASE (Truncate(c) \/ Write(c)) /\ file # p
      <4>1. FileChanges(p)
        BY <3>2, ActFacts, TruncateFacts, WriteFacts DEF IInv, Good
      <4>. QED  BY <3>2, <4>1 DEF FileChanges, Holds, fileExists
    <3>. QED  BY <1>3, <3>1, <3>2
  <2>2. NameIn(file)' = NameIn(file) /\ (IsGiven(file) => IsGiven(file)')
    BY <2>1, GivenStays, Zenon DEF NameIn
  <2>3. CASE files[file].lines # <<>> /\ (NameIn(file) = name \/ IsGiven(file))
    BY <2>1, <2>2, <2>3, Zenon DEF Holds
  <2>4. ASSUME NEW d \in Command, pc[d] \in {"write", "killed"}, ProjectFileOf(d) = file
        PROVE  Holds(file, name)'
    <3>1. CASE ~Write(c) /\ ~(WriteBreaksOff(c) /\ d = c)
      <4>1. CASE ~WriteBreaksOff(c)
        BY <2>1, <2>4, <3>1, <4>1, WriterStays DEF Holds
      <4>2. CASE d # c
        <5>1. Same(d)
          BY <2>4, <4>2, ActFacts DEF Keeps
        <5>2. pc'[d] \in {"write", "killed"} /\ ProjectFileOf(d)' = file
          BY <2>4, <5>1, Zenon DEF Same, ProjectFileOf
        <5>. QED  BY <2>1, <5>2 DEF Holds
      <4>. QED  BY <3>1, <4>1, <4>2
    <3>3. CASE WriteBreaksOff(c) /\ d = c
      <4>1. file \in lost'
        BY <2>4, <3>3 DEF WriteBreaksOff
      <4>. QED  BY <2>1, <4>1 DEF Holds
    <3>2. CASE Write(c) /\ file # p
      <4>1. Same(d)
        BY <2>4, <3>2, ActFacts DEF Keeps
      <4>2. pc'[d] \in {"write", "killed"} /\ ProjectFileOf(d)' = file
        BY <2>4, <4>1, Zenon DEF Same, ProjectFileOf
      <4>. QED  BY <2>1, <4>2 DEF Holds
    <3>. QED  BY <1>1, <3>1, <3>2, <3>3
  <2>5. CASE file \in lost
    <3>1. file \in lost'
      BY <2>5, LostStays
    <3>. QED  BY <2>1, <3>1 DEF Holds
  <2>. QED  BY <2>3, <2>4, <2>5 DEF Holds
<1>. QED  BY <1>1, <1>2, <1>3, ActFacts

(* The name of a heartbeat stays in the project file of its project.         *)
LEMMA KeptStays ==
  ASSUME IInv, NEW c \in Command, Acts(c), NEW h, IsSequence(h.projectPath), IsKept(h)
  PROVE  IsKept(h)'
<1>. DEFINE file == ProjectFileIn(h.projectPath)
<1>. SUFFICES ASSUME Hidden(h), Writable(file)'
              PROVE  Holds(file, h.project)'
  BY Zenon DEF IsKept, Hidden
<1>1. Base(Dir(file)) # WakaTimeProjectFile
  BY PathFacts DEF Hidden, ProjectFileIn
<1>2. Writable(file)
  <2>1. CASE files' = files
    BY <2>1, Zenon DEF Writable, fileExists, Readable
  <2>2. ASSUME NEW p, FileChanges(p) PROVE Writable(file)
    BY <1>1, <2>2, WritableStays
  <2>. QED  BY <2>1, <2>2, ActFacts DEF Keeps, FilesKept
<1>3. Holds(file, h.project)
  BY <1>2, Zenon DEF IsKept
<1>. QED  BY <1>3, HoldsStays

(* r is what command c stores for a file.                                    *)
FromRevControl(c) ==
  LET rev == DetectWithRevControl(Heartbeat(c).entity)
  IN  Completed(result[c], rev,
                firstNonEmptyString(<<result[c].project, rev.project, Heartbeat(c).alternate>>))

Stores(c, r) ==
  \/ DetectConfigured(c) /\ r = Configured(Heartbeat(c))
  \/ /\ DetectRevControl(c) /\ ~Obfuscates(c, DetectWithRevControl(Heartbeat(c).entity))
     /\ r = FromRevControl(c)
  \/ (WriteFails(c) \/ Write(c) \/ WriteBreaksOff(c)) /\ r = result[c]

(* The name of a heartbeat that is stored is in the project file.            *)
LEMMA StoredIsKept ==
  ASSUME IInv, NamesFresh, WorkFresh, NamesLast, NEW c \in Command, Acts(c), work[c].hide,
         pc[c] # "next", NEW r, Stores(c, r),
         NEW g, g.project = r.project, g.projectPath = r.folder, Hidden(g)
  PROVE  IsKept(g)'
<1>. PICK file : file = ProjectFileIn(r.folder)
  OBVIOUS
<1>. SUFFICES ASSUME Writable(file)' PROVE Holds(file, r.project)'
  BY Zenon DEF IsKept
<1>. DEFINE h == Heartbeat(c)
<1>1. Good(c) /\ FilesTyped /\ FileNamesKnown
  BY InvariantParts
<1>2. r.project \in GeneratedName
  BY DEF Hidden
<1>3. n[c] \in DOMAIN work[c].hh
  BY <1>1 DEF Good, CommandTyped
<1>4. h.override \notin GeneratedName /\ h.alternate \notin GeneratedName
  BY <1>3 DEF WorkFresh, Heartbeat
<1>5. CASE DetectConfigured(c) /\ r = Configured(h)
  <2>1. IsSequence(h.entity)
    BY <1>1, <1>3, Zenon DEF Good, CommandTyped, Heartbeat
  <2>2. \/ r.project \in {h.override, ""} \cup {q.name : q \in Range(MapPattern)}
        \/ fileExists(file) /\ files[file].lines # <<>> /\ r.project = NameIn(file)
    BY <1>1, <1>5, <2>1, ConfiguredFacts, Zenon
  <2>3. fileExists(file) /\ files[file].lines # <<>> /\ r.project = NameIn(file)
    BY <1>2, <1>4, <2>2 DEF NamesFresh
  <2>4. Holds(file, r.project)
    BY <2>3, Zenon DEF Holds
  <2>. QED  BY <2>4, HoldsStays
<1>6. CASE /\ DetectRevControl(c) /\ ~Obfuscates(c, DetectWithRevControl(Heartbeat(c).entity))
           /\ r = FromRevControl(c)
  <2>. DEFINE rev == DetectWithRevControl(h.entity)
              project == firstNonEmptyString(<<result[c].project, rev.project, h.alternate>>)
  <2>. HIDE DEF rev
  <2>1. DOMAIN result[c] = Part
    BY <1>1, UndetectedParts DEF Good, CommandTyped
  <2>2. /\ r.project = project
        /\ r.folder = IF result[c].folder # None THEN result[c].folder ELSE rev.folder
    <3>. PICK k : k = project
      OBVIOUS
    <3>1. r = Completed(result[c], rev, k)
      BY <1>6 DEF FromRevControl, rev
    <3>. HIDE DEF project
    <3>. QED  BY <2>1, <3>1, CompletedParts
  <2>3. result[c].project # "" \/ ~(rev.project # "")
    BY <1>6, Zenon DEF Obfuscates, rev
  <2>4. project \in {result[c].project, h.alternate}
    BY <2>3, FirstString, Zenon DEF project
  <2>. HIDE DEF project
  <2>5. project = result[c].project
    BY <1>2, <1>4, <2>2, <2>4
  <2>6. pc[c] = "revcontrol"
    BY <1>6 DEF DetectRevControl
  <2>7. result[c].folder # None /\ Holds(ProjectFileOf(c), result[c].project)
    BY <1>2, <2>2, <2>5, <2>6, Zenon DEF NamesLast
  <2>8. file = ProjectFileOf(c)
    BY <2>2, <2>7, Zenon DEF ProjectFileOf
  <2>9. Holds(file, r.project)
    BY <2>2, <2>5, <2>7, <2>8, Zenon
  <2>. QED  BY <2>9, HoldsStays
<1>7. CASE WriteFails(c) /\ r = result[c]
  <2>1. ~Writable(file) /\ files' = files
    BY <1>7 DEF WriteFails, ProjectFileOf
  <2>2. ~Writable(file)'
    BY <2>1, Zenon DEF Writable, fileExists, Readable
  <2>. QED  BY <2>2
<1>8. CASE Write(c) /\ r = result[c]
  <2>1. file = ProjectFileOf(c)
    BY <1>8 DEF ProjectFileOf
  <2>. QED  BY <1>8, <2>1, WrittenIsGiven, Zenon DEF Holds
<1>9. CASE WriteBreaksOff(c) /\ r = result[c]
  <2>1. file = ProjectFileOf(c)
    BY <1>9 DEF ProjectFileOf
  <2>2. fileExists(file) /\ files' = files /\ file \in lost'
    BY <1>1, <1>9, <2>1 DEF WriteBreaksOff, Good, SearchDone
  <2>. QED  BY <2>2 DEF Holds, fileExists
<1>. QED  BY <1>5, <1>6, <1>7, <1>8, <1>9 DEF Stores

(* What an action stores.                                                    *)
LEMMA StoresFacts ==
  ASSUME IInv, NEW c \in Command, Acts(c)
  PROVE  \/ work' = work /\ n' = n
         \/ /\ pc[c] # "next"
            /\ \E r : Stored(c, r) /\ (Stores(c, r) \/ ~(Heartbeat(c).type = "file" /\ ~Heartbeat(c).unsaved))
<1>1. CASE DetectOther(c)
  <2>1. /\ pc[c] # "next" /\ (Heartbeat(c).type # "file" \/ Heartbeat(c).unsaved)
        /\ \E r : Store(c, r)
    BY <1>1 DEF DetectOther
  <2>2. ~(Heartbeat(c).type = "file" /\ ~Heartbeat(c).unsaved)
    BY <2>1
  <2>. QED  BY <2>1, <2>2, StoreFacts DEF IInv
<1>2. CASE DetectConfigured(c)
  <2>1. pc[c] # "next" /\ ((work' = work /\ n' = n) \/ Store(c, Configured(Heartbeat(c))))
    BY <1>2 DEF DetectConfigured
  <2>2. Stores(c, Configured(Heartbeat(c)))
    BY <1>2 DEF Stores
  <2>. QED  BY <2>1, <2>2, StoreFacts DEF IInv
<1>3. CASE DetectRevControl(c)
  <2>1. /\ pc[c] # "next"
        /\ \/ work' = work /\ n' = n
           \/ ~Obfuscates(c, DetectWithRevControl(Heartbeat(c).entity)) /\ Store(c, FromRevControl(c))
    BY <1>3 DEF DetectRevControl, FromRevControl
  <2>2. ~Obfuscates(c, DetectWithRevControl(Heartbeat(c).entity)) => Stores(c, FromRevControl(c))
    BY <1>3 DEF Stores
  <2>. QED  BY <2>1, <2>2, StoreFacts DEF IInv
<1>4. CASE WriteFails(c) \/ Write(c) \/ WriteBreaksOff(c)
  <2>1. pc[c] # "next" /\ Store(c, result[c])
    BY <1>4 DEF WriteFails, Write, WriteBreaksOff
  <2>2. Stores(c, result[c])
    BY <1>4 DEF Stores
  <2>. QED  BY <2>1, <2>2, StoreFacts DEF IInv
<1>5. CASE Truncate(c) \/ Kill(c) \/ Panic(c)
  BY <1>5 DEF Truncate, Kill, Panic
<1>. QED  BY <1>1, <1>2, <1>3, <1>4, <1>5 DEF Acts

(* A name that users have not given, and that a command has found where it   *)
(* looked, is in the project file there.                                     *)
LEMMA FoundIsKept ==
  ASSUME IInv, NamesFresh, WorkFresh, NEW c \in Command, Acts(c), pc[c] # "revcontrol",
         pc'[c] = "revcontrol", result'[c].project \in GeneratedName
  PROVE  result'[c].folder # None /\ Holds(ProjectFileOf(c), result[c].project)'
<1>. DEFINE h == Heartbeat(c)
<1>1. Good(c) /\ FilesTyped /\ FileNamesKnown /\ Domains
  BY InvariantParts
<1>2. DetectConfigured(c)
  <2>1. ~Kill(c) /\ ~Panic(c) /\ ~Truncate(c)
    BY <1>1 DEF Kill, Panic, Truncate, Domains
  <2>2. ~DetectOther(c) /\ ~WriteFails(c) /\ ~Write(c) /\ ~WriteBreaksOff(c)
    <3>1. ASSUME NEW r, Stored(c, r) PROVE FALSE
      BY <3>1 DEF Stored
    <3>2. \A r : pc[c] # "next" => ~Store(c, r)
      BY <3>1, StoreFacts DEF IInv
    <3>. QED  BY <3>2 DEF DetectOther, WriteFails, Write, WriteBreaksOff
  <2>. QED  BY <2>1, <2>2 DEF Acts, DetectRevControl
<1>. PICK r : r = Configured(h)
  OBVIOUS
<1>3. result'[c] = r /\ files' = files
  BY <1>1, <1>2 DEF DetectConfigured, Domains
<1>4. n[c] \in DOMAIN work[c].hh
  BY <1>1, <1>2 DEF Good, CommandTyped, DetectConfigured
<1>5. IsSequence(h.entity)
  BY <1>1, <1>4, Zenon DEF Good, CommandTyped, Heartbeat
<1>6. h.override \notin GeneratedName
  BY <1>4 DEF WorkFresh, Heartbeat
<1>. DEFINE file == ProjectFileIn(r.folder)
<1>7. \/ r.project \in {h.override, ""} \cup {q.name : q \in Range(MapPattern)}
      \/ r.folder # None /\ fileExists(file) /\ files[file].lines # <<>> /\ r.project = NameIn(file)
  BY <1>1, <1>5, ConfiguredFacts, Zenon
<1>8. r.folder # None /\ fileExists(file) /\ files[file].lines # <<>> /\ r.project = NameIn(file)
  BY <1>3, <1>6, <1>7 DEF NamesFresh
<1>9. Holds(file, r.project)
  BY <1>8, Zenon DEF Holds
<1>10. Holds(file, r.project)'
  BY <1>9, HoldsStays
<1>11. ProjectFileOf(c)' = file
  BY <1>3, Zenon DEF ProjectFileOf
<1>. QED  BY <1>3, <1>8, <1>10, <1>11, Zenon

(* The names of the heartbeats that are detected stay in project files.      *)
LEMMA NamesGoOn ==
  ASSUME IInv, NamesFresh, WorkFresh, NamesLast, NEW c \in Command, Acts(c)
  PROVE  WorkFresh' /\ NamesLast'
<1>1. Keeps(c) /\ Good(c) /\ IInv'
  BY ActFacts, KeptInvariant
<1>2. \/ work' = work /\ n' = n
      \/ /\ pc[c] # "next"
         /\ \E r : Stored(c, r) /\ (Stores(c, r) \/ ~(Heartbeat(c).type = "file" /\ ~Heartbeat(c).unsaved))
  BY StoresFacts
<1>3. ASSUME NEW d \in Command
      PROVE  /\ work'[d].hide = work[d].hide /\ DOMAIN work'[d].hh = DOMAIN work[d].hh
             /\ \A i \in DOMAIN work[d].hh :
                  /\ work'[d].hh[i].override = work[d].hh[i].override
                  /\ work'[d].hh[i].alternate = work[d].hh[i].alternate
  <2>1. CASE d # c
    BY <1>1, <2>1, Zenon DEF Keeps, Same
  <2>2. CASE work' = work
    BY <2>2, Zenon
  <2>3. ASSUME d = c, NEW r, Stored(c, r)
        PROVE  /\ work'[d].hide = work[d].hide /\ DOMAIN work'[d].hh = DOMAIN work[d].hh
               /\ \A i \in DOMAIN work[d].hh :
                    /\ work'[d].hh[i].override = work[d].hh[i].override
                    /\ work'[d].hh[i].alternate = work[d].hh[i].alternate
    <3>1. /\ work'[c].hide = work[c].hide /\ DOMAIN work'[c].hh = DOMAIN work[c].hh
          /\ \A i \in DOMAIN work[c].hh \ {n[c]} : work'[c].hh[i] = work[c].hh[i]
          /\ work'[c].hh[n[c]].override = work[c].hh[n[c]].override
          /\ work'[c].hh[n[c]].alternate = work[c].hh[n[c]].alternate
      BY <2>3 DEF Stored, SameHeartbeat
    <3>. QED  BY <2>3, <3>1, Zenon
  <2>. QED  BY <1>2, <2>1, <2>2, <2>3
<1>4. WorkFresh'
  BY <1>3, Zenon DEF WorkFresh
<1>5. ASSUME NEW d \in Command, work'[d].hide, NEW i \in Detected(d)'
      PROVE  IsKept(work[d].hh[i])'
  <2>. PICK h : h = work[d].hh[i]
    OBVIOUS
  <2>. PICK g : g = work'[d].hh[i]
    OBVIOUS
  <2>. SUFFICES IsKept(g)'
    BY Zenon DEF IsKept, Hidden
  <2>1. CASE i \in Detected(d)
    <3>1. IsKept(h)
      BY <1>3, <1>5, <2>1 DEF NamesLast
    <3>2. IsSequence(h.projectPath)
      BY <2>1, InvariantParts DEF Good, CommandTyped
    <3>3. IsKept(h)'
      BY <3>1, <3>2, KeptStays
    <3>4. g = h
      BY <2>1, HistoryStays
    <3>. QED  BY <3>3, <3>4
  <2>2. CASE i \notin Detected(d)
    <3>1. ~(work' = work /\ n' = n)
      BY <1>5, <2>2, Zenon DEF Detected
    <3>2. d = c
      <4>1. d # c => work'[d] = work[d] /\ n'[d] = n[d]
        BY <1>1 DEF Keeps, Same
      <4>2. work'[d] = work[d] /\ n'[d] = n[d] => Detected(d)' = Detected(d)
        BY Zenon DEF Detected
      <4>. QED  BY <1>5, <2>2, <4>1, <4>2
    <3>3. PICK r : Stored(c, r) /\ (Stores(c, r) \/ ~(Heartbeat(c).type = "file" /\ ~Heartbeat(c).unsaved))
      BY <1>2, <3>1
    <3>4. pc[c] # "next"
      BY <1>2, <3>1
    <3>5. i = n[c] /\ Heartbeat(c).type = "file" /\ ~Heartbeat(c).unsaved
      BY <1>1, <1>5, <2>2, <3>2, <3>3, <3>4, DetectedGrows DEF Good
    <3>6. Stores(c, r)
      BY <3>3, <3>5, Zenon
    <3>7. g.project = r.project /\ g.projectPath = r.folder
      BY <3>2, <3>3, <3>5 DEF Stored
    <3>8. work[c].hide
      BY <1>3, <1>5, <3>2, Zenon
    <3>9. CASE Hidden(g)
      BY <3>4, <3>6, <3>7, <3>8, <3>9, StoredIsKept
    <3>10. CASE ~Hidden(g)
      BY <3>10, Zenon DEF IsKept, Hidden
    <3>. QED  BY <3>9, <3>10
  <2>. QED  BY <2>1, <2>2
<1>6. ASSUME NEW d \in Command, work'[d].hide, pc'[d] = "revcontrol", result'[d].project \in GeneratedName
      PROVE  result'[d].folder # None /\ Holds(ProjectFileOf(d), result[d].project)'
  <2>1. CASE d # c
    <3>1. Same(d)
      BY <1>1, <2>1 DEF Keeps
    <3>2. work[d].hide /\ pc[d] = "revcontrol" /\ result[d].project \in GeneratedName
      BY <1>6, <3>1, Zenon DEF Same
    <3>3. result[d].folder # None /\ Holds(ProjectFileOf(d), result[d].project)
      BY <3>2, Zenon DEF NamesLast
    <3>. PICK file, name : file = ProjectFileOf(d) /\ name = result[d].project
      OBVIOUS
    <3>4. Holds(file, name)'
      BY <3>3, HoldsStays
    <3>5. ProjectFileOf(d)' = file /\ result'[d].project = name /\ result'[d].folder # None
      BY <3>1, <3>3, Zenon DEF Same, ProjectFileOf
    <3>. QED  BY <3>4, <3>5, Zenon
  <2>2. CASE d = c
    <3>1. pc[c] # "revcontrol"
      <4>. SUFFICES ASSUME pc[c] = "revcontrol" PROVE FALSE
        OBVIOUS
      <4>1. DetectRevControl(c)
        <5>1. ~Panic(c)
          BY <1>6, <2>2, InvariantParts DEF Panic, Domains
        <5>. QED  BY <5>1 DEF Acts, DetectOther, DetectConfigured, Truncate, WriteFails, Write,
                              WriteBreaksOff, Kill
      <4>2. pc' = [pc EXCEPT ![c] = "truncate"] \/ \E r : Store(c, r)
        BY <4>1 DEF DetectRevControl
      <4>3. ~\E r : Store(c, r)
        <5>1. ASSUME NEW r, Store(c, r) PROVE FALSE
          <6>1. Stored(c, r)
            BY <5>1, StoreFacts DEF IInv
          <6>. QED  BY <1>6, <2>2, <6>1 DEF Stored
        <5>. QED  BY <5>1
      <4>4. pc'[c] = "truncate"
        BY <4>2, <4>3, InvariantParts DEF Domains
      <4>. QED  BY <1>6, <2>2, <4>4
    <3>. QED  BY <1>6, <2>2, <3>1, FoundIsKept
  <2>. QED  BY <2>1, <2>2
<1>7. NamesLast'
  BY <1>5, <1>6, Zenon DEF NamesLast
<1>. QED  BY <1>4, <1>7

(* Where no user calls a project like a generated name, the project file of  *)
(* a project that got one begins with such a name when all commands have     *)
(* ended, unless a write failed after the truncation (project.go).           *)
THEOREM GeneratedNamesLast == ASSUME NamesFresh PROVE Spec => []LastingName
<1>1. Init => WorkFresh /\ NamesLast
  <2>. SUFFICES ASSUME Init PROVE WorkFresh /\ NamesLast
    OBVIOUS
  <2>1. ASSUME NEW c \in Command
        PROVE  work[c] \in Work /\ n[c] = 1 /\ pc[c] = "config"
    BY DEF Init
  <2>2. WorkFresh
    <3>. SUFFICES ASSUME NEW c \in Command, NEW i \in DOMAIN work[c].hh
                  PROVE  {work[c].hh[i].override, work[c].hh[i].alternate} \cap GeneratedName = {}
      BY DEF WorkFresh
    <3>1. work[c].hh[i] \in Range(work[c].hh)
      BY DEF Range
    <3>. QED  BY <2>1, <3>1, Zenon DEF NamesFresh
  <2>3. \A c \in Command : Detected(c) = {} /\ pc[c] # "revcontrol"
    BY <2>1 DEF Detected
  <2>4. NamesLast
    BY <2>3, Zenon DEF NamesLast
  <2>. QED  BY <2>2, <2>4
<1>2. IInv /\ WorkFresh /\ NamesLast /\ [Next]_vars => WorkFresh' /\ NamesLast'
  <2>. SUFFICES ASSUME IInv, WorkFresh, NamesLast, [Next]_vars PROVE WorkFresh' /\ NamesLast'
    OBVIOUS
  <2>1. CASE Next
    <3>1. PICK c \in Command : Acts(c)
      BY <2>1 DEF Next, Acts
    <3>. QED  BY <3>1, NamesGoOn
  <2>2. CASE UNCHANGED vars
    <3>1. /\ files' = files /\ work' = work /\ n' = n /\ result' = result /\ pc' = pc /\ lost' = lost
      BY <2>2 DEF vars
    <3>2. WorkFresh'
      BY <3>1, Zenon DEF WorkFresh
    <3>3. NamesLast'
      <4>1. \A c \in Command : Detected(c)' = Detected(c) /\ ProjectFileOf(c)' = ProjectFileOf(c)
        BY <3>1, Zenon DEF Detected, ProjectFileOf
      <4>2. \A file : IsGiven(file) => IsGiven(file)'
        BY <3>1, <4>1, Zenon DEF IsGiven, NameIn
      <4>3. \A file, name : Holds(file, name) => Holds(file, name)'
        BY <3>1, <4>1, <4>2, Zenon DEF Holds, fileExists, NameIn
      <4>4. \A file : Writable(file)' => Writable(file)
        BY <3>1, Zenon DEF Writable, fileExists, Readable
      <4>5. \A h : IsKept(h) => IsKept(h)'
        BY <4>3, <4>4, Zenon DEF IsKept, Hidden
      <4>6. ASSUME NEW c \in Command, work[c].hide, NEW i \in Detected(c)
            PROVE  IsKept(work[c].hh[i])'
        <5>. PICK h : h = work[c].hh[i]
          OBVIOUS
        <5>1. IsKept(h)'
          BY <4>5, <4>6 DEF NamesLast
        <5>. QED  BY <3>1, <5>1, Zenon
      <4>7. ASSUME NEW c \in Command, work[c].hide, pc[c] = "revcontrol", result[c].project \in GeneratedName
            PROVE  result[c].folder # None /\ Holds(ProjectFileOf(c), result[c].project)'
        <5>. PICK file, name : file = ProjectFileOf(c) /\ name = result[c].project
          OBVIOUS
        <5>1. result[c].folder # None /\ Holds(file, name)'
          BY <4>3, <4>7, Zenon DEF NamesLast
        <5>. QED  BY <3>1, <4>1, <5>1, Zenon
      <4>. QED  BY <3>1, <4>1, <4>6, <4>7, Zenon DEF NamesLast
    <3>. QED  BY <3>2, <3>3
  <2>. QED  BY <2>1, <2>2
<1>3. IInv /\ NamesLast => LastingName
  <2>. SUFFICES ASSUME NamesLast, \A c \in Command : pc[c] = "next",
                       NEW c \in Command, NEW i \in Detected(c),
                       work[c].hide, Hidden(work[c].hh[i]), Writable(ProjectFileIn(work[c].hh[i].projectPath)),
                       ProjectFileIn(work[c].hh[i].projectPath) \notin lost
                PROVE  LET file == ProjectFileIn(work[c].hh[i].projectPath)
                       IN  fileExists(file) /\ files[file].lines # <<>> /\ IsGiven(file)
    BY Zenon DEF LastingName
  <2>. PICK file : file = ProjectFileIn(work[c].hh[i].projectPath)
    OBVIOUS
  <2>1. Holds(file, work[c].hh[i].project)
    BY Zenon DEF NamesLast, IsKept
  <2>2. \A d \in Command : pc[d] \notin {"write", "killed"}
    OBVIOUS
  <2>3. fileExists(file) /\ files[file].lines # <<>> /\ (NameIn(file) = work[c].hh[i].project \/ IsGiven(file))
    BY <2>1, <2>2, Zenon DEF Holds
  <2>4. NameIn(file) = work[c].hh[i].project => IsGiven(file)
    BY Zenon DEF IsGiven
  <2>. QED  BY <2>3, <2>4
<1>4. Spec => [](WorkFresh /\ NamesLast)
  BY <1>1, <1>2, DetectionInvariant, PTL DEF Spec
<1>. QED  BY <1>3, <1>4, DetectionInvariant, PTL
=============================================================================
