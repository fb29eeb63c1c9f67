--------------------------- MODULE Pipeline_proofs ---------------------------
(* For any disk, heartbeats, configuration, servers and lexers: nothing that *)
(* is excluded leaves a command, nothing that is to be hidden reaches the    *)
(* API, every heartbeat is grouped under a key of its own, no heartbeat is   *)
(* dropped without a reason of its own unless the command breaks off for one *)
(* of two reasons, a file only comes from a host that is known or may be     *)
(* unknown, and a header has the language of its only source.                *)
EXTENDS Pipeline, FiniteSetTheorems, SequenceTheorems, WellFoundedInduction, TLAPS

-----------------------------------------------------------------------------
(* The order of the options.                                                 *)
(* The options are one of two sequences.                                     *)
LEMMA OptionFacts ==
  /\ Len(Options) = IF config.send THEN 11 ELSE 10
  /\ Options[1] = "formatting" /\ Options[2] = "modifier" /\ Options[3] = "remote" /\ Options[4] = "filter"
  /\ config.send =>
       /\ Options[5] = "apikey" /\ Options[6] = "filestats" /\ Options[7] = "language" /\ Options[8] = "deps"
       /\ Options[9] = "project" /\ Options[10] = "unknown" /\ Options[11] = "sanitization"
  /\ ~config.send =>
       /\ Options[5] = "filestats" /\ Options[6] = "language" /\ Options[7] = "deps"
       /\ Options[8] = "project" /\ Options[9] = "unknown" /\ Options[10] = "sanitization"
<1>1. CASE config.send
  <2>. DEFINE S == <<"formatting", "modifier", "remote", "filter", "apikey", "filestats", "language", "deps",
                     "project", "unknown", "sanitization">>
  <2>1. Options = S
    BY <1>1 DEF Options
  <2>2. Len(S) = 11
    OBVIOUS
  <2>. QED  BY <1>1, <2>1, <2>2
<1>2. CASE ~config.send
  <2>. DEFINE S == <<"formatting", "modifier", "remote", "filter", "filestats", "language", "deps",
                     "project", "unknown", "sanitization">>
  <2>1. Options = S
    BY <1>2 DEF Options
  <2>2. Len(S) = 10
    OBVIOUS
  <2>. QED  BY <1>2, <2>1, <2>2
<1>. QED  BY <1>1, <1>2

(* What a heartbeat is through before, in and after each option.             *)
LEMMA Order ==
  ASSUME NEW k \in 0 .. Len(Options) - 1
  PROVE  /\ Through("formatting", k) <=> Options[k + 1] # "formatting"
         /\ Through("modifier", k) <=> Options[k + 1] \notin {"formatting", "modifier"}
         /\ Through("remote", k) <=> Options[k + 1] \notin {"formatting", "modifier", "remote"}
         /\ Through("filter", k) <=> Options[k + 1] \notin {"formatting", "modifier", "remote", "filter"}
         /\ Through("apikey", k) => Options[k + 1] \notin {"formatting", "modifier", "remote", "filter", "apikey"}
         /\ Through("project", k) <=> Options[k + 1] \in {"unknown", "sanitization"}
         /\ ~Through("sanitization", k)
         /\ Options[k + 1] = "sanitization" => k + 1 = Len(Options)
<1>1. CASE config.send
  <2>1. k \in 0 .. 10
    BY <1>1, OptionFacts
  <2>2. \A i \in 1 .. k : i \in 1 .. 10
    BY <2>1
  <2>. QED  BY <1>1, <2>1, <2>2, OptionFacts DEF Through
<1>2. CASE ~config.send
  <2>1. k \in 0 .. 9
    BY <1>2, OptionFacts
  <2>. QED  BY <1>2, <2>1, OptionFacts DEF Through
<1>. QED  BY <1>1, <1>2

(* An option is behind a heartbeat when its own option is.                   *)
LEMMA ThroughNext ==
  ASSUME NEW k \in Nat, NEW o
  PROVE  Through(o, k + 1) <=> Through(o, k) \/ Options[k + 1] = o
BY DEF Through

(* At the end of the chain everything is done, the key only if it is sent.   *)
LEMMA ThroughAll ==
  /\ \A o \in {"formatting", "modifier", "remote", "filter", "project", "sanitization"} : Through(o, Len(Options))
  /\ config.send => Through("apikey", Len(Options))
<1>1. \A i \in 1 .. Len(Options) : Through(Options[i], Len(Options))
  BY DEF Through
<1>2. CASE config.send
  BY <1>1, <1>2, OptionFacts
<1>3. CASE ~config.send
  BY <1>1, <1>3, OptionFacts
<1>. QED  BY <1>2, <1>3

(* At the beginning nothing is done.                                         *)
LEMMA ThroughNone == \A o : ~Through(o, 0)
BY DEF Through

(* What is true of a heartbeat depends on the configuration only.            *)
LEMMA SameConfig ==
  ASSUME config' = config
  PROVE  /\ Options' = Options
         /\ \A o, k : Through(o, k)' <=> Through(o, k)
         /\ \A h, k : Fine(h, k)' <=> Fine(h, k)
         /\ \A h, g, k : ComesFrom(h, g, k)' <=> ComesFrom(h, g, k)
         /\ \A h, via : Kept(h, via)' <=> Kept(h, via)
         /\ \A h : Excluded(h)' <=> Excluded(h)
<1>1. Options' = Options
  BY DEF Options
<1>2. \A o, k : Through(o, k)' <=> Through(o, k)
  BY <1>1 DEF Through
<1>3. \A h : Excluded(h)' <=> Excluded(h)
  BY DEF Excluded
<1>4. \A h, via : Hidden(h, via)' <=> Hidden(h, via)
  BY DEF Hidden, FileNamesHidden, FolderHidden, Hides
<1>5. \A h, k : Fine(h, k)' <=> Fine(h, k)
  BY <1>2, <1>3, <1>4 DEF Fine, Typed, Placed, Fetched
<1>6. ASSUME NEW h, NEW g, NEW k
      PROVE  ComesFrom(h, g, k)' <=> ComesFrom(h, g, k)
  <2>1. /\ Through("formatting", k)' <=> Through("formatting", k)
        /\ Through("modifier", k)' <=> Through("modifier", k)
        /\ Through("project", k)' <=> Through("project", k)
    BY <1>2
  <2>. QED  BY <2>1 DEF ComesFrom
<1>7. \A h, via : Kept(h, via)' <=> Kept(h, via)
  BY <1>3, <1>4 DEF Kept
<1>. QED  BY <1>1, <1>2, <1>3, <1>5, <1>6, <1>7

(* As files only disappear, a reason to drop a heartbeat stays one.          *)
LEMMA DroppedStays ==
  ASSUME config' = config, DOMAIN disk' \subseteq DOMAIN disk, NEW g, Dropped(g)
  PROVE  Dropped(g)'
<1>1. \A path : InProject(path)' => InProject(path)
  BY DEF InProject
<1>. QED  BY <1>1, SameConfig DEF Dropped

-----------------------------------------------------------------------------
(* Sequences that are typed by their own elements.                           *)
LEMMA OwnType ==
  ASSUME NEW R, NEW t \in Seq(R)
  PROVE  IsSequence(t) /\ Range(t) \subseteq R
<1>1. DOMAIN t = 1 .. Len(t) /\ Len(t) \in Nat /\ t \in [1 .. Len(t) -> R]
  BY LenProperties
<1>2. \A j \in 1 .. Len(t) : t[j] \in Range(t)
  BY <1>1 DEF Range
<1>3. SubSeq(t, 1, Len(t)) \in Seq(Range(t))
  BY <1>1, <1>2, SubSeqProperties
<1>. QED  BY <1>1, <1>3, SubSeqFull DEF Range, IsSequence

(* One element is replaced.                                                  *)
LEMMA SequenceEdit ==
  ASSUME NEW s, IsSequence(s), NEW i \in 1 .. Len(s), NEW e, NEW t, t = [s EXCEPT ![i] = e]
  PROVE  /\ IsSequence(t) /\ Len(t) = Len(s) /\ DOMAIN t = DOMAIN s
         /\ t[i] = e /\ \A j \in DOMAIN s \ {i} : t[j] = s[j]
<1>. DEFINE R == Range(s) \cup {e}
<1>1. DOMAIN s = 1 .. Len(s) /\ Len(s) \in Nat
  BY LenProperties DEF IsSequence
<1>2. s \in Seq(R)
  BY SeqMonotonic DEF IsSequence
<1>3. t \in Seq(R) /\ Len(t) = Len(s)
  BY <1>2, ExceptSeq
<1>4. IsSequence(t)
  BY <1>3, OwnType
<1>5. DOMAIN t = DOMAIN s /\ t[i] = e /\ \A j \in DOMAIN s \ {i} : t[j] = s[j]
  BY <1>1
<1>. QED  BY <1>3, <1>4, <1>5

(* An element is appended.                                                   *)
LEMMA SequenceAppend ==
  ASSUME NEW s, IsSequence(s), NEW e
  PROVE  LET t == Append(s, e)
         IN  /\ IsSequence(t) /\ DOMAIN t = DOMAIN s \cup {Len(s) + 1}
             /\ t[Len(s) + 1] = e /\ \A j \in DOMAIN s : t[j] = s[j] /\ j # Len(s) + 1
<1>. DEFINE t == Append(s, e)  R == Range(s) \cup {e}
<1>1. s \in Seq(R) /\ e \in R
  BY SeqMonotonic DEF IsSequence
<1>2. /\ DOMAIN s = 1 .. Len(s) /\ Len(s) \in Nat
      /\ Len(t) = Len(s) + 1 /\ DOMAIN t = 1 .. Len(s) + 1
      /\ t[Len(s) + 1] = e /\ \A j \in DOMAIN s : t[j] = s[j]
      /\ t \in Seq(R)
  BY <1>1
<1>3. IsSequence(t)
  BY <1>2, OwnType
<1>. QED  BY <1>2, <1>3

-----------------------------------------------------------------------------
(* What the loops preserve.                                                  *)

(* Where the loop of an option is.                                           *)
LEMMA AtFacts ==
  ASSUME IInv, NEW o, At(o)
  PROVE  /\ pc = "options" /\ n \in 1 .. Len(hh) /\ n \in DOMAIN hh /\ IsSequence(hh)
         /\ option \in 0 .. Len(Options) - 1 /\ Options[option + 1] = o
         /\ Fine(hh[n], option)
BY DEF IInv, Loop, AllFine, At, Passed, IsSequence

(* The loop of an option that filters nothing puts a heartbeat in place of   *)
(* another that is as it has to be and comes from the same one.              *)
LEMMA PutKeeps ==
  ASSUME IInv, NEW o, At(o), o \notin Filtering, NEW h, Put(h),
         Fine(h, option + 1),
         \A g \in Range(given) : ComesFrom(hh[n], g, option) => ComesFrom(h, g, option + 1)
  PROVE  IInv'
<1>1. /\ pc = "options" /\ n \in 1 .. Len(hh) /\ n \in DOMAIN hh /\ IsSequence(hh)
      /\ option \in 0 .. Len(Options) - 1 /\ Options[option + 1] = o
  BY AtFacts
<1>2. /\ hh' = [hh EXCEPT ![n] = h] /\ n' = n + 1
      /\ UNCHANGED <<disk, config, patterns, given, option, filtered, pc, received, queue, removals>>
  BY DEF Put, passed
<1>3. /\ IsSequence(hh') /\ Len(hh') = Len(hh) /\ DOMAIN hh' = DOMAIN hh
      /\ hh'[n] = h /\ \A i \in DOMAIN hh \ {n} : hh'[i] = hh[i]
  BY <1>1, <1>2, SequenceEdit
<1>4. DOMAIN hh = 1 .. Len(hh) /\ Len(hh) \in Nat
  BY <1>1 DEF IsSequence
<1>5. \A i \in DOMAIN hh : Passed(i)' = IF i = n THEN option + 1 ELSE Passed(i)
  BY <1>1, <1>2, <1>4, SameConfig DEF Passed
<1>6. Loop'
  <2>1. KeyPatterns' = KeyPatterns
    BY DEF KeyPatterns
  <2>. QED  BY <1>1, <1>2, <1>3, <1>4, <2>1, SameConfig DEF IInv, Loop
<1>7. AllFine'
  <2>1. \A i \in DOMAIN hh' : Fine(hh'[i], Passed(i)')
    BY <1>1, <1>3, <1>5 DEF IInv, AllFine
  <2>2. h.raw # None => Verified(h)
    BY DEF Fine, Fetched
  <2>3. \A i \in DOMAIN hh' : hh'[i].raw # None => Verified(hh'[i])
    BY <1>3, <2>2 DEF IInv, AllFine
  <2>4. \A g : Verified(g)' <=> Verified(g)
    BY DEF Verified
  <2>. QED  BY <1>1, <1>2, <2>1, <2>3, <2>4, SameConfig DEF IInv, AllFine
<1>8. AllKept'
  BY <1>2, SameConfig DEF IInv, AllKept
<1>9. GroupedByOwnKey'
  BY <1>2 DEF IInv, GroupedByOwnKey
<1>10. NoneLost'
  <2>. SUFFICES ASSUME NEW i \in DOMAIN given, ~Dropped(given[i])
                PROVE  OnItsWay(given[i])'
    BY <1>1, <1>2, DroppedStays DEF NoneLost
  <2>. DEFINE g == given[i]
  <2>1. OnItsWay(g) /\ g \in Range(given)
    BY <1>1 DEF IInv, NoneLost, Range
  <2>2. CASE \E j \in DOMAIN hh : ComesFrom(hh[j], g, Passed(j))
    <3>1. PICK j \in DOMAIN hh : ComesFrom(hh[j], g, Passed(j))
      BY <2>2
    <3>2. ComesFrom(hh'[j], g, Passed(j)')
      <4>1. CASE j = n
        <5>1. Passed(n) = option
          BY <1>1 DEF Passed
        <5>. QED  BY <1>3, <1>5, <2>1, <3>1, <4>1, <5>1
      <4>2. CASE j # n
        BY <1>3, <1>5, <3>1, <4>2
      <4>. QED  BY <4>1, <4>2
    <3>. QED  BY <1>1, <1>2, <1>3, <3>2, SameConfig DEF OnItsWay
  <2>3. CASE \E j \in DOMAIN filtered : ComesFrom(filtered[j], g, option + 1)
    BY <1>2, <2>3, SameConfig DEF OnItsWay
  <2>. QED  BY <2>1, <2>2, <2>3 DEF OnItsWay
<1>11. AllGiven'
  <2>1. \E g \in Range(given) : ComesFrom(hh[n], g, option)
    BY <1>1 DEF IInv, AllGiven, Passed
  <2>2. ASSUME NEW i \in DOMAIN hh PROVE \E g \in Range(given) : ComesFrom(hh'[i], g, Passed(i)')
    <3>1. CASE i = n
      BY <1>3, <1>5, <2>1, <3>1
    <3>2. CASE i # n
      BY <1>1, <1>3, <1>5, <2>2, <3>2 DEF IInv, AllGiven
    <3>. QED  BY <3>1, <3>2
  <2>3. \A i \in DOMAIN filtered : \E g \in Range(given) : ComesFrom(filtered[i], g, option + 1)
    BY <1>1 DEF IInv, AllGiven
  <2>. QED  BY <1>2, <1>3, <2>2, <2>3, SameConfig DEF AllGiven
<1>12. Ends'
  BY <1>1, <1>2 DEF Ends
<1>. QED  BY <1>6, <1>7, <1>8, <1>9, <1>10, <1>11, <1>12 DEF IInv

(* What is behind the heartbeat an option is at, and behind it afterwards.   *)
LEMMA AtThrough ==
  ASSUME IInv, NEW o, At(o)
  PROVE  /\ \A p : Through(p, option + 1) <=> Through(p, option) \/ p = o
         /\ Through("formatting", option) <=> o # "formatting"
         /\ Through("modifier", option) <=> o \notin {"formatting", "modifier"}
         /\ Through("remote", option) <=> o \notin {"formatting", "modifier", "remote"}
         /\ Through("filter", option) <=> o \notin {"formatting", "modifier", "remote", "filter"}
         /\ Through("apikey", option) => o \notin {"formatting", "modifier", "remote", "filter", "apikey"}
         /\ Through("project", option) <=> o \in {"unknown", "sanitization"}
         /\ ~Through("sanitization", option)
<1>1. option \in 0 .. Len(Options) - 1 /\ option \in Nat /\ Options[option + 1] = o
  BY AtFacts
<1>2. \A p : Through(p, option + 1) <=> Through(p, option) \/ p = o
  BY <1>1, ThroughNext
<1>. QED  BY <1>1, <1>2, Order

(* Every heartbeat of the command has a path without a further root.         *)
LEMMA GivenFacts ==
  ASSUME IInv, NEW g \in Range(given)
  PROVE  Rooted(g.entity) /\ Rooted(Formatted(g))
<1>1. given \in Input /\ g.entity \in {h.entity : h \in UNION {Range(hs) : hs \in Input}}
  BY DEF IInv, Loop
<1>2. Rooted(g.entity)
  BY <1>1, RootAssumption DEF Rooted
<1>3. \A path \in DOMAIN Resolved : Rooted(Resolved[path])
  BY RootAssumption DEF Rooted, Range
<1>. QED  BY <1>2, <1>3 DEF Formatted

(* The first option gives a path its other name.                             *)
LEMMA FormattingInv == IInv /\ Formatting => IInv'
<1>. SUFFICES ASSUME IInv, Formatting PROVE IInv'
  OBVIOUS
<1>. DEFINE old == hh[n]
            h == IF IsFile(old) /\ ~IsRemote(old.entity) /\ old.entity \in DOMAIN Resolved
                 THEN [old EXCEPT !.entity = Resolved[old.entity]]
                 ELSE old
<1>1. At("formatting") /\ Put(h)
  BY DEF Formatting
<1>2. Fine(old, option) /\ DOMAIN old = Field /\ Rooted(old.entity)
  BY <1>1, AtFacts, AtThrough DEF Fine, Typed, Placed
<1>3. DOMAIN h = Field /\ \A f \in Field \ {"entity"} : h[f] = old[f]
  BY <1>2 DEF Field
<1>4. Rooted(h.entity) /\ h.entity = Formatted(old)
  <2>1. \A path \in DOMAIN Resolved : Rooted(Resolved[path])
    BY RootAssumption DEF Rooted, Range
  <2>. QED  BY <1>2, <2>1 DEF Formatted, Field
<1>5. Fine(h, option + 1)
  BY <1>1, <1>2, <1>3, <1>4, AtThrough DEF Fine, Typed, Placed, Fetched, Field
<1>6. ASSUME NEW g \in Range(given), ComesFrom(old, g, option)
      PROVE  ComesFrom(h, g, option + 1)
  <2>1. old.entity = g.entity /\ Formatted(old) = Formatted(g)
    BY <1>1, <1>6, AtThrough DEF ComesFrom, Formatted, IsFile
  <2>2. /\ Through("formatting", option + 1) /\ ~Through("modifier", option + 1) /\ ~Through("project", option + 1)
    BY <1>1, AtThrough
  <2>3. /\ h.id = old.id /\ h.type = old.type /\ h.unsaved = old.unsaved /\ h.override = old.override
        /\ h.alternate = old.alternate
        /\ h.localFile = old.localFile
    BY <1>3 DEF Field
  <2>. HIDE DEF h, old
  <2>. QED  BY <1>4, <1>6, <2>1, <2>2, <2>3 DEF ComesFrom
<1>7. "formatting" \notin Filtering
  BY DEF Filtering
<1>. HIDE DEF h, old
<1>. QED  BY <1>1, <1>5, <1>6, <1>7, PutKeeps DEF old
(* The file in a playground has a path without a further root, too.          *)
LEMMA ContentsRooted ==
  ASSUME NEW path, Rooted(path)
  PROVE  Rooted(path \o <<"Contents", ".swift">>)
<1>. DEFINE tail == <<"Contents", ".swift">>  t == path \o tail
<1>. DEFINE R == Range(path) \cup {"Contents", ".swift"}
<1>1. path \in Seq(R) /\ Len(path) \in Nat /\ Len(path) >= 2
  BY SeqMonotonic, LenProperties DEF Rooted, IsPath, IsSequence
<1>2. tail \in Seq(R) /\ Len(tail) = 2
  OBVIOUS
<1>3. /\ t \in Seq(R) /\ Len(t) = Len(path) + 2
      /\ \A i \in 1 .. Len(path) + 2 : t[i] = IF i <= Len(path) THEN path[i] ELSE tail[i - Len(path)]
  BY <1>1, <1>2, ConcatProperties
<1>4. \A i \in 2 .. Len(t) : t[i] \notin Root
  <2>. SUFFICES ASSUME NEW i \in 2 .. Len(t) PROVE t[i] \notin Root
    OBVIOUS
  <2>1. CASE i <= Len(path)
    BY <1>1, <1>3, <2>1 DEF Rooted
  <2>2. CASE i > Len(path)
    <3>1. i - Len(path) \in {1, 2}
      BY <1>1, <1>3, <2>2
    <3>2. t[i] \in {"Contents", ".swift"}
      BY <1>1, <1>3, <2>2, <3>1
    <3>. QED  BY <3>2, RootAssumption
  <2>. QED  BY <1>1, <1>3, <2>1, <2>2
<1>5. IsSequence(t)
  BY <1>3, OwnType
<1>. QED  BY <1>1, <1>3, <1>4, <1>5 DEF Rooted, IsPath

(* What the disk says of a directory is what any disk of the machine said.   *)
LEMMA BundleFacts ==
  ASSUME IInv, NEW path \in DOMAIN disk
  PROVE  Bundle(path) <=> Last(path) \in Playground /\ disk[path].directory
<1>1. PICK d \in Disk : \A q \in DOMAIN disk : q \in DOMAIN d /\ disk[q] = d[q]
  BY DEF IInv, Loop
<1>2. path \in DOMAIN d /\ disk[path] = d[path]
  BY <1>1
<1>3. \A e \in Disk : path \in DOMAIN e => e[path].directory = d[path].directory
  BY <1>2, DiskAssumption
<1>. QED  BY <1>1, <1>2, <1>3 DEF Bundle

(* The second option gives a playground the path of the file in it.          *)
LEMMA ModifyInv == IInv /\ Modify => IInv'
<1>. SUFFICES ASSUME IInv, Modify PROVE IInv'
  OBVIOUS
<1>. DEFINE old == hh[n]
            bundle == old.type = "file" /\ Last(old.entity) \in Playground
            contents == [old EXCEPT !.entity = @ \o <<"Contents", ".swift">>]
            h == Located(IF bundle /\ disk[old.entity].directory THEN contents ELSE old)
<1>1. At("modifier") /\ Put(h) /\ (bundle => old.entity \in DOMAIN disk)
  BY DEF Modify
<1>2. Fine(old, option) /\ DOMAIN old = Field /\ Rooted(old.entity) /\ old.raw = None
  BY <1>1, AtFacts, AtThrough DEF Fine, Typed, Placed, Fetched
<1>3. /\ DOMAIN h = Field /\ \A f \in Field \ {"entity", "located"} : h[f] = old[f]
      /\ h.located = h.entity
      /\ h.entity = IF bundle /\ disk[old.entity].directory
                    THEN old.entity \o <<"Contents", ".swift">> ELSE old.entity
  BY <1>2 DEF Field, Located
<1>4. Rooted(h.entity)
  BY <1>2, <1>3, ContentsRooted
<1>5. /\ h.raw = old.raw /\ h.folder = old.folder /\ h.folderOverride = old.folderOverride
      /\ h.id = old.id /\ h.type = old.type /\ h.unsaved = old.unsaved /\ h.override = old.override
      /\ h.alternate = old.alternate
      /\ h.localFile = old.localFile
  BY <1>3 DEF Field
<1>. HIDE DEF h
<1>6. Fine(h, option + 1)
  BY <1>1, <1>2, <1>3, <1>4, <1>5, AtThrough DEF Fine, Typed, Placed, Fetched
<1>7. ASSUME NEW g \in Range(given), ComesFrom(old, g, option)
      PROVE  ComesFrom(h, g, option + 1)
  <2>1. old.entity = Formatted(g) /\ old.type = g.type
    <3>1. Through("formatting", option) /\ ~Through("modifier", option)
      BY <1>1, AtThrough
    <3>. HIDE DEF old
    <3>. QED  BY <1>7, <3>1 DEF ComesFrom
  <2>2. bundle /\ disk[old.entity].directory <=> g.type = "file" /\ Bundle(Formatted(g))
    <3>1. Bundle(Formatted(g)) => Last(Formatted(g)) \in Playground
      BY DEF Bundle
    <3>. QED  BY <1>1, <2>1, <3>1, BundleFacts
  <2>3. h.located = LocatedOf(g)
    BY <1>3, <2>1, <2>2 DEF LocatedOf
  <2>4. Through("formatting", option + 1) /\ Through("modifier", option + 1) /\ ~Through("project", option + 1)
    BY <1>1, AtThrough
  <2>. HIDE DEF old
  <2>. QED  BY <1>5, <1>7, <2>3, <2>4 DEF ComesFrom
<1>8. "modifier" \notin Filtering
  BY DEF Filtering
<1>. QED  BY <1>1, <1>6, <1>7, <1>8, PutKeeps

(* The option of a remote file fetches it from a server it may trust.        *)
LEMMA DownloadInv == IInv /\ Download => IInv'
<1>. SUFFICES ASSUME IInv, Download PROVE IInv'
  OBVIOUS
<1>. DEFINE old == hh[n]  c == Remote!NewClient(old.entity)
<1>1. At("remote") /\ "remote" \notin Filtering
  BY DEF Download, Filtering
<1>2. /\ Fine(old, option) /\ DOMAIN old = Field /\ Rooted(old.entity) /\ old.raw = None
      /\ old.located = old.entity
  BY <1>1, AtFacts, AtThrough DEF Fine, Typed, Placed, Fetched
<1>3. CASE Put(old)
  <2>1. Fine(old, option + 1)
    BY <1>1, <1>2, AtThrough DEF Fine, Typed, Placed, Fetched
  <2>2. ASSUME NEW g \in Range(given), ComesFrom(old, g, option)
        PROVE  ComesFrom(old, g, option + 1)
    <3>1. \A o \in {"formatting", "modifier", "project"} : Through(o, option + 1) <=> Through(o, option)
      BY <1>1, AtThrough
    <3>. HIDE DEF old
    <3>. QED  BY <2>2, <3>1 DEF ComesFrom
  <2>. QED  BY <1>1, <1>3, <2>1, <2>2, PutKeeps
<1>4. ASSUME NEW server \in Server, IsRemote(old.entity), Remote!sshClient(c, server),
             Put([old EXCEPT !.localFile = Copy(old.entity), !.raw = old.entity, !.server = server.key])
      PROVE  IInv'
  <2>. DEFINE h == [old EXCEPT !.localFile = Copy(old.entity), !.raw = old.entity, !.server = server.key]
  <2>1. /\ DOMAIN h = Field /\ h.entity = old.entity /\ h.located = old.located /\ h.raw = old.entity
        /\ h.server = server.key /\ h.folder = old.folder /\ h.folderOverride = old.folderOverride
        /\ h.id = old.id /\ h.type = old.type /\ h.unsaved = old.unsaved /\ h.override = old.override
        /\ h.alternate = old.alternate
    BY <1>2 DEF Field
  <2>. HIDE DEF h
  <2>2. server.key \in Remote!AcceptedKeys(c)
    BY <1>4 DEF Remote!sshClient, Remote!dial
  <2>3. Verified(h)
    BY <2>1, <2>2 DEF Verified, Remote!AcceptedKeys
  <2>4. Fine(h, option + 1)
    BY <1>1, <1>2, <1>4, <2>1, <2>3, AtThrough DEF Fine, Typed, Placed, Fetched
  <2>5. \A g \in Range(given) : ComesFrom(old, g, option) => ComesFrom(h, g, option + 1)
    <3>. SUFFICES ASSUME NEW g \in Range(given), ComesFrom(old, g, option) PROVE ComesFrom(h, g, option + 1)
      OBVIOUS
    <3>1. old.located = LocatedOf(g)
      BY <1>1, AtThrough DEF ComesFrom
    <3>2. IsRemote(LocatedOf(g))
      BY <1>2, <1>4, <3>1
    <3>3. Through("formatting", option + 1) /\ Through("modifier", option + 1) /\ ~Through("project", option + 1)
      BY <1>1, AtThrough
    <3>. HIDE DEF old
    <3>. QED  BY <2>1, <3>1, <3>2, <3>3 DEF ComesFrom
  <2>. QED  BY <1>1, <1>4, <2>4, <2>5, PutKeeps DEF h
<1>. QED  BY <1>3, <1>4 DEF Download
(* The loop of an option that filters keeps what is as it has to be, and     *)
(* what it does not keep is dropped for a reason.                            *)
LEMMA KeepKeeps ==
  ASSUME IInv, NEW o, At(o), o \in Filtering, NEW kept, Keep(kept),
         kept => Fine(hh[n], option + 1),
         \A g \in Range(given) : ComesFrom(hh[n], g, option) =>
           ComesFrom(hh[n], g, option + 1) /\ (~kept => Dropped(g))
  PROVE  IInv'
<1>1. /\ pc = "options" /\ n \in 1 .. Len(hh) /\ n \in DOMAIN hh /\ IsSequence(hh)
      /\ option \in 0 .. Len(Options) - 1 /\ Options[option + 1] = o
  BY AtFacts
<1>2. /\ filtered' = (IF kept THEN Append(filtered, hh[n]) ELSE filtered) /\ n' = n + 1
      /\ UNCHANGED <<disk, config, patterns, given, option, hh, pc, received, queue, removals>>
  BY DEF Keep, passed
<1>3. /\ IsSequence(filtered')
      /\ \A j \in DOMAIN filtered : j \in DOMAIN filtered' /\ filtered'[j] = filtered[j]
      /\ kept => \E j \in DOMAIN filtered' : filtered'[j] = hh[n]
      /\ \A j \in DOMAIN filtered' :
           (j \in DOMAIN filtered /\ filtered'[j] = filtered[j]) \/ (kept /\ filtered'[j] = hh[n])
  <2>1. IsSequence(filtered)
    BY DEF IInv, Loop
  <2>2. CASE kept
    <3>. DEFINE t == Append(filtered, hh[n])
    <3>1. /\ IsSequence(t) /\ DOMAIN t = DOMAIN filtered \cup {Len(filtered) + 1}
          /\ t[Len(filtered) + 1] = hh[n]
          /\ \A j \in DOMAIN filtered : t[j] = filtered[j] /\ j # Len(filtered) + 1
      BY <2>1, SequenceAppend
    <3>2. filtered' = t
      BY <1>2, <2>2
    <3>. HIDE DEF t
    <3>. QED  BY <2>2, <3>1, <3>2
  <2>3. CASE ~kept
    BY <1>2, <2>1, <2>3
  <2>. QED  BY <2>2, <2>3
<1>4. DOMAIN hh = 1 .. Len(hh) /\ Len(hh) \in Nat
  BY <1>1 DEF IsSequence
<1>5. \A i : Passed(i) = option /\ Passed(i)' = option
  BY <1>1, <1>2, SameConfig DEF Passed
<1>6. Loop'
  <2>1. KeyPatterns' = KeyPatterns
    BY DEF KeyPatterns
  <2>. QED  BY <1>1, <1>2, <1>3, <1>4, <2>1, SameConfig DEF IInv, Loop
<1>7. AllFine'
  <2>1. \A i \in DOMAIN filtered' : Fine(filtered'[i], option + 1)
    BY <1>1, <1>3 DEF IInv, AllFine
  <2>2. \A g : Verified(g)' <=> Verified(g)
    BY DEF Verified
  <2>. QED  BY <1>1, <1>2, <1>5, <2>1, <2>2, SameConfig DEF IInv, AllFine
<1>8. AllKept'
  BY <1>2, SameConfig DEF IInv, AllKept
<1>9. GroupedByOwnKey'
  BY <1>2 DEF IInv, GroupedByOwnKey
<1>10. NoneLost'
  <2>. SUFFICES ASSUME NEW i \in DOMAIN given, ~Dropped(given[i])
                PROVE  OnItsWay(given[i])'
    BY <1>1, <1>2, DroppedStays DEF NoneLost
  <2>. DEFINE g == given[i]
  <2>1. OnItsWay(g) /\ g \in Range(given)
    BY <1>1 DEF IInv, NoneLost, Range
  <2>2. CASE \E j \in DOMAIN hh : ComesFrom(hh[j], g, Passed(j)) /\ j >= n
    <3>1. PICK j \in DOMAIN hh : ComesFrom(hh[j], g, Passed(j)) /\ j >= n
      BY <2>2
    <3>2. CASE j = n
      <4>1. ComesFrom(hh[n], g, option + 1) /\ kept
        BY <1>5, <2>1, <3>1, <3>2
      <4>2. PICK m \in DOMAIN filtered' : filtered'[m] = hh[n]
        BY <1>3, <4>1
      <4>3. (\E j1 \in DOMAIN filtered : ComesFrom(filtered[j1], g, option + 1))'
        BY <1>2, <4>1, <4>2, SameConfig
      <4>. QED  BY <4>3 DEF OnItsWay
    <3>3. CASE j # n
      <4>1. j >= n'
        BY <1>1, <1>2, <1>4, <3>1, <3>3
      <4>2. (\E j1 \in DOMAIN hh : ComesFrom(hh[j1], g, Passed(j1)) /\ j1 >= n)'
        BY <1>2, <1>5, <3>1, <4>1, SameConfig
      <4>. QED  BY <4>2 DEF OnItsWay
    <3>. QED  BY <3>2, <3>3
  <2>3. CASE \E j \in DOMAIN filtered : ComesFrom(filtered[j], g, option + 1)
    BY <1>2, <1>3, <2>3, SameConfig DEF OnItsWay
  <2>. QED  BY <1>1, <2>1, <2>2, <2>3 DEF OnItsWay
<1>11. AllGiven'
  <2>1. \E g \in Range(given) : ComesFrom(hh[n], g, option + 1)
    BY <1>1, <1>5 DEF IInv, AllGiven
  <2>2. \A i \in DOMAIN filtered' : \E g \in Range(given) : ComesFrom(filtered'[i], g, option + 1)
    BY <1>1, <1>3, <2>1 DEF IInv, AllGiven
  <2>3. \A i \in DOMAIN hh : \E g \in Range(given) : ComesFrom(hh[i], g, Passed(i)')
    BY <1>1, <1>5 DEF IInv, AllGiven
  <2>. QED  BY <1>2, <2>2, <2>3, SameConfig DEF AllGiven
<1>12. Ends'
  BY <1>1, <1>2 DEF Ends
<1>. QED  BY <1>6, <1>7, <1>8, <1>9, <1>10, <1>11, <1>12 DEF IInv

-----------------------------------------------------------------------------
(* Keys.                                                                     *)

(* A set of numbers that is not empty has a least one, since a set of finite *)
(* sets has a minimal one.                                                   *)
LEMMA LeastNumber ==
  ASSUME NEW T \in SUBSET Nat, T # {}
  PROVE  \E m \in T : \A k \in T : m <= k
<1>. DEFINE U == {0 .. k - 1 : k \in T}
<1>1. U \subseteq FiniteSubsetsOf(Nat) /\ U # {}
  <2>1. ASSUME NEW k \in T PROVE 0 .. k - 1 \in FiniteSubsetsOf(Nat)
    <3>1. 0 .. k - 1 \subseteq Nat
      OBVIOUS
    <3>2. IsFiniteSet(0 .. k - 1)
      BY FS_Interval
    <3>. QED  BY <3>1, <3>2 DEF FiniteSubsetsOf
  <2>. QED  BY <2>1
<1>2. PICK S \in U : \A R \in U : <<R, S>> \notin StrictSubsetOrdering(Nat)
  <2>. HIDE DEF U
  <2>. QED  BY <1>1, FS_StrictSubsetOrderingWellFounded, WFMin
<1>3. PICK m \in T : S = 0 .. m - 1
  BY <1>2
<1>4. ASSUME NEW k \in T, k < m PROVE FALSE
  <2>1. 0 .. k - 1 \subseteq 0 .. m - 1 /\ 0 .. m - 1 \subseteq Nat /\ k \in 0 .. m - 1 /\ k \notin 0 .. k - 1
    BY <1>4
  <2>2. 0 .. k - 1 \in U
    OBVIOUS
  <2>. QED  BY <1>2, <1>3, <2>1, <2>2 DEF StrictSubsetOrdering
<1>. QED  BY <1>4

(* The key of the first pattern that matches a path, in any order of the     *)
(* patterns, is one the user has given for that path.                        *)
LEMMA MatchFacts ==
  ASSUME NEW order \in KeyPatterns, NEW path
  PROVE  MatchPattern(path, order) \in KeysOf(path)
<1>. DEFINE own == {k \in ApiKeyPattern : k.key # DefaultApiKey}
            matching == {i \in DOMAIN order : path \in order[i].paths}
            first == CHOOSE i \in matching : \A j \in matching : i <= j
<1>1. order \in [1 .. Cardinality(own) -> own] /\ Range(order) = own
  BY DEF KeyPatterns
<1>2. matching \subseteq Nat
  <2>1. Cardinality(own) \in Nat
    <3>1. own \subseteq ApiKeyPattern
      OBVIOUS
    <3>. HIDE DEF own
    <3>2. IsFiniteSet(own)
      BY <3>1, PatternAssumption, FS_Subset
    <3>. QED  BY <3>2, FS_CardinalityType
  <2>. HIDE DEF own
  <2>. QED  BY <1>1, <2>1
<1>3. CASE matching = {}
  <2>1. MatchPattern(path, order) = DefaultApiKey
    BY <1>3 DEF MatchPattern
  <2>2. \A k \in ApiKeyPattern : path \in k.paths => k.key = DefaultApiKey
    <3>. SUFFICES ASSUME NEW k \in ApiKeyPattern, path \in k.paths, k.key # DefaultApiKey PROVE FALSE
      OBVIOUS
    <3>1. k \in Range(order)
      BY <1>1
    <3>. QED  BY <1>3, <3>1 DEF Range
  <2>. QED  BY <2>1, <2>2 DEF KeysOf
<1>4. CASE matching # {}
  <2>1. first \in matching
    <3>. HIDE DEF matching
    <3>. QED  BY <1>2, <1>4, LeastNumber
  <2>2. MatchPattern(path, order) = order[first].key
    BY <1>4 DEF MatchPattern
  <2>3. order[first] \in ApiKeyPattern /\ path \in order[first].paths
    <3>. HIDE DEF first
    <3>. QED  BY <1>1, <2>1
  <2>. HIDE DEF first
  <2>. QED  BY <2>2, <2>3 DEF KeysOf
<1>. QED  BY <1>3, <1>4

(* The option of the api keys gives the heartbeat one of its own.            *)
LEMMA ReplaceApiKeyInv == IInv /\ ReplaceApiKey => IInv'
<1>. SUFFICES ASSUME IInv, ReplaceApiKey PROVE IInv'
  OBVIOUS
<1>. DEFINE old == hh[n]  h == [old EXCEPT !.apiKey = MatchPattern(old.entity, patterns)]
<1>1. At("apikey") /\ Put(h) /\ "apikey" \notin Filtering
  BY DEF ReplaceApiKey, Filtering
<1>2. Fine(old, option) /\ DOMAIN old = Field /\ old.located = old.entity
  BY <1>1, AtFacts, AtThrough DEF Fine, Typed, Placed
<1>3. h.apiKey \in KeysOf(h.located)
  <2>1. MatchPattern(old.entity, patterns) \in KeysOf(old.entity)
    BY MatchFacts DEF IInv, Loop
  <2>. QED  BY <1>2, <2>1 DEF Field
<1>4. DOMAIN h = Field /\ \A f \in Field \ {"apiKey"} : h[f] = old[f]
  BY <1>2 DEF Field
<1>5. /\ h.entity = old.entity /\ h.located = old.located /\ h.raw = old.raw /\ h.server = old.server
      /\ h.folder = old.folder /\ h.folderOverride = old.folderOverride
      /\ h.id = old.id /\ h.type = old.type /\ h.unsaved = old.unsaved /\ h.override = old.override
      /\ h.alternate = old.alternate
      /\ h.localFile = old.localFile /\ h.project = old.project
  BY <1>4 DEF Field
<1>6. \A o : o # "apikey" => (Through(o, option + 1) <=> Through(o, option))
  BY <1>1, AtThrough
<1>7. ~Through("sanitization", option)
  BY <1>1, AtThrough
<1>. HIDE DEF h
<1>8. Fine(h, option + 1)
  BY <1>2, <1>3, <1>4, <1>5, <1>6, <1>7 DEF Fine, Typed, Placed, Fetched, Verified
<1>9. \A g : ComesFrom(old, g, option) => ComesFrom(h, g, option + 1)
  <2>. HIDE DEF old
  <2>. QED  BY <1>5, <1>6 DEF ComesFrom
<1>. QED  BY <1>1, <1>8, <1>9, PutKeeps

-----------------------------------------------------------------------------
(* The options that look at the file, and the two that filter.               *)

(* Only what is read from the file changes.                                  *)
LEMMA Alike ==
  ASSUME IInv, NEW o \in {"filestats", "language", "deps"}, At(o), NEW h, Put(h), DOMAIN h = Field,
         \A f \in Field \ {"lines", "language", "dependencies"} : h[f] = hh[n][f]
  PROVE  IInv'
<1>. DEFINE old == hh[n]
<1>1. Fine(old, option) /\ o \notin Filtering
  BY AtFacts DEF Filtering
<1>2. /\ h.entity = old.entity /\ h.located = old.located /\ h.raw = old.raw /\ h.server = old.server
      /\ h.folder = old.folder /\ h.folderOverride = old.folderOverride
      /\ h.id = old.id /\ h.type = old.type /\ h.unsaved = old.unsaved /\ h.override = old.override
      /\ h.alternate = old.alternate
      /\ h.localFile = old.localFile /\ h.project = old.project /\ h.apiKey = old.apiKey
  BY DEF Field
<1>3. \A p \in {"formatting", "modifier", "remote", "filter", "apikey", "project", "sanitization"} :
        Through(p, option + 1) <=> Through(p, option)
  BY AtThrough
<1>4. ~Through("sanitization", option)
  BY AtThrough
<1>. HIDE DEF old
<1>5. Fine(h, option + 1)
  BY <1>1, <1>2, <1>3, <1>4 DEF Fine, Typed, Placed, Fetched, Verified
<1>6. \A g : ComesFrom(old, g, option) => ComesFrom(h, g, option + 1)
  BY <1>2, <1>3 DEF ComesFrom
<1>. QED  BY <1>1, <1>5, <1>6, PutKeeps DEF old

(* Lines, language and dependencies.                                         *)
LEMMA ReadInv == IInv /\ (Filestats \/ DetectLanguage \/ DetectDependencies) => IInv'
<1>1. ASSUME IInv, Filestats PROVE IInv'
  <2>. DEFINE old == hh[n]
              h == IF IsFile(old) /\ old.lines = -1 /\ ~IsRemote(old.entity) /\ CanRead(Local(old)) /\ ~disk[Local(old)].large
                   THEN [old EXCEPT !.lines = disk[Local(old)].lines]
                   ELSE old
  <2>1. At("filestats") /\ Put(h)
    BY <1>1 DEF Filestats
  <2>2. DOMAIN old = Field
    BY <1>1, <2>1, AtFacts DEF Fine, Typed
  <2>3. DOMAIN h = Field /\ \A f \in Field \ {"lines"} : h[f] = old[f]
    BY <2>2
  <2>. HIDE DEF h
  <2>. QED  BY <1>1, <2>1, <2>3, Alike
<1>2. ASSUME IInv, DetectLanguage PROVE IInv'
  <2>. DEFINE old == hh[n]  language == Detect(Local(old))
  <2>1. /\ At("language")
        /\ Put(CASE old.language # "" -> old
                 [] old.language = "" /\ language # Unknown -> [old EXCEPT !.language = language]
                 [] OTHER -> [old EXCEPT !.language = old.languageAlternate])
    BY <1>2 DEF DetectLanguage
  <2>2. At("language") /\ \E value : Put([old EXCEPT !.language = value]) \/ Put(old)
    BY <2>1
  <2>3. DOMAIN old = Field
    BY <1>2, <2>2, AtFacts DEF Fine, Typed
  <2>. PICK value : Put([old EXCEPT !.language = value]) \/ Put(old)
    BY <2>2
  <2>. DEFINE h == [old EXCEPT !.language = value]
  <2>4. DOMAIN h = Field /\ \A f \in Field \ {"language"} : h[f] = old[f]
    BY <2>3
  <2>5. CASE Put(h)
    <3>. HIDE DEF h
    <3>. QED  BY <1>2, <2>2, <2>4, <2>5, Alike
  <2>6. CASE Put(old)
    BY <1>2, <2>2, <2>3, <2>6, Alike
  <2>. QED  BY <2>5, <2>6
<1>3. ASSUME IInv, DetectDependencies PROVE IInv'
  <2>. DEFINE old == hh[n]
              h == IF IsFile(old) /\ old.language # "" /\ ~Matches(old.entity, config.hideFiles) /\ CanRead(Local(old))
                   THEN [old EXCEPT !.dependencies = Local(old)]
                   ELSE old
  <2>1. At("deps") /\ Put(h)
    BY <1>3 DEF DetectDependencies
  <2>2. DOMAIN old = Field
    BY <1>3, <2>1, AtFacts DEF Fine, Typed
  <2>3. DOMAIN h = Field /\ \A f \in Field \ {"dependencies"} : h[f] = old[f]
    BY <2>2
  <2>. HIDE DEF h
  <2>. QED  BY <1>3, <2>1, <2>3, Alike
<1>. QED  BY <1>1, <1>2, <1>3
(* Project detection gives a heartbeat no project only if there is none.     *)
LEMMA DetectProjectInv == IInv /\ DetectProject => IInv'
<1>. SUFFICES ASSUME IInv, DetectProject PROVE IInv'
  OBVIOUS
<1>. DEFINE old == hh[n]  found == RepositoryOf(old.entity)
<1>1. At("project") /\ "project" \notin Filtering
  BY DEF DetectProject, Filtering
<1>2. Fine(old, option) /\ DOMAIN old = Field /\ old.located = old.entity
  BY <1>1, AtFacts, AtThrough DEF Fine, Typed, Placed
<1>3. IsSequence(found.folder)
  <2>1. IsSequence(None)
    BY DEF None, IsSequence
  <2>. QED  BY <2>1, RepositoryAssumption DEF RepositoryOf, NoRepository
<1>4. PICK h : /\ Put(h) /\ DOMAIN h = Field
               /\ \A f \in Field \ {"project", "branch", "folder"} : h[f] = old[f]
               /\ h.folder \in {old.folder, found.folder}
               /\ h.project = "" =>
                    old.override = "" /\ old.alternate = "" /\ (~IsFile(old) \/ found.project = "")
  <2>1. CASE ~IsFile(old)
    <3>. DEFINE name == firstNonEmpty(old.override, old.alternate)
                h == [old EXCEPT !.project = name]
    <3>1. Put(h)
      BY <2>1 DEF DetectProject
    <3>2. /\ DOMAIN h = Field /\ \A f \in Field \ {"project"} : h[f] = old[f]
          /\ h.folder = old.folder /\ h.project = name
      BY <1>2 DEF Field
    <3>3. name = "" => old.override = "" /\ old.alternate = ""
      BY DEF firstNonEmpty
    <3>. HIDE DEF h, name
    <3>. QED  BY <2>1, <3>1, <3>2, <3>3
  <2>2. CASE IsFile(old) /\ old.override = "" /\ found.project # "" /\ config.obfuscates
    <3>. DEFINE h == [old EXCEPT !.project = GeneratedName, !.branch = found.branch, !.folder = found.folder]
    <3>1. Put(h)
      BY <2>2 DEF DetectProject
    <3>2. /\ DOMAIN h = Field /\ \A f \in Field \ {"project", "branch", "folder"} : h[f] = old[f]
          /\ h.folder = found.folder /\ h.project # ""
      BY <1>2 DEF Field, GeneratedName
    <3>. HIDE DEF h
    <3>. QED  BY <3>1, <3>2
  <2>3. CASE ~(~IsFile(old)) /\ ~(IsFile(old) /\ old.override = "" /\ found.project # "" /\ config.obfuscates)
    <3>. DEFINE name == firstNonEmpty(old.override, firstNonEmpty(found.project, old.alternate))
                h == [old EXCEPT !.project = name, !.branch = found.branch, !.folder = found.folder]
    <3>1. Put(h)
      BY <2>3 DEF DetectProject
    <3>2. /\ DOMAIN h = Field /\ \A f \in Field \ {"project", "branch", "folder"} : h[f] = old[f]
          /\ h.folder = found.folder
          /\ h.project = name
      BY <1>2 DEF Field
    <3>3. name = "" => old.override = "" /\ found.project = "" /\ old.alternate = ""
      BY DEF firstNonEmpty
    <3>. HIDE DEF h, name
    <3>. QED  BY <3>1, <3>2, <3>3
  <2>. QED  BY <2>1, <2>2, <2>3
<1>5. /\ h.entity = old.entity /\ h.located = old.located /\ h.raw = old.raw /\ h.server = old.server
      /\ h.folderOverride = old.folderOverride
      /\ h.id = old.id /\ h.type = old.type /\ h.unsaved = old.unsaved /\ h.override = old.override
      /\ h.alternate = old.alternate
      /\ h.localFile = old.localFile /\ h.apiKey = old.apiKey
  BY <1>4 DEF Field
<1>6. \A o : o # "project" => (Through(o, option + 1) <=> Through(o, option))
  BY <1>1, AtThrough
<1>7. ~Through("sanitization", option) /\ Through("modifier", option) /\ Through("formatting", option)
  BY <1>1, AtThrough
<1>8. Fine(h, option + 1)
  BY <1>2, <1>3, <1>4, <1>5, <1>6, <1>7 DEF Fine, Typed, Placed, Fetched, Verified
<1>9. ASSUME NEW g \in Range(given), ComesFrom(old, g, option)
      PROVE  ComesFrom(h, g, option + 1)
  <2>1. /\ old.entity = LocatedOf(g) /\ (IsFile(old) <=> IsFile(g))
        /\ old.override = g.override /\ old.alternate = g.alternate
    BY <1>2, <1>7, <1>9 DEF ComesFrom, IsFile
  <2>2. h.project = "" => g.override = "" /\ g.alternate = "" /\ (~IsFile(g) \/ RepositoryOf(LocatedOf(g)).project = "")
    BY <1>4, <2>1
  <2>. HIDE DEF old
  <2>. QED  BY <1>5, <1>6, <1>7, <1>9, <2>2 DEF ComesFrom
<1>. QED  BY <1>1, <1>4, <1>8, <1>9, PutKeeps

(* The first filter keeps nothing that is excluded and drops nothing else    *)
(* than that, what cannot be examined and what has no project file.          *)
LEMMA FilterInv == IInv /\ Filter => IInv'
<1>. SUFFICES ASSUME IInv, Filter PROVE IInv'
  OBVIOUS
<1>. DEFINE old == hh[n]  kept == filterByPattern(old) /\ (IsFile(old) => filterFileEntity(old))
<1>1. At("filter") /\ "filter" \in Filtering /\ Keep(kept)
  BY DEF Filter, Filtering
<1>2. /\ Fine(old, option) /\ DOMAIN old = Field /\ old.located = old.entity /\ IsPath(old.entity)
  BY <1>1, AtFacts, AtThrough DEF Fine, Typed, Placed, Rooted
<1>3. old.entity # None
  BY <1>2, EmptySeq DEF IsPath, IsSequence, None
<1>4. \A o : o # "filter" => (Through(o, option + 1) <=> Through(o, option))
  BY <1>1, AtThrough
<1>5. ~Through("sanitization", option) /\ Through("modifier", option)
  BY <1>1, AtThrough
<1>6. ASSUME kept PROVE Fine(old, option + 1)
  <2>1. ~Excluded(old.located)
    BY <1>2, <1>3, <1>6 DEF filterByPattern, Excluded
  <2>. HIDE DEF old
  <2>. QED  BY <1>2, <1>4, <1>5, <2>1 DEF Fine, Placed, Fetched
<1>7. ASSUME NEW g \in Range(given), ComesFrom(old, g, option)
      PROVE  ComesFrom(old, g, option + 1) /\ (~kept => Dropped(g))
  <2>1. ComesFrom(old, g, option + 1)
    <3>. HIDE DEF old
    <3>. QED  BY <1>4, <1>7 DEF ComesFrom
  <2>2. ASSUME ~kept PROVE Dropped(g)
    <3>1. /\ old.entity = LocatedOf(g) /\ (IsFile(old) <=> IsFile(g))
          /\ IsRemote(LocatedOf(g)) \/ old.localFile = g.localFile
      BY <1>2, <1>5, <1>7 DEF ComesFrom, IsFile
    <3>2. CASE ~filterByPattern(old)
      BY <3>1, <3>2 DEF filterByPattern, Excluded, Dropped
    <3>3. CASE IsFile(old) /\ ~filterFileEntity(old)
      <4>1. IsRemote(LocatedOf(g)) \/ (old.localFile = g.localFile /\ IsFile(g))
        BY <3>1, <3>3
      <4>2. \/ (IF old.localFile # None THEN old.localFile ELSE old.entity) \notin DOMAIN disk
            \/ config.onlyWithProjectFile /\ old.localFile = None /\ ~InProject(old.entity)
        BY <3>3 DEF filterFileEntity, Local
      <4>. QED  BY <3>1, <4>1, <4>2 DEF Dropped
    <3>. QED  BY <2>2, <3>2, <3>3
  <2>. QED  BY <2>1, <2>2
<1>. QED  BY <1>1, <1>6, <1>7, KeepKeeps

(* The second filter drops what has no project.                              *)
LEMMA FilterUnknownInv == IInv /\ FilterUnknown => IInv'
<1>. SUFFICES ASSUME IInv, FilterUnknown PROVE IInv'
  OBVIOUS
<1>. DEFINE old == hh[n]  kept == config.excludeUnknown => old.project # ""
<1>1. At("unknown") /\ "unknown" \in Filtering /\ Keep(kept)
  BY DEF FilterUnknown, Filtering
<1>2. Fine(old, option)
  BY <1>1, AtFacts
<1>3. \A o : o # "unknown" => (Through(o, option + 1) <=> Through(o, option))
  BY <1>1, AtThrough
<1>4. Through("project", option)
  BY <1>1, AtThrough
<1>. HIDE DEF old
<1>5. Fine(old, option + 1)
  BY <1>2, <1>3 DEF Fine, Placed, Fetched
<1>6. \A g : ComesFrom(old, g, option) => ComesFrom(old, g, option + 1) /\ (~kept => Dropped(g))
  BY <1>3, <1>4 DEF ComesFrom, Dropped
<1>. QED  BY <1>1, <1>5, <1>6, KeepKeeps DEF old

(* A command that panics or exits has been given what makes it do so.        *)
LEMMA EndInv == IInv /\ (ModifyPanics \/ DownloadExits) => IInv'
<1>. SUFFICES ASSUME IInv, ModifyPanics \/ DownloadExits PROVE IInv'
  OBVIOUS
<1>1. /\ UNCHANGED <<passed, hh, option, n, filtered>> /\ pc' \in {"panicked", "exited"} /\ pc = "options"
  BY DEF ModifyPanics, DownloadExits, At
<1>2. UNCHANGED <<disk, config, patterns, given, received, queue, hh, option, n, filtered>>
  BY <1>1 DEF passed
<1>3. KeyPatterns' = KeyPatterns /\ \A i : Passed(i)' = Passed(i)
  BY <1>2, SameConfig DEF KeyPatterns, Passed
<1>4. Loop'
  BY <1>1, <1>2, <1>3, SameConfig DEF IInv, Loop
<1>5. AllFine'
  BY <1>1, <1>2, <1>3, SameConfig DEF IInv, AllFine, Verified
<1>6. AllKept' /\ GroupedByOwnKey' /\ NoneLost' /\ AllGiven'
  BY <1>1, <1>2, SameConfig DEF IInv, AllKept, GroupedByOwnKey, NoneLost, AllGiven
<1>7. ASSUME NEW o, At(o), o \notin Filtering
      PROVE  \E g \in Range(given) : ComesFrom(hh[n], g, option)
  BY <1>1, <1>7, AtFacts DEF IInv, AllGiven, Passed
<1>8. CASE ModifyPanics
  <2>. DEFINE old == hh[n]
  <2>1. /\ At("modifier") /\ "modifier" \notin Filtering /\ pc' = "panicked"
        /\ old.type = "file" /\ Last(old.entity) \in Playground /\ old.entity \notin DOMAIN disk
    BY <1>8 DEF ModifyPanics, Filtering
  <2>2. PICK g \in Range(given) : ComesFrom(old, g, option)
    BY <1>7, <2>1
  <2>3. old.entity = Formatted(g) /\ old.type = g.type
    BY <2>1, <2>2, AtThrough DEF ComesFrom
  <2>4. BundleGone(g)'
    BY <1>2, <2>1, <2>3 DEF BundleGone, Formatted
  <2>5. Ends'
    BY <1>2, <2>1, <2>4 DEF Ends
  <2>. QED  BY <1>4, <1>5, <1>6, <2>5 DEF IInv
<1>9. CASE DownloadExits
  <2>. DEFINE old == hh[n]
  <2>1. /\ At("remote") /\ "remote" \notin Filtering /\ pc' = "exited"
        /\ IsFile(old) /\ IsRemote(old.entity) /\ Remote!SignerFatal(Remote!NewClient(old.entity))
    BY <1>9 DEF DownloadExits, Filtering
  <2>2. PICK g \in Range(given) : ComesFrom(old, g, option)
    BY <1>7, <2>1
  <2>3. old.entity = LocatedOf(g) /\ (IsFile(old) <=> IsFile(g))
    <3>1. old.located = old.entity
      BY <2>1, AtFacts, AtThrough DEF Fine, Placed
    <3>. QED  BY <2>1, <2>2, <3>1, AtThrough DEF ComesFrom, IsFile
  <2>4. IdentityFatal(g)'
    BY <2>1, <2>3 DEF IdentityFatal
  <2>5. Ends'
    BY <1>2, <2>1, <2>4 DEF Ends
  <2>. QED  BY <1>4, <1>5, <1>6, <2>5 DEF IInv
<1>. QED  BY <1>8, <1>9

-----------------------------------------------------------------------------
(* The chain, the sender, the queue and the environment.                     *)

(* At the beginning the heartbeats are those of the command.                 *)
LEMMA InvInit == Init => IInv
<1>. SUFFICES ASSUME Init PROVE IInv
  OBVIOUS
<1>1. /\ given \in Input /\ hh = given /\ option = 0 /\ n = 1 /\ filtered = <<>> /\ pc = "options"
      /\ received = {} /\ queue = {} /\ disk \in Disk /\ patterns \in KeyPatterns
  BY DEF Init
<1>2. IsSequence(hh) /\ \A h \in Range(hh) : Typed(h) /\ h.raw = None
  BY <1>1, InputAssumption DEF Typed
<1>3. \A h \in Range(hh) : Rooted(h.entity)
  BY <1>1, RootAssumption DEF Rooted
<1>4. DOMAIN hh = 1 .. Len(hh) /\ Len(hh) \in Nat /\ \A i \in DOMAIN hh : hh[i] \in Range(hh) /\ Passed(i) = 0
  BY <1>1, <1>2, LenProperties DEF IsSequence, Range, Passed
<1>5. DOMAIN <<>> = {} /\ IsSequence(<<>>)
  BY DEF IsSequence
<1>6. Loop
  BY <1>1, <1>2, <1>4, <1>5, OptionFacts DEF Loop
<1>7. AllFine
  <2>1. \A i \in DOMAIN hh : Fine(hh[i], 0)
    BY <1>2, <1>3, <1>4, ThroughNone DEF Fine, Placed, Fetched
  <2>. QED  BY <1>1, <1>2, <1>4, <1>5, <2>1 DEF AllFine
<1>8. AllKept /\ GroupedByOwnKey
  BY <1>1 DEF AllKept, GroupedByOwnKey
<1>9. NoneLost
  <2>1. \A i \in DOMAIN given : ComesFrom(hh[i], given[i], Passed(i))
    BY <1>1, <1>4, ThroughNone DEF ComesFrom
  <2>2. \A i \in DOMAIN given : OnItsWay(given[i])
    BY <1>1, <1>4, <2>1 DEF OnItsWay
  <2>. QED  BY <1>1, <2>2 DEF NoneLost
<1>10. AllGiven /\ Ends
  <2>1. \A i \in DOMAIN hh : ComesFrom(hh[i], given[i], Passed(i)) /\ given[i] \in Range(given)
    BY <1>1, <1>4, ThroughNone DEF ComesFrom
  <2>. QED  BY <1>1, <1>5, <2>1 DEF AllGiven, Ends
<1>. QED  BY <1>6, <1>7, <1>8, <1>9, <1>10 DEF IInv

(* A file that disappears changes no heartbeat.                              *)
LEMMA VanishInv == IInv /\ Vanish => IInv'
<1>. SUFFICES ASSUME IInv, Vanish PROVE IInv'
  OBVIOUS
<1>1. /\ UNCHANGED <<config, patterns, given, hh, option, n, filtered, pc, received, queue>>
      /\ DOMAIN disk' \subseteq DOMAIN disk /\ \A path \in DOMAIN disk' : disk'[path] = disk[path]
  BY DEF Vanish
<1>2. KeyPatterns' = KeyPatterns /\ \A i : Passed(i)' = Passed(i)
  BY <1>1, SameConfig DEF KeyPatterns, Passed
<1>3. Loop'
  BY <1>1, <1>2, SameConfig DEF IInv, Loop
<1>4. AllFine'
  BY <1>1, <1>2, SameConfig DEF IInv, AllFine, Verified
<1>5. AllKept' /\ GroupedByOwnKey'
  BY <1>1, SameConfig DEF IInv, AllKept, GroupedByOwnKey
<1>6. NoneLost'
  <2>1. \A g : OnItsWay(g)' <=> OnItsWay(g)
    BY <1>1, <1>2, SameConfig DEF OnItsWay
  <2>2. Arrived' = Arrived
    BY <1>1 DEF Arrived
  <2>. QED  BY <1>1, <2>1, <2>2, DroppedStays DEF IInv, NoneLost
<1>7. AllGiven'
  BY <1>1, <1>2, SameConfig DEF IInv, AllGiven
<1>8. Ends'
  <2>1. pc' = "options"
    BY <1>1 DEF Vanish
  <2>. QED  BY <2>1 DEF Ends
<1>. QED  BY <1>3, <1>4, <1>5, <1>6, <1>7, <1>8 DEF IInv

(* At the end of its loop an option passes the heartbeats, or those it has   *)
(* kept, on to the next.                                                     *)
LEMMA PassOnInv == IInv /\ PassOn => IInv'
<1>. SUFFICES ASSUME IInv, PassOn PROVE IInv'
  OBVIOUS
<1>. DEFINE filters == Options[option + 1] \in Filtering
<1>1. /\ pc = "options" /\ n > Len(hh) /\ option' = option + 1 /\ n' = 1 /\ filtered' = <<>>
      /\ hh' = IF filters THEN filtered ELSE hh
      /\ \/ hh' = <<>> /\ pc' = "done"
         \/ hh' # <<>> /\ option' = Len(Options) /\ pc' = "send"
         \/ hh' # <<>> /\ option' < Len(Options) /\ pc' = "options"
      /\ UNCHANGED <<disk, config, patterns, given, removals, received, queue>>
  BY DEF PassOn, passed
<1>2. /\ IsSequence(hh) /\ IsSequence(filtered) /\ option \in 0 .. Len(Options) - 1 /\ option' \in 0 .. Len(Options)
      /\ DOMAIN hh = 1 .. Len(hh) /\ Len(hh) \in Nat /\ n = Len(hh) + 1
  BY <1>1, OptionFacts, LenProperties DEF IInv, Loop, IsSequence
<1>3. DOMAIN <<>> = {} /\ IsSequence(<<>>) /\ IsSequence(hh')
  BY <1>1, <1>2 DEF IsSequence
<1>4. DOMAIN hh' = 1 .. Len(hh') /\ Len(hh') \in Nat
  BY <1>3, LenProperties DEF IsSequence
<1>5. \A i \in DOMAIN hh' : Passed(i)' = option + 1
  BY <1>1, <1>4, SameConfig DEF Passed
<1>6. Loop'
  <2>1. KeyPatterns' = KeyPatterns
    BY DEF KeyPatterns
  <2>. QED  BY <1>1, <1>2, <1>3, <1>4, <2>1, SameConfig DEF IInv, Loop
<1>7. \A i \in DOMAIN hh : ~filters => Passed(i) = option + 1
  BY <1>2 DEF Passed
<1>8. \A i \in DOMAIN hh' : Fine(hh'[i], option + 1)
  BY <1>1, <1>7 DEF IInv, AllFine
<1>9. AllFine'
  <2>1. \A i \in DOMAIN hh' : hh'[i].raw # None => Verified(hh'[i])
    BY <1>8 DEF Fine, Fetched
  <2>2. \A g : Verified(g)' <=> Verified(g)
    BY DEF Verified
  <2>. QED  BY <1>1, <1>3, <1>5, <1>8, <2>1, <2>2, SameConfig DEF AllFine
<1>10. AllKept' /\ GroupedByOwnKey'
  BY <1>1, SameConfig DEF IInv, AllKept, GroupedByOwnKey
<1>11. NoneLost'
  <2>. SUFFICES ASSUME NEW i \in DOMAIN given, ~Dropped(given[i])
                PROVE  \/ pc' = "options" /\ OnItsWay(given[i])'
                       \/ pc' = "send" /\ given[i].id \in {h.id : h \in Range(hh')}
    BY <1>1, DroppedStays DEF NoneLost
  <2>. DEFINE g == given[i]
  <2>1. OnItsWay(g)
    BY <1>1 DEF IInv, NoneLost
  <2>2. PICK j \in DOMAIN hh' : ComesFrom(hh'[j], g, option + 1)
    <3>1. ASSUME filters, NEW j \in DOMAIN hh, j >= n PROVE FALSE
      BY <1>2, <3>1
    <3>2. CASE filters
      BY <1>1, <2>1, <3>1, <3>2 DEF OnItsWay
    <3>3. CASE ~filters
      <4>1. filtered = <<>>
        BY <1>1, <3>3 DEF IInv, Loop
      <4>. QED  BY <1>1, <1>3, <1>7, <2>1, <3>3, <4>1 DEF OnItsWay
    <3>. QED  BY <3>2, <3>3
  <2>3. hh' # <<>>
    BY <1>3, <2>2
  <2>4. CASE pc' = "options"
    <3>1. (\E j1 \in DOMAIN hh : ComesFrom(hh[j1], g, Passed(j1)) /\ (Options[option + 1] \in Filtering => j1 >= n))'
      BY <1>1, <1>4, <1>5, <2>2, SameConfig
    <3>. QED  BY <2>4, <3>1 DEF OnItsWay
  <2>5. CASE pc' = "send"
    BY <2>2, <2>5 DEF ComesFrom, Range
  <2>. QED  BY <1>1, <2>3, <2>4, <2>5
<1>12. AllGiven'
  <2>1. \A i \in DOMAIN hh' : \E g \in Range(given) : ComesFrom(hh'[i], g, option + 1)
    BY <1>1, <1>7 DEF IInv, AllGiven
  <2>. QED  BY <1>1, <1>3, <1>5, <2>1, SameConfig DEF AllGiven
<1>13. Ends'
  BY <1>1 DEF Ends
<1>. QED  BY <1>6, <1>9, <1>10, <1>11, <1>12, <1>13 DEF IInv
(* What is inside a folder begins as the folder does.                        *)
LEMMA InsideRoot ==
  ASSUME NEW path, NEW folder, IsSequence(folder), IsSequence(path), Inside(path, folder)
  PROVE  /\ Len(folder) \in Nat \ {0} /\ Len(path) \in Nat /\ Len(folder) + 2 <= Len(path)
         /\ Head(folder) = folder[1] /\ Head(folder) = path[1]
<1>1. folder # <<>> /\ Len(folder) + 2 <= Len(path) /\ SubSeq(folder, 1, Len(folder)) = SubSeq(path, 1, Len(folder))
  BY DEF Inside, IsPrefix, None
<1>2. Len(folder) \in Nat \ {0} /\ Len(path) \in Nat
  BY <1>1, EmptySeq, LenProperties DEF IsSequence
<1>3. SubSeq(folder, 1, Len(folder))[1] = folder[1] /\ SubSeq(path, 1, Len(folder))[1] = path[1]
  BY <1>2
<1>4. Head(folder) = folder[1]
  BY <1>1 DEF IsSequence
<1>. QED  BY <1>1, <1>2, <1>3, <1>4

(* What leaves the command is through all options.                           *)
LEMMA AtTheEnd ==
  ASSUME IInv, pc = "send", NEW h \in Range(hh)
  PROVE  Kept(h, "direct") /\ Fine(h, Len(Options)) /\ (config.send => h.apiKey \in KeysOf(h.located))
<1>1. PICK i \in DOMAIN hh : h = hh[i]
  BY DEF Range
<1>2. Fine(h, Len(Options))
  <2>1. option = Len(Options) /\ n = 1 /\ DOMAIN hh = 1 .. Len(hh)
    BY LenProperties DEF IInv, Loop, IsSequence
  <2>2. Passed(i) = Len(Options)
    BY <2>1 DEF Passed
  <2>. QED  BY <1>1, <2>2 DEF IInv, AllFine
<1>. QED  BY <1>2, ThroughAll DEF Fine, Kept, Typed

(* The command is over for all its heartbeats at once.                       *)
LEMMA DoneKeeps ==
  ASSUME IInv, pc = "send", pc' = "done",
         UNCHANGED <<disk, config, patterns, given, hh, option, n, filtered, removals>>,
         \A h \in Range(hh) : h.id \in {x.id : x \in Arrived'}
  PROVE  Loop' /\ AllFine' /\ NoneLost' /\ AllGiven' /\ Ends'
<1>1. KeyPatterns' = KeyPatterns
  BY DEF KeyPatterns
<1>2. Loop'
  BY <1>1, SameConfig DEF IInv, Loop
<1>3. AllFine'
  BY DEF IInv, AllFine, Verified
<1>4. NoneLost'
  BY DroppedStays DEF IInv, NoneLost
<1>5. AllGiven' /\ Ends'
  BY DEF AllGiven, Ends
<1>. QED  BY <1>2, <1>3, <1>4, <1>5

(* The sender delivers all heartbeats that are left.                         *)
LEMMA SendInv == IInv /\ Send => IInv'
<1>. SUFFICES ASSUME IInv, Send PROVE IInv'
  OBVIOUS
<1>1. /\ pc = "send" /\ config.send /\ pc' = "done"
      /\ received' = received \cup {Sent(h, "direct") : h \in Range(hh)}
      /\ UNCHANGED <<disk, config, patterns, given, hh, option, n, filtered, queue, removals>>
  BY DEF Send
<1>2. \A h : Sent(h, "direct").heartbeat = h /\ Sent(h, "direct").via = "direct"
  BY DEF Sent
<1>3. \A h \in Range(hh) : h \in Arrived'
  BY <1>1, <1>2 DEF Arrived
<1>4. AllKept'
  BY <1>1, <1>2, AtTheEnd, SameConfig DEF IInv, AllKept
<1>5. GroupedByOwnKey'
  BY <1>1, <1>2, AtTheEnd DEF IInv, GroupedByOwnKey
<1>. QED  BY <1>1, <1>3, <1>4, <1>5, DoneKeeps DEF IInv

(* A hidden name goes by the type and the extension.                         *)
LEMMA HiddenNameOf ==
  ASSUME NEW h, NEW k, h.type = k.type, h.entity = k.entity
  PROVE  HiddenName(h) = HiddenName(k)
BY DEF HiddenName

(* What is stored of a heartbeat hides what has to be hidden.                *)
LEMMA StoredKept ==
  ASSUME NEW h, Kept(h, "direct"), Fine(h, Len(Options))
  PROVE  Kept(Stored(h), "queue") /\ Stored(h).id = h.id
<1>. DEFINE s == Stored(h)
<1>1. Typed(h) /\ DOMAIN h = Field /\ Rooted(h.located) /\ Fetched(h, Len(Options))
  BY ThroughAll DEF Fine, Placed, Typed
<1>2. /\ DOMAIN s = Field /\ \A f \in Field \ {"entity", "apiKey"} : s[f] = h[f]
      /\ s.entity = IF h.raw # None THEN h.raw ELSE h.entity
  BY <1>1 DEF Field, Stored
<1>3. /\ s.id = h.id /\ s.type = h.type /\ s.located = h.located /\ s.raw = h.raw /\ s.lines = h.lines
      /\ s.dependencies = h.dependencies /\ s.cursor = h.cursor /\ s.branch = h.branch
      /\ s.folder = h.folder /\ s.folderOverride = h.folderOverride
  BY <1>2 DEF Field
<1>4. HiddenName([s EXCEPT !.entity = s.located]) = HiddenName([h EXCEPT !.entity = h.located])
  <2>. DEFINE s1 == [s EXCEPT !.entity = s.located]  h1 == [h EXCEPT !.entity = h.located]
  <2>1. s1.type = h1.type /\ s1.entity = h1.entity
    BY <1>1, <1>2, <1>3 DEF Field
  <2>. QED  BY <2>1, HiddenNameOf
<1>. HIDE DEF s
<1>5. FileNamesHidden(s, "queue")
  <2>. SUFFICES ASSUME Matches(h.located, config.hideFiles), h.raw = None PROVE Hides(s)
    BY <1>3 DEF FileNamesHidden
  <2>1. Hides(h)
    BY DEF Kept, Hidden, FileNamesHidden
  <2>. QED  BY <1>2, <1>3, <1>4, <2>1 DEF Hides
<1>6. FolderHidden(s)
  <2>1. CASE h.raw = None
    BY <1>2, <1>3, <2>1 DEF Kept, Hidden, FolderHidden
  <2>2. CASE h.raw # None
    <3>1. IsRemote(h.located)
      BY <1>1, <2>2, ThroughAll DEF Fetched
    <3>2. h.located # <<>> /\ Head(h.located) = h.located[1] /\ h.located[1] = "ssh://"
      <4>1. h.located # <<>> /\ Head(h.located) = "ssh://"
      BY <3>1 DEF IsRemote, Remote!IsRemote
    <4>. QED  BY <1>1, <4>1 DEF Rooted, IsPath, IsSequence
    <3>3. \A folder \in {h.folder, h.folderOverride} : Inside(h.located, folder) => Head(folder) \notin Root
      BY <1>1, <3>2, InsideRoot, RootAssumption DEF Typed, Rooted, IsPath
    <3>. QED  BY <1>3, <3>3 DEF FolderHidden
  <2>. QED  BY <2>1, <2>2
<1>7. CredentialsHidden(s, "queue")
  BY DEF CredentialsHidden
<1>. QED  BY <1>2, <1>3, <1>5, <1>6, <1>7 DEF Kept, Hidden, s

(* The queue stores all heartbeats that are left.                            *)
LEMMA PushInv == IInv /\ Push => IInv'
<1>. SUFFICES ASSUME IInv, Push PROVE IInv'
  OBVIOUS
<1>1. /\ pc = "send" /\ pc' = "done"
      /\ queue' = queue \cup {Stored(h) : h \in Range(hh)}
      /\ UNCHANGED <<disk, config, patterns, given, hh, option, n, filtered, received, removals>>
  BY DEF Push
<1>2. \A h \in Range(hh) : Kept(Stored(h), "queue") /\ Stored(h).id = h.id
  BY <1>1, AtTheEnd, StoredKept
<1>3. \A h \in Range(hh) : h.id \in {x.id : x \in Arrived'}
  BY <1>1, <1>2 DEF Arrived
<1>4. AllKept'
  BY <1>1, <1>2, SameConfig DEF IInv, AllKept
<1>5. GroupedByOwnKey'
  BY <1>1 DEF IInv, GroupedByOwnKey
<1>. QED  BY <1>1, <1>3, <1>4, <1>5, DoneKeeps DEF IInv

(* A later synchronisation gives each heartbeat its key and loses none.      *)
LEMMA SyncInv == IInv /\ Sync => IInv'
<1>. SUFFICES ASSUME IInv, Sync PROVE IInv'
  OBVIOUS
<1>. DEFINE keyed(h) == [h EXCEPT !.apiKey = MatchPattern(h.entity, patterns')]
<1>1. /\ pc = "done" /\ patterns' \in KeyPatterns /\ queue' = {}
      /\ received' = received \cup {Sent(keyed(h), "queue") : h \in queue}
      /\ UNCHANGED <<disk, config, given, hh, option, n, filtered, pc, removals>>
  BY DEF Sync
<1>2. \A h : Sent(h, "queue").heartbeat = h /\ Sent(h, "queue").via = "queue"
  BY DEF Sent
<1>3. ASSUME NEW h \in queue
      PROVE  /\ Kept(keyed(h), "queue") /\ keyed(h).id = h.id
             /\ keyed(h).entity = keyed(h).located => keyed(h).apiKey \in KeysOf(keyed(h).located)
  <2>. DEFINE k == keyed(h)
  <2>1. Kept(h, "queue") /\ DOMAIN h = Field
    BY DEF IInv, AllKept, Kept
  <2>2. /\ DOMAIN k = Field /\ \A f \in Field \ {"apiKey"} : k[f] = h[f]
        /\ k.apiKey = MatchPattern(h.entity, patterns')
    BY <2>1 DEF Field
  <2>3. /\ k.id = h.id /\ k.type = h.type /\ k.entity = h.entity /\ k.located = h.located /\ k.raw = h.raw
        /\ k.lines = h.lines /\ k.dependencies = h.dependencies /\ k.cursor = h.cursor /\ k.branch = h.branch
        /\ k.folder = h.folder /\ k.folderOverride = h.folderOverride
    BY <2>2 DEF Field
  <2>4. HiddenName([k EXCEPT !.entity = k.located]) = HiddenName([h EXCEPT !.entity = h.located])
    <3>. DEFINE k1 == [k EXCEPT !.entity = k.located]  h1 == [h EXCEPT !.entity = h.located]
    <3>1. k1.type = h1.type /\ k1.entity = h1.entity
      BY <2>1, <2>2, <2>3 DEF Field
    <3>. QED  BY <3>1, HiddenNameOf
  <2>. HIDE DEF keyed
  <2>5. MatchPattern(h.entity, patterns') \in KeysOf(h.entity)
    BY <1>1, MatchFacts
  <2>6. FileNamesHidden(k, "queue")
    BY <2>1, <2>3, <2>4 DEF Kept, Hidden, FileNamesHidden, Hides
  <2>7. FolderHidden(k) /\ CredentialsHidden(k, "queue") /\ ~Excluded(k.located)
    BY <2>1, <2>3 DEF Kept, Hidden, FolderHidden, CredentialsHidden
  <2>. QED  BY <2>2, <2>3, <2>5, <2>6, <2>7 DEF Kept, Hidden
<1>. HIDE DEF keyed
<1>4. {h.id : h \in Arrived} \subseteq {h.id : h \in Arrived'}
  BY <1>1, <1>2, <1>3 DEF Arrived
<1>5. KeyPatterns' = KeyPatterns
  BY DEF KeyPatterns
<1>6. Loop'
  BY <1>1, <1>5, SameConfig DEF IInv, Loop
<1>7. AllFine'
  BY <1>1 DEF IInv, AllFine, Verified
<1>8. AllKept'
  BY <1>1, <1>2, <1>3, SameConfig DEF IInv, AllKept
<1>9. GroupedByOwnKey'
  BY <1>1, <1>2, <1>3 DEF IInv, GroupedByOwnKey
<1>10. NoneLost'
  BY <1>1, <1>4, DroppedStays DEF IInv, NoneLost
<1>11. AllGiven' /\ Ends'
  BY <1>1 DEF AllGiven, Ends
<1>. QED  BY <1>6, <1>7, <1>8, <1>9, <1>10, <1>11 DEF IInv
-----------------------------------------------------------------------------
(* Sanitisation.                                                             *)

(* Names, and what was read or said of the file, are hidden together.        *)
LEMMA HideNamesFacts ==
  ASSUME NEW h, DOMAIN h = Field, NEW k, k = hideNames(h)
  PROVE  /\ DOMAIN k = Field
         /\ \A f \in Field \ {"entity", "cursor", "dependencies", "lines", "branch"} : k[f] = h[f]
         /\ IF Matches(h.entity, config.hideFiles)
            THEN /\ k.entity = HiddenName(h) /\ k.lines = -1 /\ k.dependencies = None /\ ~k.cursor
                 /\ config.hideBranches = {} => k.branch = ""
            ELSE k.entity = h.entity
<1>. DEFINE m == sanitizeMetaData(h)  b == sanitizeBranch(m)
<1>1. /\ DOMAIN m = Field /\ m.lines = -1 /\ m.dependencies = None /\ ~m.cursor
      /\ \A f \in Field \ {"cursor", "dependencies", "lines"} : m[f] = h[f]
  BY DEF sanitizeMetaData, Field
<1>2. /\ DOMAIN b = Field /\ b.lines = -1 /\ b.dependencies = None /\ ~b.cursor
      /\ \A f \in Field \ {"cursor", "dependencies", "lines", "branch"} : b[f] = h[f]
      /\ config.hideBranches = {} => b.branch = ""
  <2>. HIDE DEF m
  <2>. QED  BY <1>1 DEF sanitizeBranch, Field
<1>. HIDE DEF m, b
<1>3. CASE Matches(h.entity, config.hideFiles)
  <2>1. k = [b EXCEPT !.entity = HiddenName(h)]
    BY <1>3 DEF hideNames, m, b
  <2>2. /\ DOMAIN k = Field /\ k.entity = HiddenName(h)
        /\ \A f \in Field \ {"entity"} : k[f] = b[f]
    BY <1>2, <2>1 DEF Field
  <2>. QED  BY <1>2, <1>3, <2>2 DEF Field
<1>4. CASE ~Matches(h.entity, config.hideFiles) /\ Matches(h.project, config.hideProjects)
  <2>1. k = b
    BY <1>4 DEF hideNames, m, b
  <2>. QED  BY <1>2, <1>4, <2>1 DEF Field
<1>5. CASE ~Matches(h.entity, config.hideFiles) /\ ~Matches(h.project, config.hideProjects)
  <2>1. k = IF Matches(h.branch, config.hideBranches) THEN [h EXCEPT !.branch = ""] ELSE h
    BY <1>5 DEF hideNames
  <2>. QED  BY <1>5, <2>1 DEF Field
<1>. QED  BY <1>3, <1>4, <1>5

(* What remains of a path without its folder does not begin with a root or a *)
(* scheme.                                                                   *)
LEMMA RelativeFacts ==
  ASSUME NEW path, NEW folder, Rooted(path), IsSequence(folder), Inside(path, folder)
  PROVE  IsPath(Relative(path, folder)) /\ Relative(path, folder)[1] \notin Root \cup {"ssh://"}
<1>. DEFINE m == Len(folder) + 1  k == Len(path)
<1>1. Len(folder) \in Nat \ {0} /\ k \in Nat /\ m + 1 <= k /\ path \in Seq(Range(path))
  BY InsideRoot DEF Rooted, IsPath, IsSequence
<1>2. \A i \in m .. k : path[i] \in Range(path)
  BY <1>1, ElementOfSeq
<1>3. m \in Int /\ k \in Int /\ m <= k /\ k - m + 1 >= 2 /\ m \in 2 .. k /\ 1 \in 1 .. k - m + 1 /\ m + 1 - 1 = m
  BY <1>1
<1>. HIDE DEF m, k
<1>4. /\ SubSeq(path, m, k) \in Seq(Range(path))
      /\ Len(SubSeq(path, m, k)) = k - m + 1
      /\ SubSeq(path, m, k)[1] = path[m]
  BY <1>2, <1>3, SubSeqProperties
<1>5. Relative(path, folder) = SubSeq(path, m, k)
  BY DEF Relative, m, k
<1>6. path[m] \notin Root \cup {"ssh://"}
  BY <1>3 DEF Rooted, k
<1>. QED  BY <1>3, <1>4, <1>5, <1>6, OwnType DEF IsPath

(* A path whose second name is replaced.                                     *)
LEMMA BlankedFacts ==
  ASSUME NEW path, IsPath(path), NEW left
  PROVE  LET e == [path EXCEPT ![2] = left]
         IN  IsSequence(e) /\ Len(e) = Len(path) /\ e[2] = left /\ e[1] = path[1]
<1>1. path \in Seq(Range(path)) /\ Len(path) >= 2
  BY DEF IsPath, IsSequence
<1>2. Len(path) \in Nat /\ DOMAIN path = 1 .. Len(path)
  BY <1>1, LenProperties
<1>3. PICK i \in 1 .. Len(path) : i = 2
  BY <1>1, <1>2
<1>. DEFINE t == [path EXCEPT ![i] = left]
<1>5. /\ IsSequence(t) /\ Len(t) = Len(path) /\ DOMAIN t = DOMAIN path
      /\ t[i] = left /\ \A j \in DOMAIN path \ {i} : t[j] = path[j]
  <2>1. IsSequence(path)
    BY <1>1 DEF IsSequence
  <2>. QED  BY <2>1, SequenceEdit
<1>6. t = [path EXCEPT ![2] = left]
  BY <1>3
<1>7. 1 \in DOMAIN path \ {i}
  BY <1>1, <1>2, <1>3
<1>. HIDE DEF t
<1>. QED  BY <1>3, <1>5, <1>6, <1>7

(* A remote path loses of its credentials what the pattern of an address     *)
(* takes for them.                                                           *)
LEMMA CredentialsFacts ==
  ASSUME NEW h, DOMAIN h = Field, IsPath(h.entity), NEW k, k = hideCredentials(h)
  PROVE  /\ DOMAIN k = Field /\ \A f \in Field \ {"entity"} : k[f] = h[f]
         /\ IsPath(k.entity) /\ k.entity[1] = h.entity[1]
         /\ IsRemote(h.entity) => k.entity[2] = Login[h.entity[2]].left
         /\ ~IsRemote(h.entity) => k.entity = h.entity
<1>. DEFINE left == Login[h.entity[2]].left  e == [h.entity EXCEPT ![2] = left]
<1>2. IsSequence(e) /\ Len(e) = Len(h.entity) /\ e[2] = left /\ e[1] = h.entity[1]
  BY BlankedFacts
<1>. HIDE DEF e
<1>3. CASE IsRemote(h.entity)
  <2>1. k = [h EXCEPT !.entity = e]
    BY <1>3 DEF hideCredentials, e
  <2>2. DOMAIN k = Field /\ (\A f \in Field \ {"entity"} : k[f] = h[f]) /\ k.entity = e
    BY <2>1 DEF Field
  <2>. QED  BY <1>2, <1>3, <2>2 DEF IsPath
<1>4. CASE ~IsRemote(h.entity)
  BY <1>4 DEF hideCredentials
<1>. QED  BY <1>3, <1>4

(* A path is remote by its first name.                                       *)
LEMMA RemoteFirst ==
  ASSUME NEW path, IsPath(path)
  PROVE  IsRemote(path) <=> path[1] = "ssh://"
<1>1. path \in Seq(Range(path)) /\ Len(path) >= 2
  BY DEF IsPath, IsSequence
<1>2. path # <<>> /\ Head(path) = path[1]
  BY <1>1
<1>. QED  BY <1>2 DEF IsRemote, Remote!IsRemote

(* A hidden name is inside no folder, and not remote.                        *)
LEMMA HiddenNameFacts ==
  ASSUME NEW h, h.type = "file"
  PROVE  /\ IsPath(HiddenName(h)) /\ ~IsRemote(HiddenName(h))
         /\ \A folder : IsSequence(folder) => ~Inside(HiddenName(h), folder)
<1>. DEFINE e == HiddenName(h)  x == Last(h.entity)
<1>1. e = <<"HIDDEN", x>>
  BY DEF HiddenName
<1>. HIDE DEF x, e
<1>2. Len(e) = 2 /\ e \in Seq({"HIDDEN", x}) /\ Head(e) = "HIDDEN"
  BY <1>1
<1>3. IsPath(e)
  BY <1>2, OwnType DEF IsPath
<1>4. ~IsRemote(e)
  BY <1>2 DEF IsRemote, Remote!IsRemote
<1>5. ASSUME NEW folder, IsSequence(folder), Inside(e, folder) PROVE FALSE
  <2>1. IsSequence(e)
    BY <1>3 DEF IsPath
  <2>2. Len(folder) \in Nat \ {0} /\ Len(folder) + 2 <= Len(e)
    BY <1>5, <2>1, InsideRoot
  <2>. QED  BY <1>2, <2>2
<1>. QED  BY <1>3, <1>4, <1>5 DEF e
(* Of a path in its project folder only the part in that folder remains.     *)
LEMMA FolderFacts ==
  ASSUME NEW h, DOMAIN h = Field, Rooted(h.entity), IsSequence(h.folder), IsSequence(h.folderOverride),
         NEW k, k = hideProjectFolder(h)
  PROVE  /\ DOMAIN k = Field /\ \A f \in Field \ {"entity"} : k[f] = h[f]
         /\ IsPath(k.entity)
         /\ k.entity = h.entity \/ k.entity[1] # "ssh://"
         /\ config.hideFolder /\ h.type = "file" =>
              \A folder \in {h.folder, h.folderOverride} : Inside(h.entity, folder) => k.entity[1] \notin Root
<1>1. CASE h.type # "file" \/ ~config.hideFolder
  BY <1>1 DEF hideProjectFolder, Rooted
<1>2. CASE h.type = "file" /\ config.hideFolder
  <2>1. ASSUME NEW folder, folder \in {h.folder, h.folderOverride}, Inside(h.entity, folder),
               k = [h EXCEPT !.entity = Relative(@, folder)]
        PROVE  /\ DOMAIN k = Field /\ \A f \in Field \ {"entity"} : k[f] = h[f]
               /\ IsPath(k.entity) /\ k.entity[1] \notin Root \cup {"ssh://"}
    <3>1. IsPath(Relative(h.entity, folder)) /\ Relative(h.entity, folder)[1] \notin Root \cup {"ssh://"}
      BY <2>1, RelativeFacts
    <3>2. k.entity = Relative(h.entity, folder)
      BY <2>1 DEF Field
    <3>3. DOMAIN k = Field /\ \A f \in Field \ {"entity"} : k[f] = h[f]
      BY <2>1 DEF Field
    <3>. QED  BY <3>1, <3>2, <3>3
  <2>2. CASE Inside(h.entity, h.folder)
    <3>1. k = [h EXCEPT !.entity = Relative(@, h.folder)]
      BY <1>2, <2>2 DEF hideProjectFolder
    <3>. QED  BY <2>1, <2>2, <3>1
  <2>3. CASE ~Inside(h.entity, h.folder) /\ Inside(h.entity, h.folderOverride)
    <3>1. k = [h EXCEPT !.entity = Relative(@, h.folderOverride)]
      BY <1>2, <2>3 DEF hideProjectFolder
    <3>. QED  BY <2>1, <2>3, <3>1
  <2>4. CASE ~Inside(h.entity, h.folder) /\ ~Inside(h.entity, h.folderOverride)
    <3>1. k = h
      BY <1>2, <2>4 DEF hideProjectFolder
    <3>. QED  BY <2>4, <3>1 DEF Rooted
  <2>. QED  BY <2>2, <2>3, <2>4
<1>. QED  BY <1>1, <1>2

(* A name that is hidden is left alone by what hides folders and             *)
(* credentials.                                                              *)
LEMMA HiddenStays ==
  ASSUME NEW h, NEW old, h.entity = HiddenName(old), h.type = old.type,
         IsSequence(h.folder), IsSequence(h.folderOverride)
  PROVE  hideCredentials(hideProjectFolder(h)) = h /\ ~IsRemote(h.entity)
<1>1. CASE old.type = "file"
  <2>1. /\ ~IsRemote(h.entity) /\ ~Inside(h.entity, h.folder) /\ ~Inside(h.entity, h.folderOverride)
    BY <1>1, HiddenNameFacts
  <2>2. hideProjectFolder(h) = h
    BY <2>1 DEF hideProjectFolder
  <2>. QED  BY <2>1, <2>2 DEF hideCredentials
<1>2. CASE old.type # "file"
  <2>1. h.entity = <<"HIDDEN">>
    BY <1>2 DEF HiddenName
  <2>2. ~IsRemote(h.entity)
    BY <2>1 DEF IsRemote, Remote!IsRemote
  <2>3. hideProjectFolder(h) = h
    BY <1>2 DEF hideProjectFolder
  <2>. QED  BY <2>2, <2>3 DEF hideCredentials
<1>. QED  BY <1>1, <1>2

(* The last option hides what has to be hidden.                              *)
LEMMA SanitizedFacts ==
  ASSUME NEW old, DOMAIN old = Field, Rooted(old.entity), old.located = old.entity,
         IsSequence(old.folder), IsSequence(old.folderOverride),
         NEW h, h = hideCredentials(hideProjectFolder(hideNames(old)))
  PROVE  /\ DOMAIN h = Field
         /\ \A f \in Field \ {"entity", "cursor", "dependencies", "lines", "branch"} : h[f] = old[f]
         /\ Hidden(h, "direct") /\ CredentialsHidden(h, "direct")
<1>. DEFINE k == hideNames(old)
<1>1. /\ DOMAIN k = Field
      /\ \A f \in Field \ {"entity", "cursor", "dependencies", "lines", "branch"} : k[f] = old[f]
      /\ IF Matches(old.entity, config.hideFiles)
         THEN /\ k.entity = HiddenName(old) /\ k.lines = -1 /\ k.dependencies = None /\ ~k.cursor
              /\ config.hideBranches = {} => k.branch = ""
         ELSE k.entity = old.entity
  BY HideNamesFacts
<1>2. k.type = old.type /\ k.folder = old.folder /\ k.folderOverride = old.folderOverride /\ k.located = old.located
  BY <1>1 DEF Field
<1>3. CASE Matches(old.entity, config.hideFiles)
  <2>. HIDE DEF k
  <2>1. h = k /\ ~IsRemote(k.entity)
    BY <1>1, <1>2, <1>3, HiddenStays DEF k
  <2>2. Hides(k)
    <3>. DEFINE l == [k EXCEPT !.entity = k.located]
    <3>1. l.type = old.type /\ l.entity = old.entity
      BY <1>1, <1>2 DEF Field
    <3>2. HiddenName(l) = HiddenName(old)
      BY <3>1, HiddenNameOf
    <3>. QED  BY <1>1, <1>3, <3>2 DEF Hides
  <2>3. FolderHidden(k)
    <3>1. k.type = "file" => \A folder \in {k.folder, k.folderOverride} : ~Inside(k.entity, folder)
      BY <1>1, <1>2, <1>3, HiddenNameFacts
    <3>. QED  BY <3>1 DEF FolderHidden
  <2>. QED  BY <1>1, <2>1, <2>2, <2>3 DEF Hidden, FileNamesHidden, CredentialsHidden
<1>4. CASE ~Matches(old.entity, config.hideFiles)
  <2>. HIDE DEF k
  <2>1. k.entity = old.entity
    BY <1>1, <1>4
  <2>. DEFINE l == hideProjectFolder(k)
  <2>2. /\ DOMAIN l = Field /\ (\A f \in Field \ {"entity"} : l[f] = k[f]) /\ IsPath(l.entity)
        /\ l.entity = k.entity \/ l.entity[1] # "ssh://"
        /\ config.hideFolder /\ k.type = "file" =>
             \A folder \in {k.folder, k.folderOverride} : Inside(k.entity, folder) => l.entity[1] \notin Root
    <3>1. /\ DOMAIN k = Field /\ Rooted(k.entity) /\ IsSequence(k.folder) /\ IsSequence(k.folderOverride)
      BY <1>1, <1>2, <2>1
    <3>2. DOMAIN l = Field /\ \A f \in Field \ {"entity"} : l[f] = k[f]
      BY <3>1, FolderFacts
    <3>3. IsPath(l.entity)
      BY <3>1, FolderFacts
    <3>4. l.entity = k.entity \/ l.entity[1] # "ssh://"
      BY <3>1, FolderFacts
    <3>5. config.hideFolder /\ k.type = "file" =>
            \A folder \in {k.folder, k.folderOverride} : Inside(k.entity, folder) => l.entity[1] \notin Root
      BY <3>1, FolderFacts
    <3>. HIDE DEF l
    <3>. QED  BY <3>2, <3>3, <3>4, <3>5
  <2>. HIDE DEF l
  <2>3. h = hideCredentials(l)
    BY DEF k, l
  <2>4. /\ DOMAIN h = Field /\ \A f \in Field \ {"entity"} : h[f] = l[f]
        /\ IsPath(h.entity) /\ h.entity[1] = l.entity[1]
        /\ IsRemote(l.entity) => h.entity[2] = Login[l.entity[2]].left
        /\ ~IsRemote(l.entity) => h.entity = l.entity
    <3>1. DOMAIN l = Field /\ IsPath(l.entity)
      BY <2>2
    <3>. QED  BY <2>3, <3>1, CredentialsFacts
  <2>5. h.type = old.type /\ h.folder = old.folder /\ h.folderOverride = old.folderOverride /\ h.located = old.located
    BY <1>2, <2>2, <2>4 DEF Field
  <2>6. ASSUME NEW folder \in {h.folder, h.folderOverride}, config.hideFolder, h.type = "file",
               Inside(h.located, folder), Head(folder) \in Root, Inside(h.entity, folder)
        PROVE  FALSE
    <3>1. h.entity[1] \notin Root
      BY <1>2, <2>1, <2>2, <2>4, <2>5, <2>6
    <3>2. IsSequence(h.entity) /\ IsSequence(folder)
      BY <2>4, <2>5, <2>6 DEF IsPath
    <3>3. Head(folder) = h.entity[1]
      BY <2>6, <3>2, InsideRoot
    <3>. QED  BY <2>6, <3>1, <3>3
  <2>7. FolderHidden(h)
    BY <2>6 DEF FolderHidden
  <2>8. \A f \in Field \ {"entity", "cursor", "dependencies", "lines", "branch"} : h[f] = old[f]
    BY <1>1, <2>2, <2>4
  <2>9. CredentialsHidden(h, "direct")
    <3>. SUFFICES ASSUME IsRemote(h.entity), Login[h.located[2]].left = "" PROVE h.entity[2] = ""
      BY DEF CredentialsHidden
    <3>1. l.entity[1] = "ssh://" /\ IsRemote(l.entity)
      BY <2>2, <2>4, RemoteFirst
    <3>2. l.entity = h.located
      BY <1>2, <2>1, <2>2, <2>5, <3>1
    <3>. QED  BY <2>4, <3>1, <3>2
  <2>. QED  BY <1>4, <2>5, <2>7, <2>8, <2>4, <2>9 DEF Hidden, FileNamesHidden
<1>. QED  BY <1>3, <1>4

(* Nothing is sent or stored before it is sanitised.                         *)
LEMMA SanitizeInv == IInv /\ Sanitize => IInv'
<1>. SUFFICES ASSUME IInv, Sanitize PROVE IInv'
  OBVIOUS
<1>. DEFINE old == hh[n]  h == hideCredentials(hideProjectFolder(hideNames(old)))
<1>1. At("sanitization") /\ Put(h) /\ "sanitization" \notin Filtering
  BY DEF Sanitize, Filtering
<1>2. Fine(old, option) /\ Through("modifier", option) /\ ~Through("sanitization", option)
  BY <1>1, AtFacts, AtThrough
<1>3. Typed(old) /\ DOMAIN old = Field /\ Rooted(old.entity) /\ old.located = old.entity
  BY <1>2 DEF Fine, Typed, Placed
<1>4. /\ DOMAIN h = Field
      /\ \A f \in Field \ {"entity", "cursor", "dependencies", "lines", "branch"} : h[f] = old[f]
      /\ Hidden(h, "direct") /\ CredentialsHidden(h, "direct")
  <2>. HIDE DEF old
  <2>. QED  BY <1>3, SanitizedFacts DEF Typed
<1>5. /\ h.located = old.located /\ h.raw = old.raw /\ h.server = old.server
      /\ h.folder = old.folder /\ h.folderOverride = old.folderOverride
      /\ h.id = old.id /\ h.type = old.type /\ h.unsaved = old.unsaved /\ h.override = old.override
      /\ h.alternate = old.alternate
      /\ h.localFile = old.localFile /\ h.apiKey = old.apiKey /\ h.project = old.project
  BY <1>4 DEF Field
<1>6. \A o : o # "sanitization" => (Through(o, option + 1) <=> Through(o, option))
  BY <1>1, AtThrough
<1>7. Through("sanitization", option + 1) /\ Through("formatting", option)
  BY <1>1, AtThrough
<1>. HIDE DEF h
<1>8. Fine(h, option + 1)
  BY <1>2, <1>3, <1>4, <1>5, <1>6, <1>7 DEF Fine, Typed, Placed, Fetched, Verified
<1>9. \A g : ComesFrom(old, g, option) => ComesFrom(h, g, option + 1)
  <2>. HIDE DEF old
  <2>. QED  BY <1>2, <1>5, <1>6, <1>7 DEF ComesFrom
<1>. QED  BY <1>1, <1>8, <1>9, PutKeeps
-----------------------------------------------------------------------------
(* The theorems.                                                             *)

(* A step that changes nothing.                                              *)
LEMMA StutterInv == IInv /\ UNCHANGED vars => IInv'
<1>. SUFFICES ASSUME IInv, UNCHANGED vars PROVE IInv'
  OBVIOUS
<1>1. UNCHANGED <<disk, config, patterns, given, hh, option, n, filtered, pc, received, queue, removals>>
  BY DEF vars
<1>2. KeyPatterns' = KeyPatterns /\ \A i : Passed(i)' = Passed(i)
  BY <1>1, SameConfig DEF KeyPatterns, Passed
<1>3. Loop'
  BY <1>1, <1>2, SameConfig DEF IInv, Loop
<1>4. AllFine' /\ AllKept' /\ GroupedByOwnKey'
  BY <1>1, <1>2, SameConfig DEF IInv, AllFine, AllKept, GroupedByOwnKey, Verified
<1>5. NoneLost'
  <2>1. \A g : OnItsWay(g)' <=> OnItsWay(g)
    BY <1>1, <1>2, SameConfig DEF OnItsWay
  <2>. QED  BY <1>1, <2>1, DroppedStays DEF IInv, NoneLost, Arrived
<1>6. AllGiven'
  BY <1>1, <1>2, SameConfig DEF IInv, AllGiven
<1>7. Ends'
  BY <1>1 DEF IInv, Ends, BundleGone, Formatted, IdentityFatal
<1>. QED  BY <1>3, <1>4, <1>5, <1>6, <1>7 DEF IInv

(* Every step of the chain, the sender, the queue and the environment keeps  *)
(* the heartbeats as they have to be.                                        *)
LEMMA InvNext == IInv /\ [Next]_vars => IInv'
BY FormattingInv, ModifyInv, DownloadInv, FilterInv, EndInv, ReplaceApiKeyInv, ReadInv, DetectProjectInv,
   FilterUnknownInv, SanitizeInv, PassOnInv, SendInv, PushInv, SyncInv, VanishInv, StutterInv DEF Next

(* At every option, each heartbeat is what the options so far have to make   *)
(* of one the command was given.                                             *)
THEOREM PipelineInvariant == Spec => []IInv
BY InvInit, InvNext, PTL DEF Spec

(* An excluded entity leaves the command on no way, whatever is filtered     *)
(* with it, and whether it is sent or queued (filter.go).                    *)
THEOREM NothingExcludedLeaves == Spec => []ExcludedNeverLeave
<1>1. IInv => ExcludedNeverLeave
  BY DEF IInv, AllKept, Kept, ExcludedNeverLeave, Arrived
<1>. QED  BY <1>1, PipelineInvariant, PTL

(* What is neither excluded nor without its own file, project file or        *)
(* project is sent or queued, whatever else the command was given, unless    *)
(* the command breaks off: on a playground that is gone (heartbeat.go:187),  *)
(* or on an identity file that cannot be parsed (remote.go:331).             *)
THEOREM EveryHeartbeatAccounted == Spec => []Accounted
<1>1. IInv => Accounted
  BY DEF IInv, NoneLost, Ends, Accounted
<1>. QED  BY <1>1, PipelineInvariant, PTL

(* What is to be hidden reaches the API neither directly nor after any time  *)
(* in the queue (sanitize.go).                                               *)
THEOREM NothingIsRevealed == Spec => []NothingRevealed
<1>1. IInv => NothingRevealed
  BY DEF IInv, AllKept, Kept, Hidden, NothingRevealed
<1>. QED  BY <1>1, PipelineInvariant, PTL

(* The sender groups a heartbeat under a key the user has given for it,      *)
(* whatever the order of the patterns is when it is sent or synchronised     *)
(* (apikey.go).                                                              *)
THEOREM KeysToGroupBy == Spec => []GroupedByOwnKey
<1>1. IInv => GroupedByOwnKey
  BY DEF IInv
<1>. QED  BY <1>1, PipelineInvariant, PTL

(* A file is only fetched from a host with a key the user knows for it, or   *)
(* that may be unknown (remote.go).                                          *)
THEOREM HostsAreVerified == Spec => []HostVerified
<1>1. IInv => HostVerified
  BY DEF IInv, AllFine, Verified, HostVerified, Range
<1>. QED  BY <1>1, PipelineInvariant, PTL
-----------------------------------------------------------------------------
(* Languages.                                                                *)

(* An extension in lower or upper case.                                      *)
LEMMA CaseFacts ==
  ASSUME NEW e \in {".c", ".m", ".mm", ".h"}, NEW ext
  PROVE  /\ ToLower(ext) = e <=> ext \in {e, Upper[e]}
         /\ Upper[e] \in {".C", ".M", ".MM", ".H"}
<1>1. Upper[".c"] = ".C" /\ Upper[".m"] = ".M" /\ Upper[".mm"] = ".MM" /\ Upper[".h"] = ".H"
  BY DEF Upper
<1>2. DOMAIN Upper = {".c", ".m", ".mm", ".h"}
  BY DEF Upper
<1>3. \A d, f \in DOMAIN Upper : Upper[d] # f /\ (Upper[d] = Upper[f] => d = f)
  BY <1>1, <1>2
<1>4. CASE \E d \in DOMAIN Upper : Upper[d] = ext
  <2>1. ToLower(ext) \in DOMAIN Upper /\ Upper[ToLower(ext)] = ext
    BY <1>4 DEF ToLower
  <2>2. e \in DOMAIN Upper
    BY <1>2
  <2>3. ext # e
    BY <1>3, <1>4, <2>2
  <2>. QED  BY <1>1, <1>3, <2>1, <2>2, <2>3
<1>5. CASE ~\E d \in DOMAIN Upper : Upper[d] = ext
  <2>1. ToLower(ext) = ext
    BY <1>5 DEF ToLower
  <2>2. ext # Upper[e]
    BY <1>2, <1>5
  <2>. QED  BY <1>1, <2>1, <2>2
<1>. QED  BY <1>4, <1>5

(* A path is its stem with its extension.                                    *)
LEMMA StemFacts ==
  ASSUME NEW path, IsPath(path)
  PROVE  IsSequence(Stem(path)) /\ path = Append(Stem(path), Last(path))
<1>1. path \in Seq(Range(path)) /\ Len(path) \in Nat /\ Len(path) >= 2
  BY LenProperties DEF IsPath, IsSequence
<1>2. Stem(path) = SubSeq(path, 1, Len(path) - 1) /\ Last(path) = path[Len(path)]
  BY DEF Stem, Front, Last
<1>3. /\ Stem(path) \in Seq(Range(path)) /\ Len(Stem(path)) = Len(path) - 1
      /\ \A i \in 1 .. Len(path) - 1 : Stem(path)[i] = path[i]
  BY <1>1, <1>2
<1>4. path[Len(path)] \in Range(path)
  BY <1>1, ElementOfSeq
<1>5. path = Append(Stem(path), path[Len(path)])
  BY <1>1, <1>3, <1>4
<1>. QED  BY <1>2, <1>3, <1>5, OwnType

(* A stem with an extension is a path of that stem.                          *)
LEMMA AppendStem ==
  ASSUME NEW s, IsSequence(s), NEW e
  PROVE  Stem(Append(s, e)) = s /\ Last(Append(s, e)) = e
<1>. DEFINE R == Range(s) \cup {e}  t == Append(s, e)
<1>1. s \in Seq(R) /\ e \in R
  BY SeqMonotonic DEF IsSequence
<1>2. t \in Seq(R) /\ Len(t) = Len(s) + 1 /\ Len(s) \in Nat /\ t[Len(t)] = e
  BY <1>1
<1>3. SubSeq(t, 1, Len(s)) = s
  BY <1>1, <1>2
<1>. QED  BY <1>2, <1>3 DEF Stem, Front, Last

(* The file that corresponds to another is one of its stem, with that        *)
(* extension in lower or upper case.                                         *)
LEMMA CorrespondingFacts ==
  ASSUME \A q \in DOMAIN disk : IsPath(q), NEW path, IsPath(path), NEW e \in {".c", ".m", ".mm", ".h"}
  PROVE  correspondingFileExists(path, e) <=> \E q \in DOMAIN disk : Stem(q) = Stem(path) /\ Ext(q) = e
<1>1. ASSUME NEW x \in {e, Upper[e]}, Append(Stem(path), x) \in DOMAIN disk
      PROVE  \E q \in DOMAIN disk : Stem(q) = Stem(path) /\ Ext(q) = e
  <2>1. Stem(Append(Stem(path), x)) = Stem(path) /\ Last(Append(Stem(path), x)) = x
    BY StemFacts, AppendStem
  <2>2. Ext(Append(Stem(path), x)) = e
    BY <2>1, CaseFacts DEF Ext
  <2>. QED  BY <1>1, <2>1, <2>2
<1>2. ASSUME NEW q \in DOMAIN disk, Stem(q) = Stem(path), Ext(q) = e
      PROVE  \E x \in {e, Upper[e]} : Append(Stem(path), x) \in DOMAIN disk
  <2>1. q = Append(Stem(path), Last(q))
    BY <1>2, StemFacts
  <2>2. Last(q) \in {e, Upper[e]}
    BY <1>2, CaseFacts DEF Ext
  <2>. QED  BY <2>1, <2>2
<1>. QED  BY <1>1, <1>2 DEF correspondingFileExists

(* The files of the C family are none of the files with a name of their own. *)
LEMMA NoSpecialName ==
  ASSUME NEW path, IsPath(path), Ext(path) \in {".c", ".m", ".mm", ".h"}
  PROVE  /\ SubSeq(path, Len(path) - 1, Len(path)) # <<"go", ".mod">>
         /\ SubSeq(path, Len(path) - 1, Len(path)) # <<"CMmakeLists", ".txt">>
<1>1. path \in Seq(Range(path)) /\ Len(path) \in Nat /\ Len(path) >= 2
  BY LenProperties DEF IsPath, IsSequence
<1>2. SubSeq(path, Len(path) - 1, Len(path))[2] = path[Len(path)]
  BY <1>1
<1>3. Last(path) \in {".c", ".m", ".mm", ".h"} \cup {".C", ".M", ".MM", ".H"}
  BY CaseFacts DEF Ext
<1>4. Last(path) = path[Len(path)]
  BY DEF Last
<1>5. path[Len(path)] # ".mod" /\ path[Len(path)] # ".txt"
  BY <1>3, <1>4
<1>6. \A s : s[2] = path[Len(path)] => s # <<"go", ".mod">> /\ s # <<"CMmakeLists", ".txt">>
  BY <1>5
<1>. QED  BY <1>2, <1>6

(* A header goes by the first source of its name, a source by itself, or by  *)
(* its header.                                                               *)
LEMMA SpecialFacts ==
  ASSUME \A q \in DOMAIN disk : IsPath(q), NEW path \in DOMAIN disk
  PROVE  LET Has(e) == \E q \in DOMAIN disk : Stem(q) = Stem(path) /\ Ext(q) = e
         IN  /\ Ext(path) \in {".h", ".c"} /\ Has(".c") => detectSpecialCases(path) = "C"
             /\ Ext(path) = ".h" /\ ~Has(".c") /\ Has(".m") => detectSpecialCases(path) = "Objective-C"
             /\ Ext(path) = ".h" /\ ~Has(".c") /\ ~Has(".m") /\ Has(".mm") =>
                  detectSpecialCases(path) = "Objective-C++"
             /\ Ext(path) = ".m" /\ Has(".h") => detectSpecialCases(path) = "Objective-C"
             /\ Ext(path) = ".mm" /\ Has(".h") => detectSpecialCases(path) = "Objective-C++"
<1>. DEFINE Has(e) == \E q \in DOMAIN disk : Stem(q) = Stem(path) /\ Ext(q) = e
<1>1. \A e \in {".c", ".m", ".mm", ".h"} : correspondingFileExists(path, e) <=> Has(e)
  BY CorrespondingFacts
<1>. HIDE DEF Has
<1>. SUFFICES ASSUME Ext(path) \in {".c", ".m", ".mm", ".h"}
              PROVE  /\ Ext(path) \in {".h", ".c"} /\ Has(".c") => detectSpecialCases(path) = "C"
                     /\ Ext(path) = ".h" /\ ~Has(".c") /\ Has(".m") => detectSpecialCases(path) = "Objective-C"
                     /\ Ext(path) = ".h" /\ ~Has(".c") /\ ~Has(".m") /\ Has(".mm") =>
                          detectSpecialCases(path) = "Objective-C++"
                     /\ Ext(path) = ".m" /\ Has(".h") => detectSpecialCases(path) = "Objective-C"
                     /\ Ext(path) = ".mm" /\ Has(".h") => detectSpecialCases(path) = "Objective-C++"
  BY DEF Has
<1>2. /\ SubSeq(path, Len(path) - 1, Len(path)) # <<"go", ".mod">>
      /\ SubSeq(path, Len(path) - 1, Len(path)) # <<"CMmakeLists", ".txt">>
  BY NoSpecialName
<1>3. {".h", ".c"} \subseteq LikeC /\ ".m" \notin LikeC /\ ".mm" \notin LikeC
  BY DEF LikeC
<1>4. /\ correspondingFileExists(path, ".c") <=> Has(".c")
      /\ correspondingFileExists(path, ".m") <=> Has(".m")
      /\ correspondingFileExists(path, ".mm") <=> Has(".mm")
      /\ correspondingFileExists(path, ".h") <=> Has(".h")
  BY <1>1
<1>. QED  BY <1>2, <1>3, <1>4 DEF detectSpecialCases

(* A header has the language of its only source, whatever files come and go, *)
(* and whatever the lexers are (language.go).                                *)
THEOREM HeadersGoWithSources == Spec => []PairsAgree
<1>1. IInv => PairsAgree
  <2>. SUFFICES ASSUME IInv, NEW header \in DOMAIN disk, Ext(header) = ".h", NEW source,
                       {path \in DOMAIN disk : Stem(path) = Stem(header) /\ Ext(path) \in {".c", ".m", ".mm"}} = {source}
                PROVE  Detect(header) = Detect(source)
    BY DEF PairsAgree
  <2>1. \A q \in DOMAIN disk : IsPath(q)
    BY DiskAssumption DEF IInv, Loop
  <2>2. /\ source \in DOMAIN disk /\ Stem(source) = Stem(header) /\ Ext(source) \in {".c", ".m", ".mm"}
        /\ \A q \in DOMAIN disk : Stem(q) = Stem(header) /\ Ext(q) \in {".c", ".m", ".mm"} => q = source
    BY DEF PairsAgree
  <2>3. detectSpecialCases(header) = detectSpecialCases(source) /\ detectSpecialCases(header) # Unknown
    <3>1. CASE Ext(source) = ".c"
      BY <2>1, <2>2, <3>1, SpecialFacts DEF Unknown
    <3>2. CASE Ext(source) = ".m"
      BY <2>1, <2>2, <3>2, SpecialFacts DEF Unknown
    <3>3. CASE Ext(source) = ".mm"
      BY <2>1, <2>2, <3>3, SpecialFacts DEF Unknown
    <3>. QED  BY <2>2, <3>1, <3>2, <3>3
  <2>. QED  BY <2>3 DEF Detect
<1>. QED  BY <1>1, PipelineInvariant, PTL
=============================================================================
