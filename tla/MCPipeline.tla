----------------------------- MODULE MCPipeline -----------------------------
(* An instance of Pipeline: a C project with an excluded file, a playground, *)
(* a link into the project, a remote file, and the ways a heartbeat differs. *)
EXTENDS Pipeline

p == <<"home", "p">>
mainC == p \o <<"main", ".c">>
mainH == p \o <<"main", ".h">>
other == p \o <<"other", ".cpp">>
unitH == p \o <<"unit", ".h">>
unitM == p \o <<"unit", ".M">>
secret == p \o <<"secret", ".pl">>
link == <<"home", "link", ".c">>
lone == <<"lone", ".m">>
loose == <<"home", "x", "lone", ".m">>
toy == <<"home", "toy", ".playground">>
toyFile == toy \o <<"Contents", ".swift">>
lax == <<"ssh://", "", "lax", "srv", "far", ".m">>
wary == <<"ssh://", "", "wary", "srv", "far", ".m">>
broken == <<"ssh://", "", "broken", "srv", "far", ".m">>
remote == <<"ssh://", "me:pw@", "host", "srv", "far", ".m">>
colon == <<"ssh://", "me:p:w@", "host", "srv", "far", ".m">>

File(lines) == [readable |-> TRUE, directory |-> FALSE, lines |-> lines, large |-> FALSE, weight |-> [Perl |-> 10]]
Folder_ == [File(0) EXCEPT !.directory = TRUE]

Disk0 ==
  (mainC :> File(10)) @@ (mainH :> File(20)) @@ (other :> [File(30) EXCEPT !.large = TRUE])
  @@ (unitH :> File(40)) @@ (unitM :> File(50)) @@ (secret :> File(60))
  @@ (loose :> File(70)) @@ (toy :> Folder_) @@ (toyFile :> File(80)) @@ (Copy(remote) :> File(90)) @@ (Copy(lax) :> File(91)) @@ (Copy(wary) :> File(92))
  @@ (Copy(colon) :> File(93))
  @@ (p \o <<".wakatime-project", "">> :> File(1))

MCDisk == {Disk0, [Disk0 EXCEPT ![secret].readable = FALSE]}

MCRoot == {"home"}
MCResolved == (link :> mainC)
Project == [project |-> "p", branch |-> "trunk", folder |-> p]
MCRepository == [path \in {mainC, mainH, other, unitH, unitM, secret} |-> Project]
MCApiKeyPattern ==
  {[paths |-> {mainC, mainH}, key |-> "first"], [paths |-> {mainC, secret}, key |-> "second"],
   [paths |-> {mainH, unitH}, key |-> DefaultApiKey]}

L(name, priority_, rank, extensions, aliases) ==
  [name |-> name, priority |-> priority_, rank |-> rank, extensions |-> extensions, aliases |-> aliases]

MCLexer == {L("C", 10, 1, {".c"}, {".h"}), L("C++", 10, 2, {".cpp"}, {}),
            L("Objective-C", 5, 4, {".m"}, {".h"}), L("Matlab", 0, 3, {".m"}, {}),
            L("Perl", 0, 5, {".pl"}, {}), L("Prolog", 0, 6, {".pl"}, {}), L("Swift", 0, 7, {".swift"}, {})}

MCModeline == (loose :> [name |-> "cpp", weight |-> 1]) @@ (secret :> [name |-> "ruby", weight |-> 50])

-----------------------------------------------------------------------------
(* The ssh configuration: host stands for real, which is known.  That real *)
(* needs no checking is never read.                                        *)

MCLogin ==
  ("me:pw@" :> [user |-> "me", pass |-> "pw", port |-> "", left |-> ""])
  @@ ("me:p:w@" :> [user |-> "me", pass |-> "p:w", port |-> "22", left |-> "me:p:w@"])
  @@ ("" :> [user |-> "", pass |-> "", port |-> "", left |-> ""])

MCSshConfig ==
  (<<"host", "HostName">> :> <<"real">>) @@ (<<"real", "StrictHostKeyChecking">> :> <<"no">>)
  @@ (<<"host", "UserKnownHostsFile">> :> <<"none", "hosts">>) @@ (<<"host", "IdentityFile">> :> <<"gone", "id">>)
  @@ (<<"broken", "IdentityFile">> :> <<"bad">>) @@ (<<"lax", "IdentityFile">> :> <<"id">>)
  @@ (<<"wary", "IdentityFile">> :> <<"id">>) @@ (<<"wary", "StrictHostKeyChecking">> :> <<"yes">>)
  @@ (<<"real", "Port">> :> <<"2022">>) @@ (<<"host", "User">> :> <<"me">>)

MCKnownHosts == ("hosts" :> <<[hosts |-> {"else"}, key |-> "k1"], [hosts |-> {"real", "twin"}, key |-> ""],
                              [hosts |-> {"real"}, key |-> "k2"]>>)
MCIdentity == ("id" :> "valid") @@ ("bad" :> "unparsable")
MCServer == {[up |-> TRUE, users |-> {"me", ""}, accepts |-> {"password"}, key |-> "k1"],
             [up |-> TRUE, users |-> {"me", ""}, accepts |-> {"password", "identity"}, key |-> "k2"],
             [up |-> TRUE, users |-> {"me", ""}, accepts |-> {"agent"}, key |-> "k2"],
             [up |-> FALSE, users |-> {"me"}, accepts |-> {"identity"}, key |-> "k2"]}

-----------------------------------------------------------------------------
(* Heartbeats and configurations *)

H(id, entity) ==
  [id |-> id, type |-> "file", unsaved |-> FALSE, entity |-> entity, located |-> None, raw |-> None,
   localFile |-> None, server |-> "", language |-> "", languageAlternate |-> "", lines |-> -1, cursor |-> TRUE,
   dependencies |-> None, override |-> "", alternate |-> "", project |-> "", branch |-> "", folder |-> None,
   folderOverride |-> None, apiKey |-> ""]

App == [H(1, <<"Chrome", "">>) EXCEPT !.type = "app", !.languageAlternate = "Text"]

MCInput ==
  {<<H(1, e)>> : e \in {mainC, other, unitM, loose, toy, remote, colon, lax, wary, broken}}
  \cup {<<h>> : h \in {App, [App EXCEPT !.override = "web"], [App EXCEPT !.alternate = "else"],
                       [H(1, loose) EXCEPT !.alternate = "else"],
                       [H(1, toy) EXCEPT !.unsaved = TRUE],
                       [H(1, mainC) EXCEPT !.unsaved = TRUE, !.entity = lone],
                       [H(1, mainC) EXCEPT !.language = "Go", !.lines = 5],
                       [H(1, loose) EXCEPT !.folderOverride = <<"home">>],
                       [H(1, mainC) EXCEPT !.folderOverride = <<"home">>, !.override = "named"],
                       [H(1, unitH) EXCEPT !.entity = <<"home", "gone", ".h">>, !.localFile = unitH]}}
  \cup {<<H(1, secret), H(2, link)>>, <<H(1, mainC), H(2, secret), H(3, unitH)>>, <<H(1, remote), H(2, mainH)>>,
        <<H(1, mainC), H(2, toy), H(3, broken)>>}

Plain ==
  [send |-> TRUE, obfuscates |-> FALSE, hideFiles |-> {}, hideProjects |-> {}, hideBranches |-> {}, hideFolder |-> FALSE,
   exclude |-> {}, include |-> {}, onlyWithProjectFile |-> FALSE, excludeUnknown |-> FALSE]

Everything == {mainC, mainH, secret, unitH, unitM, remote, toyFile, <<"Chrome", "">>}

MCConfig ==
  {Plain, [Plain EXCEPT !.send = FALSE, !.exclude = {{secret, unitH}}],
   [Plain EXCEPT !.hideFiles = {Everything}],
   [Plain EXCEPT !.hideFiles = {Everything}, !.hideBranches = {{"stable"}}, !.send = FALSE],
   [Plain EXCEPT !.hideProjects = {{"p", GeneratedName}}, !.obfuscates = TRUE],
   [Plain EXCEPT !.hideProjects = {{"p"}}],
   [Plain EXCEPT !.hideBranches = {{"trunk"}}, !.excludeUnknown = TRUE],
   [Plain EXCEPT !.hideFolder = TRUE, !.onlyWithProjectFile = TRUE],
   [Plain EXCEPT !.hideFolder = TRUE, !.exclude = {Everything}, !.include = {{mainC}, {remote}}]}
-----------------------------------------------------------------------------
(* The dependencies of these heartbeats come from the parsers of module      *)
(* TokenParsers.  What the theorems about Dependencies suppose of a single   *)
(* statement holds of the statements that Dependencies is checked with.      *)
Sample == INSTANCE MCStatements

ASSUME StatementAssumption == Sample!OneByOne

=============================================================================
