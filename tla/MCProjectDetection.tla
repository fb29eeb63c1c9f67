------------------------- MODULE MCProjectDetection -------------------------
(* An instance of ProjectDetection: one tree with a project of every kind of *)
(* revision control, and the project files that may be in it at the start.   *)
EXTENDS ProjectDetection

Line_(kind, value, absolute) == [kind |-> kind, value |-> value, absolute |-> absolute]
T(name) == Text(<<name>>)

File(lines) == [readable |-> TRUE, lines |-> lines]
Folder == File(<<>>)
Locked == [readable |-> FALSE, lines |-> <<>>]
Head_(name) == File(<<Line_("ref", <<"refs", "heads", name>>, FALSE)>>)

home == <<"home">>
main == <<"home", "main">>            \* a git repository with a submodule ...
lib == <<"home", "main", "lib">>
lib2 == <<"home", "main", "lib2">>    \* ... another, for which submodules are disabled ...
tree == <<"home", "tree">>            \* ... and a worktree elsewhere
plain == <<"home", "plain">>          \* a plain .git file
hg == <<"work", "hg">>
hg2 == <<"work", "hg2">>
svn == <<"work", "svn">>
worn == <<"work", "worn">>          \* a git repository whose HEAD is a reference of one part
tf == <<"work", "tf">>
bare == <<"home", "bare">>            \* no revision control
shut == <<"home", "shut">>            \* a .git file that cannot be read

Directories == {home, main, main \o <<"src">>, lib, lib2, tree, plain, <<"work">>, hg, hg2, svn, tf, worn, bare, shut,
                main \o <<".git">>, main \o <<".git", "modules">>, <<"git">>}

Base0 ==
  [d \in Directories |-> Folder]
  @@ [d \in {x \o <<"f">> : x \in {main, main \o <<"src">>, lib, lib2, tree, plain, hg, hg2, svn, tf, worn, bare, shut}} |-> Folder]
  @@ (main \o <<".git", "config">> :> Folder)
  @@ (main \o <<".git", "HEAD">> :> Head_("trunk"))
  @@ (main \o <<".git", "modules", "lib", "HEAD">> :> File(<<T("0a1b")>>))
  @@ (main \o <<".git", "worktrees", "tree", "HEAD">> :> Head_("topic"))
  @@ (main \o <<".git", "worktrees", "tree", "commondir">> :> File(<<Line_("text", <<"..", "..">>, FALSE)>>))
  @@ (lib \o <<".git">> :> File(<<Line_("gitdir", <<"..", ".git", "modules", "lib">>, FALSE)>>))
  @@ (lib2 \o <<".git">> :> File(<<Line_("gitdir", <<"..", ".git", "modules", "lib">>, FALSE)>>))
  @@ (tree \o <<".git">> :> File(<<Line_("gitdir", main \o <<".git", "worktrees", "tree">>, TRUE)>>))
  @@ (plain \o <<".git">> :> File(<<Line_("gitdir", <<"git", "plain">>, TRUE)>>))
  @@ (<<"git", "plain", "HEAD">> :> Head_("trunk"))
  @@ (worn \o <<".git", "config">> :> Folder)
  @@ (worn \o <<".git", "HEAD">> :> File(<<Line_("ref", <<"trunk">>, FALSE)>>))
  @@ (shut \o <<".git">> :> Locked)
  @@ (hg \o <<".hg">> :> Folder)
  @@ (hg \o <<".hg", "branch">> :> File(<<T("topic")>>))
  @@ (hg2 \o <<".hg">> :> Folder)
  @@ (svn \o <<".svn", "wc.db">> :> Folder)
  @@ (tf \o <<".tf", "properties.tf1">> :> Folder)

PF(d, lines) == (d \o <<WakaTimeProjectFile>> :> File(lines))

MCTree == {Base0,
           PF(main, <<>>) @@ Base0,
           PF(main, <<T("chosen")>>) @@ Base0,
           PF(main, <<T("chosen"), T("fork")>>) @@ Base0,
           PF(main \o <<"src">>, <<>>) @@ PF(main, <<T("chosen")>>) @@ Base0,
           (main \o <<WakaTimeProjectFile>> :> Locked) @@ Base0,
           (main \o <<"src", WakaTimeProjectFile>> :> Locked) @@ PF(main, <<T("chosen")>>) @@ Base0}

H(directory) ==
  [type |-> "file", unsaved |-> FALSE, entity |-> directory \o <<"f">>, override |-> "", alternate |-> "",
   project |-> "", branch |-> "", projectPath |-> None]

Entities == {main, main \o <<"src">>, lib, lib2, tree, plain, hg, hg2, svn, tf, worn, bare, shut}

Odd == {[H(main) EXCEPT !.override = "ordered"],
        [H(bare) EXCEPT !.alternate = "bare"],
        [H(tree) EXCEPT !.alternate = "tree"],
        [H(bare) EXCEPT !.entity = bare \o <<"mapped">>],
        [H(main) EXCEPT !.entity = main \o <<"blank">>],
        [H(hg) EXCEPT !.entity = hg \o <<"gone">>],
        [H(main) EXCEPT !.type = "app", !.override = "ordered", !.alternate = "main"],
        [H(main) EXCEPT !.unsaved = TRUE, !.alternate = "main"]}

MCWork == {[hh |-> <<H(d)>>, hide |-> TRUE] : d \in Entities}
          \cup {[hh |-> <<h>>, hide |-> hide] : h \in Odd, hide \in BOOLEAN}
          \cup {[hh |-> <<H(main)>>, hide |-> FALSE],
                [hh |-> <<H(tree), H(main)>>, hide |-> TRUE],
                [hh |-> <<H(hg), H(hg2)>>, hide |-> TRUE]}

Mapped(path, name, formats) == [paths |-> {path}, name |-> name, formats |-> formats]
MCMapPattern == <<Mapped(bare \o <<"mapped">>, "{nothing}", FALSE), Mapped(bare \o <<"mapped">>, "mapped to", TRUE),
                  Mapped(main \o <<"blank">>, "", TRUE)>>
MCLeft == {[over |-> "Young Wood 99", name |-> "Aged Art 1", lines |-> <<T("99")>>]}
MCSubmodulePattern == {{lib2}}
MCSvn == [status |-> "ok", root |-> <<"https:", "host", "repo">>, url |-> <<"https:", "host", "repo", "trunk">>]
=============================================================================
