--------------------------- MODULE MCDependencies ---------------------------
(* An instance of Dependencies: files of up to MaxStatements of the          *)
(* statements of MCStatements.                                               *)
EXTENDS Dependencies, MCStatements

CONSTANT MaxStatements

-----------------------------------------------------------------------------
(* Files and heartbeats *)

File(statements) ==
  [path |-> "file", readable |-> TRUE, name |-> "component.json", words |-> {"bower", "grunt"},
   statements |-> statements]

Unreadable == [File(<<>>) EXCEPT !.readable = FALSE, !.name = "other", !.words = {"grunt"}]
NoFile == [Unreadable EXCEPT !.path = ""]

Heartbeat(language, file) ==
  [type |-> "file", unsaved |-> FALSE, hidden |-> FALSE, language |-> language,
   entity |-> file, localFile |-> NoFile, dependencies |-> <<>>]

Singles == {<<Heartbeat(language, File(<<>>))>> : language \in Parsed}
           \cup UNION {{<<Heartbeat(language, File(statements))>> :
                          statements \in UNION {[1 .. m -> Statement[language]] : m \in 1 .. MaxStatements}} :
                       language \in Parsed}

(* One heartbeat that may be passed over, fail or name another file, before  *)
(* one that is served                                                        *)
GoFile == File(<<CHOOSE s \in GoStatements : s.deps = <<a>> >>)
PythonFile == File(<<CHOOSE s \in PythonStatements : s.deps = <<b>> >>)

First == {Heartbeat("Python", PythonFile), Heartbeat("Python", Unreadable),
          [Heartbeat("Python", PythonFile) EXCEPT !.type = "app"],
          [Heartbeat("Python", PythonFile) EXCEPT !.unsaved = TRUE],
          [Heartbeat("Python", PythonFile) EXCEPT !.hidden = TRUE],
          [Heartbeat("Python", Unreadable) EXCEPT !.localFile = PythonFile],
          Heartbeat("none", PythonFile), Heartbeat("Ruby", PythonFile),
          Heartbeat("Ruby", Unreadable), Heartbeat("JSON", Unreadable)}

MCBatch == Singles \cup {<<h, Heartbeat("Go", GoFile)>> : h \in First}
=============================================================================
