CONSTANTS
  Command = {c1, c2}
  GeneratedName = {"Aged Art 1", "Young Wood 99"}
  SubmodulePattern <- MCSubmodulePattern
  maxRecursiveIteration = 500
  Tree <- MCTree
  Work <- MCWork
  MapPattern <- MCMapPattern
  Left <- MCLeft
  Svn <- MCSvn
SPECIFICATION Spec
INVARIANTS NamesHidden LastingName
PROPERTIES NameKept
CHECK_DEADLOCK FALSE
