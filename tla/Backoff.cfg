CONSTANTS
  p1 = p1  p2 = p2
  Proc = {p1, p2}
  Factor = 1
  ResetAfter = 3
  Unit = 1
  Width = 5
SPECIFICATION FairSpec
PROPERTIES RefusedAfterFailure BackoffKept SendsAgain Recovers
