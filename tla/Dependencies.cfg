CONSTANTS
  MaxStatements = 3
  maxDependencyLength = 5
  maxDependenciesCount = 3
  Opening <- MCOpening
  Batch <- MCBatch
SPECIFICATION Spec
INVARIANTS DepsAreTheImports InterruptionEnds ImportAfterInterruption
CHECK_DEADLOCK FALSE
