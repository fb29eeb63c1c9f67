CONSTANTS
  Agent = FALSE
  MaxRemovals = 1
  Lexer <- MCLexer
  Modeline <- MCModeline
  Login <- MCLogin
  SshConfig <- MCSshConfig
  KnownHosts <- MCKnownHosts
  Identity <- MCIdentity
  Server <- MCServer
  Disk <- MCDisk
  Input <- MCInput
  Config <- MCConfig
  Resolved <- MCResolved
  Root <- MCRoot
  Repository <- MCRepository
  ApiKeyPattern <- MCApiKeyPattern
SPECIFICATION Spec
INVARIANTS ExcludedNeverLeave Accounted NothingRevealed GroupedByOwnKey HostVerified PairsAgree
CHECK_DEADLOCK FALSE
