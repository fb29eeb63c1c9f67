CONSTANTS
  ValidKey = {"waka"}
  BadRegex = {"("}
  KeyPattern <- MCKeyPattern
  BadProxy = {"?"}
  Category = {"coding"}
  EntityType = {"file"}
  Number <- MCNumber
  SyncMaxDefault = 3
  Call <- MCCall
  Old <- MCOld
  Answer <- MCAnswer
  SendLimit = 2
  ValidGoal = {"uuid"}
  Ntlm = {"ntlm"}
  UrlError = {"ntlm:pw"}
  BadCert = {"gone"}
SPECIFICATION Spec
INVARIANTS TypeOK LossExplained ExitCodeTells KeyKept
PROPERTIES DisabledStaysOut BatchesBounded Exits
CHECK_DEADLOCK FALSE
