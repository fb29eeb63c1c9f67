CONSTANTS
  h1 = h1  h2 = h2  h3 = h3  default = default  project = project
  Heartbeat = {h1, h2, h3}
  Key = {default, project}
  DefaultKey = default
  ApiKey <- MCApiKey
  Request <- NonEmptyRequest
  Status = {"ok", "other"}
SPECIFICATION FairSpec
PROPERTY SendsReturn
CHECK_DEADLOCK FALSE
