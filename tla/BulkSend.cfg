CONSTANTS
  h1 = h1  h2 = h2  h3 = h3  default = default  project = project
  Heartbeat = {h1, h2, h3}
  Key = {default, project}
  DefaultKey = default
  ApiKey <- MCApiKey
  Request <- MCRequest
  Status = {"ok", "other"}
SPECIFICATION FairSpec
INVARIANTS ChannelsHold AnswerFaithful NoForeignKey
PROPERTIES ImplementsAbstractSender SomeSendsReturn
CHECK_DEADLOCK FALSE
