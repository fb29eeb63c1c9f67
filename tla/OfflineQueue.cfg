CONSTANTS
  c1 = c1  c2 = c2  h1 = h1  h2 = h2  h3 = h3  h4 = h4  h5 = h5
  NoClient = NoClient
  Client = {c1, c2}
  Heartbeat = {h1, h2, h3, h4, h5}
  KeyOf <- MCKeyOf
  Batch <- MCBatch
  Limit = {1, 2}
  Unreadable = {h5}
  Unstorable = {h4}
SPECIFICATION FairSpec
INVARIANTS SessionDiscipline CommitsFresh
PROPERTIES ImplementsAbstractQueue CallsReturn
