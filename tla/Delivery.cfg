CONSTANTS
  p1 = p1  p2 = p2
  MaxHeartbeat = 2
  Heartbeat <- MCHeartbeat
  KeyOf <- SharedKey
  Unreadable = {}
  Unstorable = {}
  Proc = {p1, p2}
  Disabled = {p2}
  MaxReport = 2
  SendLimit = 2
  SyncLimit = 2
  MaxRequeueAttempts = 1
  Status = {"ok", "bad", "other"}
  Faults = {"config", "params", "client", "error", "length", "push", "pop", "crash"}
SPECIFICATION Spec
INVARIANTS OnePlaceEach SettledTruly DuplicatesUnsure
