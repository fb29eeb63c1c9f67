CONSTANTS
  p1 = p1  p2 = p2
  MaxHeartbeat = 2
  Heartbeat <- MCHeartbeat
  KeyOf <- OwnKeys
  Unreadable = {}
  Unstorable = {}
  Proc = {p1, p2}
  Disabled = {}
  MaxReport = 2
  SendLimit = 1
  SyncLimit = 2
  MaxRequeueAttempts = 1
  Status = {"ok", "bad", "other"}
  Faults = {"config", "client"}
SPECIFICATION PatientSpec
INVARIANT OnePlaceEach
PROPERTIES OnlyUnsavedLost SyncDrains
