CONSTANTS
  p1 = p1  p2 = p2  p3 = p3  v1 = v1  v2 = v2
  Writer = {p1, p2}
  Nobody = Nobody
  Key = {"api_key", "debug", "backoff_at"}
  Value = {v1, v2}
  KeysOf <- MCKeysOf
  Impatient = {}
  MayFail = FALSE
SPECIFICATION IniSpec
INVARIANT WritePersists
