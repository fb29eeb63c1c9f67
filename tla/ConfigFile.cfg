CONSTANTS
  p1 = p1  p2 = p2  p3 = p3  v1 = v1  v2 = v2
  Writer = {p1, p2, p3}
  Nobody = Nobody
  Key = {"api_key", "debug", "proxy", "backoff_at"}
  Value = {v1}
  KeysOf <- MCKeysOf
  Impatient = {p3}
  MayFail = TRUE
SPECIFICATION FairIniSpec
INVARIANT OneSaves
PROPERTY WritesEnd
