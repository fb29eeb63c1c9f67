---------------------------- MODULE MCConfigFile ----------------------------
(* Small instances of ConfigFile: p1 and p3 write settings, p2 the backoff;  *)
(* there is another setting, the api key, that nobody writes.                *)
EXTENDS ConfigFile

CONSTANTS p1, p2, p3, v1, v2

MCKeysOf == [p \in Writer |-> IF p = p1 THEN {"debug"} ELSE IF p = p2 THEN {"backoff_at"} ELSE {"proxy"}]
=============================================================================
