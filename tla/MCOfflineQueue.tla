--------------------------- MODULE MCOfflineQueue ---------------------------
(* Small instances of OfflineQueue: h2 and h3 have the same key, bolt        *)
(* refuses to store h4, and h5 was stored by another release and cannot be   *)
(* read.                                                                     *)
EXTENDS OfflineQueue, TLC

CONSTANTS c1, c2, h1, h2, h3, h4, h5

MCKeyOf == (h1 :> 1) @@ (h2 :> 2) @@ (h3 :> 2) @@ (h4 :> 4) @@ (h5 :> 0)

MCBatch == {<<h1>>, <<h2, h3>>, <<h3, h1>>, <<h1, h4>>}
=============================================================================
