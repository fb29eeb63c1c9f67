----------------------------- MODULE MCBulkSend -----------------------------
(* Small instances of BulkSend: the project of h2 has its own api key.       *)
EXTENDS BulkSend, TLC

CONSTANTS h1, h2, h3, default, project

MCApiKey == (h1 :> default) @@ (h2 :> project) @@ (h3 :> default)
NonEmptyRequest == {<<h1>>, <<h1, h3>>, <<h1, h2, h3>>}
MCRequest == {<<>>} \cup NonEmptyRequest
=============================================================================
