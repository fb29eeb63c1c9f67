----------------------------- MODULE MCDelivery -----------------------------
(* Small instances of Delivery.  Heartbeats are numbered in the order of     *)
(* their keys; in some instances the last two have the same key.             *)
EXTENDS Delivery

CONSTANTS p1, p2, MaxHeartbeat

MCHeartbeat == 1..MaxHeartbeat
OwnKeys == [h \in MCHeartbeat |-> h]
SharedKey == [h \in MCHeartbeat |-> IF h = MaxHeartbeat THEN h - 1 ELSE h]
=============================================================================
