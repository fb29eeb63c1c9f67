----------------------------- MODULE QueueCalls -----------------------------
(* The calls pkg/offline makes on the offline database, popHeartbeats(limit), *)
(* pushHeartbeats(hh) and CountHeartbeats(), and their outcomes.              *)
EXTENDS Bucket, Sequences

CONSTANTS
  Batch,     \* the heartbeat sequences that are pushed
  Limit      \* the limits that pops are given

(* json.Unmarshal reads what json.Marshal of the same release wrote.         *)
ASSUME BatchAssumption == Batch \subseteq Seq(Heartbeat \ Unreadable)

NoCall == [op |-> "none"]
Call == {NoCall} \cup [op : {"pop"}, limit : Limit]
                 \cup [op : {"push"}, hh : Batch]
                 \cup {[op |-> "count"]}

Pending == [kind |-> "pending"]
Failed == [kind |-> "failed"]
Pushed == [kind |-> "pushed"]
Popped(hh) == [kind |-> "popped", hh |-> hh]
Counted(n) == [kind |-> "counted", n |-> n]

(* Operation op may take bucket q to bucket r and answer res.                *)
Effect(q, op, r, res) ==
  \/ /\ op.op = "pop" /\ CanPop(q, op.limit)
     /\ \E hh \in PopMany(q, op.limit) : r = Without(q, hh) /\ res = Popped(hh)
  \/ /\ op.op = "push"
     /\ r = PushMany(q, op.hh) /\ res = Pushed
  \/ /\ op.op = "count"
     /\ r = q /\ res = Counted(Cardinality(q))
=============================================================================
