------------------------------- MODULE Bucket -------------------------------
(* The "heartbeats" bucket of the offline database ~/.wakatime.bdb as a set  *)
(* of heartbeats, and the operations of offline.Queue on it                  *)
(* (pkg/offline/offline.go).  bolt stores the serialised heartbeats under    *)
(* their Heartbeat.ID() and iterates them in the order of these keys, which  *)
(* begin with the time of the heartbeat: a key is a natural number here.     *)
EXTENDS Integers, FiniteSets, Functions

CONSTANTS
  Heartbeat,    \* the heartbeats the editors produce
  KeyOf,        \* Heartbeat.ID(): two heartbeats may have the same key
  Unreadable,   \* stored values json.Unmarshal refuses (another release wrote them)
  Unstorable    \* heartbeats bolt refuses to store (their key exceeds its limit)

ASSUME KeyAssumption == KeyOf \in [Heartbeat -> Nat]
ASSUME RecordAssumption == Unreadable \subseteq Heartbeat /\ Unstorable \subseteq Heartbeat

-----------------------------------------------------------------------------
(* A bucket stores one value per key: what a database file may hold.         *)
UniqueKeys(q) == \A g, h \in q : KeyOf[g] = KeyOf[h] => g = h
Stored == {q \in SUBSET (Heartbeat \ Unstorable) : UniqueKeys(q)}

(* PushMany: every heartbeat of hh, in order, is Put under its key: the last *)
(* one with a key replaces what was stored under it; one that bolt cannot    *)
(* store fails the whole push.  hh is a sequence, or a sequence restricted   *)
(* to some of its indices.                                                   *)
LastWriters(hh) ==
  {hh[n] : n \in {m \in DOMAIN hh : \A k \in DOMAIN hh : k > m => KeyOf[hh[k]] # KeyOf[hh[m]]}}

CanPush(hh) == Range(hh) \cap Unstorable = {}

PushMany(q, hh) ==
  {h \in q : \A n \in DOMAIN hh : KeyOf[hh[n]] # KeyOf[h]} \cup LastWriters(hh)

(* The records a cursor visits before it has read limit heartbeats.          *)
FirstKeys(q, limit) ==
  {h \in q : Cardinality({g \in q : KeyOf[g] < KeyOf[h]}) < limit}

InKeyOrder(S) ==
  {hh \in [1..Cardinality(S) -> S] :
     \A m, n \in 1..Cardinality(S) : m < n => KeyOf[hh[m]] < KeyOf[hh[n]]}

(* PopMany reads the first limit records in key order; one it cannot read    *)
(* fails the whole pop.  The records it read are deleted.                    *)
CanPop(q, limit) == FirstKeys(q, limit) \cap Unreadable = {}
PopMany(q, limit) == InKeyOrder(FirstKeys(q, limit))

WithoutNothing(q, hh) == q    \* a mutant: the records stay
Without(q, hh) == q \ Range(hh)
=============================================================================
