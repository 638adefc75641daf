----------------------------- MODULE MCSyncMerge ------------------------------
(***************************************************************************)
(* Small instances of SyncMerge.  The events of a log are few but reach    *)
(* every branch of merge_event_batch; any order, any repetition.           *)
(***************************************************************************)
EXTENDS SyncMerge

CONSTANTS art, feed, tag, early, late, progress, absent, invalid

MCEntities   == {art, feed}
MCUserStates == {art}
MCRelations  == {tag}
MCEarly      == {early}
MCLate       == {late}

(* A payload with an early field, a reading_progress and a late field.     *)
Payload(x, p, y) ==
  [f \in Fields |-> CASE f = early -> x [] f = progress -> p [] f = late -> y]
Empty == Payload(absent, absent, absent)

Ev(id, at, target, change, payload) ==
  [id |-> id, created_at |-> at, target |-> target, change |-> change, fields |-> payload]

(* One article: two updates, a delete that ties with the second on its     *)
(* time, an update with a bad progress, one with a lower progress.  One    *)
(* feed: created, deleted, created again by another device.  A link that   *)
(* changes twice, and an event no replica can merge.                       *)
EntityLog ==
  {Ev(1, 1, art, "upsert", Payload(1, 1, absent)),
   Ev(2, 2, art, "upsert", Payload(absent, 2, 1)),
   Ev(3, 2, art, "delete", Empty),
   Ev(4, 3, art, "upsert", Payload(0, invalid, 0)),
   Ev(5, 4, art, "upsert", Payload(absent, 1, 0)),
   Ev(6, 1, feed, "upsert", Payload(1, absent, absent)),
   Ev(7, 2, feed, "delete", Empty),
   Ev(8, 3, feed, "upsert", Payload(absent, absent, 1)),
   Ev(9, 3, feed, "malformed", Empty),
   Ev(10, 1, tag, "attach", Empty),
   Ev(11, 2, tag, "detach", Empty)}

(* What two replicas can disagree about: an update older than a delete     *)
(* that arrives after a newer update, next to a link.                      *)
TwoReplicaLog ==
  {Ev(1, 1, feed, "upsert", Payload(1, absent, absent)),
   Ev(2, 2, feed, "delete", Empty),
   Ev(3, 3, feed, "upsert", Payload(absent, absent, 1)),
   Ev(4, 1, tag, "attach", Empty),
   Ev(5, 2, tag, "detach", Empty)}

PairsAndAll  == {b \in SUBSET Log : Cardinality(b) \in {1, 2}} \cup {Log}
SinglesAndAll == {b \in SUBSET Log : Cardinality(b) = 1} \cup {Log}
===============================================================================
