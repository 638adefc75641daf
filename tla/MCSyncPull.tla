------------------------------ MODULE MCSyncPull ------------------------------
(***************************************************************************)
(* Small instances of SyncPull: an article whose progress goes down and    *)
(* that is deleted and comes back, a link, an event no device can fold.    *)
(***************************************************************************)
EXTENDS SyncPull

CONSTANTS art, tag, early, late, progress, absent, invalid

MCEntities   == {art}
MCUserStates == {art}
MCRelations  == {tag}
MCEarly      == {early}
MCLate       == {late}
MCPageSizes  == {2}
NoBatches    == {}

Payload(x, p, y) ==
  [f \in Fields |-> CASE f = early -> x [] f = progress -> p [] f = late -> y]
Empty == Payload(absent, absent, absent)

Ev(id, at, target, change, payload) ==
  [id |-> id, created_at |-> at, target |-> target, change |-> change, fields |-> payload]

(* An article read, deleted, read again less far; a link made in the       *)
(* second of another event; a progress that is no number; an event of a    *)
(* pair of types the server accepts and no device supports.  A device may  *)
(* keep any of them to itself, so every shorter history is there too.      *)
MCLog ==
  {Ev(1, 1, art, "upsert", Payload(1, 2, absent)),
   Ev(2, 1, tag, "attach", Empty),
   Ev(3, 2, art, "delete", Empty),
   Ev(4, 3, art, "upsert", Payload(absent, 1, 1)),
   Ev(5, 4, art, "upsert", Payload(0, invalid, 0)),
   Ev(6, 5, tag, "malformed", Empty)}
(* The same without the events some device refuses.                        *)
ValidLog == {ev \in MCLog : ~MergeRefuses(ev)}
===============================================================================
