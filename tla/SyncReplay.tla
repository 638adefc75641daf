------------------------------ MODULE SyncReplay ------------------------------
(***************************************************************************)
(* crates/sync-engine/src/replay.rs: the second projection of the event    *)
(* log.  It keeps no versions and no tombstones: it overwrites, so it      *)
(* relies on events coming in key order, as the cursor gives them.         *)
(***************************************************************************)
EXTENDS SyncEvents

CONSTANT Replayers

VARIABLES
  copy,      \* copy[x]: the SyncReplayState of replayer x
  page,      \* page[x]: what the running replay_event_batch has to replay
  refused    \* refused[x]: the events for which a replay at x returned Err

replayVars == <<copy, page, refused>>

ReplayState ==
  [cursor  : Keys,
   applied : SUBSET Nat,
   present : SUBSET Entities,
   fields  : [Entities -> [Fields -> Values]],
   members : SUBSET Relations]

EmptyReplayState ==
  [cursor |-> NoKey, applied |-> {}, present |-> {},
   fields |-> [e \in Entities |-> [f \in Fields |-> Absent]], members |-> {}]

(* Slip: an upsert replaces the whole entity.                              *)
UpsertEntityMapReplacing(s, ev) ==
  [s EXCEPT !.present = @ \cup {ev.target}, !.fields[ev.target] = ev.fields]

UpsertEntityMap(s, ev) ==
  [s EXCEPT !.present = @ \cup {ev.target},
            !.fields[ev.target] =
               [f \in Fields |-> IF ev.fields[f] # Absent THEN ev.fields[f] ELSE @[f]]]

DeleteEntityMap(s, ev) ==
  [s EXCEPT !.present = @ \ {ev.target},
            !.fields[ev.target] = [f \in Fields |-> Absent]]

ReplayDispatch(s, ev) ==
  CASE ev.change = "upsert" -> UpsertEntityMap(s, ev)
    [] ev.change = "delete" -> DeleteEntityMap(s, ev)
    [] ev.change = "attach" -> [s EXCEPT !.members = @ \cup {ev.target}]
    [] ev.change = "detach" -> [s EXCEPT !.members = @ \ {ev.target}]

ReplayFails(ev) == ev.change = "malformed"

(* replay_event                                                            *)
ReplayEvent(s, ev) ==
  IF ev.id \in s.applied \/ ReplayFails(ev) THEN s
  ELSE [ReplayDispatch(s, ev) EXCEPT !.applied = @ \cup {ev.id},
                                     !.cursor  = AdvanceTo(@, ev)]

ReplayInit ==
  /\ copy = [x \in Replayers |-> EmptyReplayState]
  /\ page = [x \in Replayers |-> {}]
  /\ refused = [x \in Replayers |-> {}]

(* replay_event_batch is called.                                           *)
DeliverPage(x, events) ==
  /\ page[x] = {}
  /\ page' = [page EXCEPT ![x] = events]
  /\ UNCHANGED <<copy, refused>>

(* The next event of the sorted batch: replayed, or an error that drops    *)
(* the rest of the batch.                                                  *)
ReplayNext(x, ev) ==
  LET err == ev.id \notin copy[x].applied /\ ReplayFails(ev)
  IN  /\ IsFirst(ev, page[x])
      /\ copy' = [copy EXCEPT ![x] = ReplayEvent(@, ev)]
      /\ page' = [page EXCEPT ![x] = IF err THEN {} ELSE @ \ {ev}]
      /\ refused' = [refused EXCEPT ![x] = IF err THEN @ \cup {ev} ELSE @]

ReplayTypeOK ==
  /\ copy \in [Replayers -> ReplayState]
  /\ page \in [Replayers -> SUBSET Log]
  /\ refused \in [Replayers -> SUBSET Log]
===============================================================================
