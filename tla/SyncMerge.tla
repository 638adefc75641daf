------------------------------ MODULE SyncMerge -------------------------------
(***************************************************************************)
(* crates/sync-engine/src/merge.rs: every replica folds the events it is   *)
(* given into a SyncMergeState, field by field, in whatever order batches  *)
(* reach it, with duplicates.                                              *)
(*                                                                         *)
(* merge_event_batch sorts a batch by key and merges one event after the   *)
(* other, stopping at the first error.  A step here is one merge_event;    *)
(* batch[r] is what the running call of replica r has still to merge.      *)
(***************************************************************************)
EXTENDS SyncEvents

CONSTANTS
  Replicas,
  Batches   \* the sets of events merge_event_batch may be called with

ASSUME BatchAssumption == Batches \subseteq SUBSET Log

VARIABLES
  state,   \* state[r]: the SyncMergeState of replica r
  batch,   \* batch[r]: the unmerged events of the batch r is merging
  failed   \* failed[r]: the events for which a merge at r returned Err

vars == <<state, batch, failed>>

NoFields   == [f \in Fields |-> Absent]
NoVersions == [f \in Fields |-> NoKey]

MergeState ==
  [cursor       : Keys,
   applied      : SUBSET Nat,
   present      : SUBSET Entities,
   fields       : [Entities -> [Fields -> Values \ {Invalid}]],
   versions     : [Entities -> [Fields -> Keys]],
   tombstone    : [Entities -> Keys],
   members      : SUBSET Relations,
   rel_versions : [Relations -> Keys]]

EmptyMergeState ==
  [cursor |-> NoKey, applied |-> {}, present |-> {},
   fields |-> [e \in Entities |-> NoFields],
   versions |-> [e \in Entities |-> NoVersions],
   tombstone |-> [e \in Entities |-> NoKey],
   members |-> {}, rel_versions |-> [p \in Relations |-> NoKey]]

-------------------------------------------------------------------------------
IsProgress(e, f) == e \in UserStates /\ f = Progress

(* The delete of the entity is newer than this upsert.                     *)
Covered(s, ev) == KeyLeq(Key(ev), s.tombstone[ev.target])

(* merge_event returns Err.  An upsert with a bad reading_progress fails   *)
(* only when it gets as far as that field.                                 *)
Fails(s, ev) ==
  \/ ev.change = "malformed"
  \/ /\ ev.change = "upsert"
     /\ ev.target \in UserStates
     /\ ev.fields[Progress] = Invalid
     /\ ~Covered(s, ev)

(* Slip: reading_progress is checked after it has been inserted.           *)
ReadFieldsUnchecked(ev) == {f \in Fields : ev.fields[f] # Absent}

(* The payload fields the loop of merge_entity_fields gets to.             *)
ReadFields(ev) ==
  {f \in Fields : /\ ev.fields[f] # Absent
                  /\ IsProgress(ev.target, Progress) /\ ev.fields[Progress] = Invalid
                       => f \in EarlyFields}

(* Slip: reading_progress is a field like any other.                       *)
OverwritesByTime(s, ev, f) == KeyLess(s.versions[ev.target][f], Key(ev))

(* merge_last_writer_wins_field overwrites when the event is newer than    *)
(* the field, merge_reading_progress when the progress is further on.      *)
Overwrites(s, ev, f) ==
  IF IsProgress(ev.target, f)
    THEN \/ s.fields[ev.target][f] = Absent
         \/ s.fields[ev.target][f] < ev.fields[f]
    ELSE KeyLess(s.versions[ev.target][f], Key(ev))

(* Slip: any newer reading_progress makes the version newer.               *)
RenewsAlways(s, ev, f) ==
  /\ IsProgress(ev.target, f)
  /\ KeyLess(s.versions[ev.target][f], Key(ev))

(* An equal reading_progress only makes the version newer.                 *)
Renews(s, ev, f) ==
  /\ IsProgress(ev.target, f)
  /\ s.fields[ev.target][f] = ev.fields[f]
  /\ KeyLess(s.versions[ev.target][f], Key(ev))

Won(s, ev)     == {f \in ReadFields(ev) : Overwrites(s, ev, f)}
Renewed(s, ev) == {f \in ReadFields(ev) : Renews(s, ev, f)}

MergedFields(s, ev) ==
  [f \in Fields |-> IF f \in Won(s, ev) THEN ev.fields[f]
                                       ELSE s.fields[ev.target][f]]
MergedVersions(s, ev) ==
  [f \in Fields |-> IF f \in Won(s, ev) \cup Renewed(s, ev)
                      THEN Key(ev) ELSE s.versions[ev.target][f]]

(* Slip: an entity that is created again keeps its tombstone.              *)
MergeEntityFieldsKeepingTombstone(s, ev) ==
  IF Covered(s, ev) THEN s
    ELSE [s EXCEPT !.present = @ \cup {ev.target},
                   !.fields[ev.target] = MergedFields(s, ev),
                   !.versions[ev.target] = MergedVersions(s, ev)]

MergeEntityFields(s, ev) ==
  IF Covered(s, ev) THEN s
    ELSE [s EXCEPT !.tombstone[ev.target] = NoKey,
                   !.present = @ \cup {ev.target},
                   !.fields[ev.target] = MergedFields(s, ev),
                   !.versions[ev.target] = MergedVersions(s, ev)]

(* Slip: a delete is not compared with the versions of the fields.         *)
DeletesAnyway(s, ev) == KeyLess(s.tombstone[ev.target], Key(ev))

(* merge_entity_delete: newer than every field and than the last delete.   *)
Deletes(s, ev) ==
  /\ \A f \in Fields : KeyLess(s.versions[ev.target][f], Key(ev))
  /\ KeyLess(s.tombstone[ev.target], Key(ev))

(* Slip: the entity is marked as deleted, its fields stay.                 *)
MergeEntityDeleteKeepingFields(s, ev) ==
  IF Deletes(s, ev)
    THEN [s EXCEPT !.present = @ \ {ev.target}, !.tombstone[ev.target] = Key(ev)]
    ELSE s

MergeEntityDelete(s, ev) ==
  IF Deletes(s, ev)
    THEN [s EXCEPT !.present = @ \ {ev.target},
                   !.fields[ev.target] = NoFields,
                   !.versions[ev.target] = NoVersions,
                   !.tombstone[ev.target] = Key(ev)]
    ELSE s

(* Slip: the link event that arrives last wins.                            *)
MergeRelationByArrival(s, ev) ==
  [s EXCEPT !.rel_versions[ev.target] = Key(ev),
            !.members = IF ev.change = "attach" THEN @ \cup {ev.target}
                                                ELSE @ \ {ev.target}]

(* Slip: a detach removes the version along with the link.                 *)
MergeRelationForgetting(s, ev) ==
  IF KeyLess(s.rel_versions[ev.target], Key(ev))
    THEN IF ev.change = "attach"
           THEN [s EXCEPT !.rel_versions[ev.target] = Key(ev),
                          !.members = @ \cup {ev.target}]
           ELSE [s EXCEPT !.rel_versions[ev.target] = NoKey,
                          !.members = @ \ {ev.target}]
    ELSE s

MergeRelation(s, ev) ==
  IF KeyLess(s.rel_versions[ev.target], Key(ev))
    THEN [s EXCEPT !.rel_versions[ev.target] = Key(ev),
                   !.members = IF ev.change = "attach" THEN @ \cup {ev.target}
                                                       ELSE @ \ {ev.target}]
    ELSE s

MarkApplied(s, ev) ==
  [s EXCEPT !.applied = @ \cup {ev.id}, !.cursor = AdvanceTo(@, ev)]

Dispatch(s, ev) ==
  CASE ev.change = "upsert" -> MergeEntityFields(s, ev)
    [] ev.change = "delete" -> MergeEntityDelete(s, ev)
    [] ev.change \in {"attach", "detach"} -> MergeRelation(s, ev)
    [] ev.change = "malformed" -> s

(* Slip: the cursor passes an event that could not be merged.              *)
MergeEventSkippingErrors(s, ev) ==
  IF ev.id \in s.applied THEN s
  ELSE IF Fails(s, ev) THEN [Dispatch(s, ev) EXCEPT !.cursor = AdvanceTo(@, ev)]
  ELSE MarkApplied(Dispatch(s, ev), ev)

(* merge_event                                                             *)
MergeEvent(s, ev) ==
  IF ev.id \in s.applied THEN s
  ELSE IF Fails(s, ev) THEN Dispatch(s, ev)
  ELSE MarkApplied(Dispatch(s, ev), ev)

-------------------------------------------------------------------------------
Init ==
  /\ state = [r \in Replicas |-> EmptyMergeState]
  /\ batch = [r \in Replicas |-> {}]
  /\ failed = [r \in Replicas |-> {}]

(* merge_event_batch is called with any batch: batches overlap, repeat and *)
(* come in any order.                                                      *)
Deliver(r, events) ==
  /\ batch[r] = {}
  /\ batch' = [batch EXCEPT ![r] = events]
  /\ UNCHANGED <<state, failed>>

(* The next event of the batch is merged.                                  *)
MergeNext(r, ev) ==
  /\ IsFirst(ev, batch[r])
  /\ ev.id \in state[r].applied \/ ~Fails(state[r], ev)
  /\ state' = [state EXCEPT ![r] = MergeEvent(@, ev)]
  /\ batch' = [batch EXCEPT ![r] = @ \ {ev}]
  /\ UNCHANGED failed

(* Its merge returns Err: collect() drops the rest of the batch, and what  *)
(* the event had changed so far stays.                                     *)
MergeFails(r, ev) ==
  /\ IsFirst(ev, batch[r])
  /\ ev.id \notin state[r].applied
  /\ Fails(state[r], ev)
  /\ state' = [state EXCEPT ![r] = MergeEvent(@, ev)]
  /\ batch' = [batch EXCEPT ![r] = {}]
  /\ failed' = [failed EXCEPT ![r] = @ \cup {ev}]

Next ==
  \E r \in Replicas :
    \/ \E events \in Batches : Deliver(r, events)
    \/ \E ev \in batch[r] : MergeNext(r, ev) \/ MergeFails(r, ev)

Spec == Init /\ [][Next]_vars

-------------------------------------------------------------------------------
Applied(r) == {ev \in Log : ev.id \in state[r].applied}

TypeOK ==
  /\ state \in [Replicas -> MergeState]
  /\ batch \in [Replicas -> SUBSET Log]
  /\ failed \in [Replicas -> SUBSET Log]

-------------------------------------------------------------------------------
(* Relations.  Whatever the order and the duplicates, a tag link of        *)
(* merge_relation is what the newest attach or detach of its pair says.    *)
LastWriterOfRelation(s, seen, p) ==
  LET writers == {ev \in seen : ev.target = p}
  IN  /\ \A ev \in writers : KeyLeq(Key(ev), s.rel_versions[p])
      /\ \/ /\ writers = {}
            /\ s.rel_versions[p] = NoKey
            /\ p \notin s.members
         \/ \E ev \in writers : /\ Key(ev) = s.rel_versions[p]
                                /\ p \in s.members <=> ev.change = "attach"

(* The links of every replica are those the last writers left, so that     *)
(* merge_relation is insensitive to the order of delivery.                 *)
RelationsAreLastWriter ==
  \A r \in Replicas, p \in Relations :
    LastWriterOfRelation(state[r], Applied(r), p)

(* The cursor the next pull starts from is the key of the newest applied   *)
(* event, also when a batch ended in an error or came out of order         *)
(* (SyncCursor::advance_to).                                               *)
CursorIsNewestApplied ==
  \A r \in Replicas :
    /\ \A ev \in Applied(r) : KeyLeq(Key(ev), state[r].cursor)
    /\ \/ Applied(r) = {} /\ state[r].cursor = NoKey
       \/ \E ev \in Applied(r) : Key(ev) = state[r].cursor

-------------------------------------------------------------------------------
(* Entities.                                                               *)

(* The events whose value for field f has gone into entity e of replica r: *)
(* the applied upserts, and for a field read before the bad                *)
(* reading_progress also the upserts that failed.                          *)
Writers(r, e, f) ==
  {ev \in Log : /\ ev.target = e /\ ev.change = "upsert"
                /\ ev.fields[f] # Absent
                /\ \/ ev.id \in state[r].applied
                   \/ ev \in failed[r] /\ f \in EarlyFields}

Undeleted(r, e) == \A ev \in Applied(r) : ev.target = e => ev.change # "delete"

FieldIsLastWriter(r, e, f) ==
  LET writers == Writers(r, e, f)
  IN  /\ \A ev \in writers : KeyLeq(Key(ev), state[r].versions[e][f])
      /\ \/ /\ writers = {}
            /\ state[r].fields[e][f] = Absent
            /\ state[r].versions[e][f] = NoKey
         \/ \E ev \in writers : /\ Key(ev) = state[r].versions[e][f]
                                /\ ev.fields[f] = state[r].fields[e][f]

ProgressIsFurthest(r, e) ==
  LET writers == Writers(r, e, Progress)
      value   == state[r].fields[e][Progress]
      version == state[r].versions[e][Progress]
  IN  /\ \A ev \in writers : /\ ev.fields[Progress] <= value
                             /\ ev.fields[Progress] = value => KeyLeq(Key(ev), version)
      /\ \/ writers = {} /\ value = Absent /\ version = NoKey
         \/ \E ev \in writers : Key(ev) = version /\ ev.fields[Progress] = value

(* While no delete of an entity has been applied, each of its fields is    *)
(* the newest write, and reading_progress the furthest, of all that was    *)
(* merged in any order (merge_last_writer_wins_field,                      *)
(* merge_reading_progress) -- the writes of failed events included.        *)
UndeletedFieldsConverge ==
  \A r \in Replicas, e \in Entities : Undeleted(r, e) =>
    \A f \in Fields : IF IsProgress(e, f) THEN ProgressIsFurthest(r, e)
                                          ELSE FieldIsLastWriter(r, e, f)

(* A value and the version beside it come from the same upsert: no path    *)
(* (progress, deletes, failures, re-creation) pairs a value with the key   *)
(* of another event.                                                       *)
ValueMatchesVersion ==
  \A r \in Replicas, e \in Entities, f \in Fields :
    \/ /\ state[r].fields[e][f] = Absent
       /\ state[r].versions[e][f] = NoKey
    \/ \E ev \in Writers(r, e, f) : /\ Key(ev) = state[r].versions[e][f]
                                    /\ ev.fields[f] = state[r].fields[e][f]

(* An entity and its tombstone exclude each other, a tombstone is the key  *)
(* of an applied delete, and an entity that does not exist has no fields.  *)
TombstoneExcludesEntity ==
  \A r \in Replicas, e \in Entities :
    /\ e \in state[r].present => state[r].tombstone[e] = NoKey
    /\ e \notin state[r].present => /\ state[r].fields[e] = NoFields
                                    /\ state[r].versions[e] = NoVersions
    /\ state[r].tombstone[e] # NoKey =>
         \E ev \in Applied(r) : /\ ev.target = e /\ ev.change = "delete"
                                /\ Key(ev) = state[r].tombstone[e]

(* The entities with no reading_progress of which every upsert sets some   *)
(* field.                                                                  *)
PlainEntities ==
  {e \in Entities \ UserStates :
     \A ev \in Log : ev.target = e /\ ev.change = "upsert" =>
       \E f \in Fields : ev.fields[f] # Absent}

(* Whether a plain entity exists is decided by the newest applied event of *)
(* it, in any order of delivery: merge_entity_delete and the tombstone     *)
(* check of merge_entity_fields agree on existence (though not on the      *)
(* fields: see Converged).                                                 *)
PresenceIsLastWriter ==
  \A r \in Replicas, e \in PlainEntities :
    \A ev \in Applied(r) :
      /\ ev.target = e
      /\ \A o \in Applied(r) : o.target = e => KeyLeq(Key(o), Key(ev))
      => (e \in state[r].present <=> ev.change = "upsert")

-------------------------------------------------------------------------------
SameEvents(q, r) == /\ state[q].applied = state[r].applied
                    /\ failed[q] = failed[r]

(* The links of the merge implement LastWriterSet: the link events applied *)
(* are those seen, and every step of the merge learns one or stutters.     *)
LW == INSTANCE LastWriterSet
        WITH seen  <- [r \in Replicas |->
                         {ev \in Applied(r) : ev.change \in {"attach", "detach"}}],
             links <- [r \in Replicas |-> state[r].members]

(* merge_relation implements the last-writer set of links.                 *)
ImplementsLastWriterSet == LW!LWSpec

(* "Devices converge by replaying events and merging by field"             *)
(* (memory-bank/RSS-design-document.md:647): two replicas that merged the  *)
(* same events hold the same entities.                                     *)
Converged ==
  \A q, r \in Replicas : SameEvents(q, r) => state[q].fields = state[r].fields

(* "Reading progress: the further valid progress, keeping the latest       *)
(* update time" (memory-bank/RSS-design-document.md:679): the version of   *)
(* the progress of an undeleted user state is its newest update.           *)
ProgressKeepsLatestTime ==
  \A r \in Replicas, e \in UserStates : Undeleted(r, e) =>
    \A ev \in Writers(r, e, Progress) :
      KeyLeq(Key(ev), state[r].versions[e][Progress])
===============================================================================
