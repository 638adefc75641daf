------------------------------ MODULE SyncEvents ------------------------------
(***************************************************************************)
(* The vocabulary of crates/sync-engine: change events, the order of their *)
(* keys, and the cursor-paged batches a device pulls (batch.rs).           *)
(*                                                                         *)
(* Created-at strings and event ids are naturals here: the code only       *)
(* compares them.  0 is no event id, so NoKey is below every key and       *)
(* stands for a missing version, a missing tombstone and SyncCursor::start.*)
(***************************************************************************)
EXTENDS Integers, FiniteSets

CONSTANTS
  Entities,     \* (entity_type, entity_id) pairs kept in an entity map
  UserStates,   \* those whose entity_type is "user-state"
  Relations,    \* feed-tag and article-tag pairs
  EarlyFields,  \* payload fields read before reading_progress ...
  LateFields,   \* ... and after it: a BTreeMap is walked in name order
  Progress,     \* the field reading_progress
  Absent,       \* a field the payload, or the entity, does not have
  Invalid,      \* a reading_progress that is no number in 0..1
  Log           \* every event the devices will ever create

Fields == EarlyFields \cup LateFields \cup {Progress}
Values == Nat \cup {Absent, Invalid}

Keys  == [created_at : Nat, event_id : Nat]
NoKey == [created_at |-> 0, event_id |-> 0]

(* SyncEventKey derives Ord: created_at first, then event_id.              *)
KeyLess(k, l) == \/ k.created_at < l.created_at
                 \/ k.created_at = l.created_at /\ k.event_id < l.event_id
KeyLeq(k, l) == k = l \/ KeyLess(k, l)

(* "malformed" stands for every event merge_event refuses before changing  *)
(* anything: an unsupported pair of types, a payload.value that is no      *)
(* object, a relation without its two ids.                                 *)
EntityChanges   == {"upsert", "delete", "malformed"}
RelationChanges == {"attach", "detach", "malformed"}

Event == [id : Nat \ {0}, created_at : Nat, target : Entities \cup Relations,
          change : EntityChanges \cup RelationChanges,
          fields : [Fields -> Values]]

Key(ev) == [created_at |-> ev.created_at, event_id |-> ev.id]

ASSUME EntityAssumption   == UserStates \subseteq Entities /\ Entities \cap Relations = {}
ASSUME FieldAssumption    == /\ EarlyFields \cap LateFields = {}
                             /\ Progress \notin EarlyFields \cup LateFields
ASSUME ValueAssumption    == Absent \notin Nat /\ Invalid \notin Nat /\ Absent # Invalid
ASSUME LogAssumption ==
  /\ Log \subseteq Event
  /\ \A ev \in Log : /\ ev.target \in Entities => ev.change \in EntityChanges
                     /\ ev.target \in Relations => ev.change \in RelationChanges
                     \* the payload of a plain entity is any JSON value
                     /\ ev.target \notin UserStates => ev.fields[Progress] # Invalid
                     /\ \A f \in Fields \ {Progress} : ev.fields[f] # Invalid
(* Event ids are unique (they are drawn at random by their device).        *)
ASSUME UniqueIds == \A ev, other \in Log : ev.id = other.id => ev = other

-------------------------------------------------------------------------------
(* Slip: the cursor follows whatever event came last.                      *)
AdvanceToLatestArrival(cursor, ev) == Key(ev)

(* SyncCursor::advance_to keeps the greater of the two keys.               *)
AdvanceTo(cursor, ev) == IF KeyLess(cursor, Key(ev)) THEN Key(ev) ELSE cursor

(* Slip: only the time is compared, so an event of the cursor's second is  *)
(* never pulled.                                                           *)
EventsAfterByTime(events, cursor) ==
  {ev \in events : cursor.created_at < ev.created_at}

EventsAfter(events, cursor) == {ev \in events : KeyLess(cursor, Key(ev))}

(* The first of a set of events in key order.                              *)
IsFirst(ev, events) == ev \in events /\ \A o \in events : KeyLeq(Key(ev), Key(o))

(* package_event_batch: the max smallest events after the cursor.          *)
Package(events, cursor, max) ==
  LET available == EventsAfter(events, cursor)
      Rank(ev)  == Cardinality({o \in available : KeyLess(Key(o), Key(ev))})
      selected  == {ev \in available : Rank(ev) < max}
  IN  [events      |-> selected,
       next_cursor |-> IF selected = {} THEN cursor
                       ELSE Key(CHOOSE ev \in selected :
                                  \A o \in selected : KeyLeq(Key(o), Key(ev))),
       has_more    |-> selected # available]
===============================================================================
