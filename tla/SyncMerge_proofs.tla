--------------------------- MODULE SyncMerge_proofs ---------------------------
(***************************************************************************)
(* Proofs about SyncMerge, for any log, any replicas and any batches.      *)
(*                                                                         *)
(* merge_event is a function of one SyncMergeState and one event, so every *)
(* invariant is first shown to be kept by MergeEvent(s, ev), operator by   *)
(* operator, and then lifted to the steps of the specification.            *)
(***************************************************************************)
EXTENDS SyncMerge, SyncEvents_proofs, TLAPS

-------------------------------------------------------------------------------
(* Every event takes a SyncMergeState to a SyncMergeState.                 *)
LEMMA FieldsType ==
  ASSUME NEW s \in MergeState, NEW ev \in Log, ev.change = "upsert"
  PROVE  MergeEntityFields(s, ev) \in MergeState
  <1>1. ev.target \in Entities /\ Key(ev) \in Keys /\ NoKey \in Keys
        /\ ev.fields \in [Fields -> Values]
    BY TargetOfEvent, KeyOfEvent, NoKeyInKeys DEF Event
  <1>2. s.fields[ev.target] \in [Fields -> Values \ {Invalid}]
        /\ s.versions[ev.target] \in [Fields -> Keys]
    BY <1>1 DEF MergeState
  \* an Invalid progress ends the loop before it is stored
  <1>3. MergedFields(s, ev) \in [Fields -> Values \ {Invalid}]
    <2>1. ASSUME NEW f \in Fields, f \in ReadFields(ev)
          PROVE  ev.fields[f] # Invalid
      BY <1>1, <2>1, LogAssumption, FieldAssumption
      DEF ReadFields, IsProgress, Fields
    <2> QED BY <1>1, <1>2, <2>1 DEF MergedFields, Won
  <1>4. MergedVersions(s, ev) \in [Fields -> Keys]
    BY <1>1, <1>2 DEF MergedVersions
  <1> QED BY <1>1, <1>3, <1>4 DEF MergeEntityFields, MergeState

LEMMA DeleteType ==
  ASSUME NEW s \in MergeState, NEW ev \in Log, ev.change = "delete"
  PROVE  MergeEntityDelete(s, ev) \in MergeState
  <1>1. ev.target \in Entities /\ Key(ev) \in Keys /\ NoKey \in Keys
    BY TargetOfEvent, KeyOfEvent, NoKeyInKeys DEF Event
  <1>2. NoFields \in [Fields -> Values \ {Invalid}] /\ NoVersions \in [Fields -> Keys]
    BY <1>1, ValueAssumption DEF NoFields, NoVersions, Values
  <1> QED BY <1>1, <1>2 DEF MergeEntityDelete, MergeState

LEMMA RelationType ==
  ASSUME NEW s \in MergeState, NEW ev \in Log, ev.change \in {"attach", "detach"}
  PROVE  MergeRelation(s, ev) \in MergeState
  <1>1. ev.target \in Relations /\ Key(ev) \in Keys
    BY TargetOfEvent, KeyOfEvent
  <1> QED BY <1>1 DEF MergeRelation, MergeState

LEMMA DispatchType ==
  ASSUME NEW s \in MergeState, NEW ev \in Log
  PROVE  Dispatch(s, ev) \in MergeState
  BY FieldsType, DeleteType, RelationType, TargetOfEvent DEF Dispatch

LEMMA MarkType ==
  ASSUME NEW s \in MergeState, NEW ev \in Log
  PROVE  MarkApplied(s, ev) \in MergeState
  BY KeyOfEvent DEF MarkApplied, AdvanceTo, MergeState, Event

LEMMA MergeType ==
  ASSUME NEW s \in MergeState, NEW ev \in Log
  PROVE  MergeEvent(s, ev) \in MergeState
  BY DispatchType, MarkType DEF MergeEvent

-------------------------------------------------------------------------------
(* What each operator leaves alone.                                        *)
LEMMA DispatchFrame ==
  ASSUME NEW s \in MergeState, NEW ev \in Log
  PROVE  LET t == Dispatch(s, ev) IN
         /\ t.applied = s.applied
         /\ t.cursor = s.cursor
         /\ ev.change \notin {"attach", "detach"} =>
               t.members = s.members /\ t.rel_versions = s.rel_versions
         /\ ev.change \notin {"upsert", "delete"} =>
               /\ t.present = s.present
               /\ t.fields = s.fields
               /\ t.versions = s.versions
               /\ t.tombstone = s.tombstone
  <1>1. CASE ev.change = "upsert"
    BY <1>1 DEF Dispatch, MergeEntityFields, MergeState
  <1>2. CASE ev.change = "delete"
    BY <1>2 DEF Dispatch, MergeEntityDelete, MergeState
  <1>3. CASE ev.change \in {"attach", "detach"}
    BY <1>3 DEF Dispatch, MergeRelation, MergeState
  <1>4. CASE ev.change = "malformed"
    BY <1>4 DEF Dispatch
  <1> QED BY <1>1, <1>2, <1>3, <1>4, TargetOfEvent

LEMMA MarkFrame ==
  ASSUME NEW s \in MergeState, NEW ev \in Log
  PROVE  LET t == MarkApplied(s, ev) IN
         /\ t.applied = s.applied \cup {ev.id}
         /\ t.cursor = AdvanceTo(s.cursor, ev)
         /\ t.members = s.members /\ t.rel_versions = s.rel_versions
         /\ t.present = s.present /\ t.fields = s.fields
         /\ t.versions = s.versions /\ t.tombstone = s.tombstone
  BY DEF MarkApplied, MergeState

(* The events a state has applied, and what one more does to them.         *)
Seen(s) == {ev \in Log : ev.id \in s.applied}

LEMMA SeenAfterMerge ==
  ASSUME NEW s \in MergeState, NEW ev \in Log
  PROVE  LET t == MergeEvent(s, ev) IN
         /\ ev.id \in s.applied => t = s
         /\ ev.id \notin s.applied /\ Fails(s, ev) =>
               /\ t = Dispatch(s, ev)
               /\ Seen(t) = Seen(s)
               /\ t.cursor = s.cursor
               /\ ev.change \in {"upsert", "malformed"}
         /\ ev.id \notin s.applied /\ ~Fails(s, ev) =>
               /\ t = MarkApplied(Dispatch(s, ev), ev)
               /\ Seen(t) = Seen(s) \cup {ev}
               /\ ev \notin Seen(s)
               /\ t.cursor = AdvanceTo(s.cursor, ev)
               /\ ev.change # "malformed"
  <1> DEFINE d == Dispatch(s, ev)
             m == MarkApplied(d, ev)
  <1>1. d \in MergeState /\ d.applied = s.applied /\ d.cursor = s.cursor
    BY DispatchType, DispatchFrame
  <1>2. m.applied = s.applied \cup {ev.id} /\ m.cursor = AdvanceTo(s.cursor, ev)
    BY <1>1, MarkFrame
  <1>3. Seen(d) = Seen(s)
    BY <1>1 DEF Seen
  <1>4. Seen(m) = Seen(s) \cup {ev}
    BY <1>2, KeyUnique DEF Seen
  <1>5. CASE ev.id \in s.applied
    BY <1>5 DEF MergeEvent
  <1>6. CASE ev.id \notin s.applied /\ Fails(s, ev)
    <2>1. ev.change \in {"upsert", "malformed"}
      BY <1>6 DEF Fails
    <2> QED BY <1>1, <1>3, <1>6, <2>1 DEF MergeEvent
  <1>7. CASE ev.id \notin s.applied /\ ~Fails(s, ev)
    <2>1. ev.change # "malformed" /\ ev \notin Seen(s)
      BY <1>7 DEF Fails, Seen
    <2> QED BY <1>2, <1>4, <1>7, <2>1 DEF MergeEvent
  <1> QED BY <1>5, <1>6, <1>7

-------------------------------------------------------------------------------
(* Links.  merge_event keeps every link what its last writer said.         *)
LinksOK(s) == \A p \in Relations : LastWriterOfRelation(s, Seen(s), p)

LEMMA RelationKeepsLinks ==
  ASSUME NEW s \in MergeState, NEW ev \in Log, NEW p \in Relations,
         ev.change \in {"attach", "detach"},
         LastWriterOfRelation(s, Seen(s), p),
         NEW t \in MergeState,
         t.members = MergeRelation(s, ev).members,
         t.rel_versions = MergeRelation(s, ev).rel_versions,
         Seen(t) = Seen(s) \cup {ev}
  PROVE  LastWriterOfRelation(t, Seen(t), p)
  <1> DEFINE old == {o \in Seen(s) : o.target = p}
             new == {o \in Seen(t) : o.target = p}
  <1>1. /\ ev.target \in Relations /\ Key(ev) \in Keys /\ KeyLess(NoKey, Key(ev))
        /\ \A o \in old : Key(o) \in Keys
        /\ s.rel_versions[p] \in Keys
    BY TargetOfEvent, KeyOfEvent DEF Seen, MergeState
  <1>2. CASE ev.target # p
    <2>1. /\ t.rel_versions[p] = s.rel_versions[p]
          /\ p \in t.members <=> p \in s.members
          /\ new = old
      BY <1>1, <1>2 DEF MergeRelation, MergeState
    <2> QED BY <2>1 DEF LastWriterOfRelation
  <1>3. CASE ev.target = p /\ KeyLess(s.rel_versions[p], Key(ev))
    <2>1. /\ t.rel_versions[p] = Key(ev)
          /\ p \in t.members <=> ev.change = "attach"
          /\ new = old \cup {ev}
      BY <1>1, <1>3 DEF MergeRelation, MergeState
    <2>2. \A o \in old : KeyLeq(Key(o), Key(ev))
      BY <1>1, <1>3, KeyTransitive DEF LastWriterOfRelation, KeyLeq
    <2>3. \A o \in new : KeyLeq(Key(o), t.rel_versions[p])
      BY <2>1, <2>2 DEF KeyLeq
    <2> QED BY <2>1, <2>3 DEF LastWriterOfRelation
  <1>4. CASE ev.target = p /\ ~KeyLess(s.rel_versions[p], Key(ev))
    <2>1. /\ t.rel_versions[p] = s.rel_versions[p]
          /\ t.members = s.members
          /\ new = old \cup {ev}
      BY <1>4 DEF MergeRelation
    <2>2. KeyLeq(Key(ev), s.rel_versions[p]) /\ s.rel_versions[p] # NoKey
      BY <1>1, <1>4, KeyTotal DEF KeyLeq
    <2>3. \A o \in new : KeyLeq(Key(o), t.rel_versions[p])
      BY <2>1, <2>2 DEF LastWriterOfRelation
    <2> QED BY <2>1, <2>2, <2>3 DEF LastWriterOfRelation
  <1> QED BY <1>2, <1>3, <1>4

LEMMA MergeKeepsLinks ==
  ASSUME NEW s \in MergeState, NEW ev \in Log, LinksOK(s)
  PROVE  LinksOK(MergeEvent(s, ev))
  <1> DEFINE d == Dispatch(s, ev)
             t == MergeEvent(s, ev)
  <1>1. d \in MergeState /\ t \in MergeState
    BY DispatchType, MergeType
  <1>2. CASE ev.id \in s.applied
    BY <1>2, SeenAfterMerge
  <1>3. CASE ev.id \notin s.applied /\ Fails(s, ev)
    <2>1. Seen(t) = Seen(s) /\ t.members = s.members /\ t.rel_versions = s.rel_versions
      BY <1>3, SeenAfterMerge, DispatchFrame
    <2> QED BY <2>1 DEF LinksOK, LastWriterOfRelation
  <1>4. CASE ev.id \notin s.applied /\ ~Fails(s, ev)
    <2>1. /\ Seen(t) = Seen(s) \cup {ev}
          /\ t.members = d.members /\ t.rel_versions = d.rel_versions
          /\ ev.change # "malformed"
      BY <1>1, <1>4, SeenAfterMerge, MarkFrame
    <2>2. CASE ev.change \in {"attach", "detach"}
      <3>1. d = MergeRelation(s, ev)
        BY <2>2 DEF Dispatch
      <3> QED BY <1>1, <2>1, <2>2, <3>1, RelationKeepsLinks DEF LinksOK
    <2>3. CASE ev.change \in {"upsert", "delete"}
      <3>1. ev.target \notin Relations
        BY <2>3, TargetOfEvent
      <3>2. t.members = s.members /\ t.rel_versions = s.rel_versions
        BY <2>1, <2>3, DispatchFrame
      <3>3. \A p \in Relations : {o \in Seen(t) : o.target = p} = {o \in Seen(s) : o.target = p}
        BY <2>1, <3>1
      <3> QED BY <3>2, <3>3 DEF LinksOK, LastWriterOfRelation
    <2> QED BY <2>1, <2>2, <2>3, TargetOfEvent
  <1> QED BY <1>2, <1>3, <1>4

-------------------------------------------------------------------------------
(* The cursor.                                                             *)
CursorOK(s) ==
  /\ \A ev \in Seen(s) : KeyLeq(Key(ev), s.cursor)
  /\ \/ Seen(s) = {} /\ s.cursor = NoKey
     \/ \E ev \in Seen(s) : Key(ev) = s.cursor

LEMMA MergeKeepsCursor ==
  ASSUME NEW s \in MergeState, NEW ev \in Log, CursorOK(s)
  PROVE  CursorOK(MergeEvent(s, ev))
  <1> DEFINE t == MergeEvent(s, ev)
  <1>1. CASE ev.id \in s.applied
    BY <1>1, SeenAfterMerge
  <1>2. CASE ev.id \notin s.applied /\ Fails(s, ev)
    BY <1>2, SeenAfterMerge DEF CursorOK
  <1>3. CASE ev.id \notin s.applied /\ ~Fails(s, ev)
    <2>1. Seen(t) = Seen(s) \cup {ev} /\ t.cursor = AdvanceTo(s.cursor, ev)
      BY <1>3, SeenAfterMerge
    <2>2. /\ s.cursor \in Keys /\ Key(ev) \in Keys /\ KeyLess(NoKey, Key(ev))
          /\ \A o \in Seen(s) : Key(o) \in Keys
      BY KeyOfEvent DEF MergeState, Seen
    <2>3. CASE KeyLess(s.cursor, Key(ev))
      <3>1. t.cursor = Key(ev)
        BY <2>1, <2>3 DEF AdvanceTo
      <3>2. \A o \in Seen(s) : KeyLeq(Key(o), Key(ev))
        BY <2>2, <2>3, KeyTransitive DEF CursorOK, KeyLeq
      <3> QED BY <2>1, <3>1, <3>2 DEF CursorOK, KeyLeq
    <2>4. CASE ~KeyLess(s.cursor, Key(ev))
      <3>1. t.cursor = s.cursor /\ KeyLeq(Key(ev), s.cursor) /\ s.cursor # NoKey
        BY <2>1, <2>2, <2>4, KeyTotal DEF AdvanceTo, KeyLeq
      <3> QED BY <2>1, <3>1 DEF CursorOK
    <2> QED BY <2>3, <2>4
  <1> QED BY <1>1, <1>2, <1>3

-------------------------------------------------------------------------------
(* Tombstones and existence of the entities.                               *)
TombstoneOK(s, e) ==
  /\ e \in s.present => s.tombstone[e] = NoKey
  /\ e \notin s.present => s.fields[e] = NoFields /\ s.versions[e] = NoVersions
  /\ s.tombstone[e] # NoKey =>
       \E ev \in Seen(s) : /\ ev.target = e /\ ev.change = "delete"
                           /\ Key(ev) = s.tombstone[e]

(* What an event does to its own entity, and that it leaves others alone.  *)
LEMMA EntityAfterDispatch ==
  ASSUME NEW s \in MergeState, NEW ev \in Log, NEW e \in Entities
  PROVE  LET t == Dispatch(s, ev) IN
         /\ ev.target # e \/ ev.change \notin {"upsert", "delete"}
            \/ (ev.change = "upsert" /\ Covered(s, ev))
            \/ (ev.change = "delete" /\ ~Deletes(s, ev)) =>
               /\ e \in t.present <=> e \in s.present
               /\ t.fields[e] = s.fields[e]
               /\ t.versions[e] = s.versions[e]
               /\ t.tombstone[e] = s.tombstone[e]
         /\ ev.target = e /\ ev.change = "upsert" /\ ~Covered(s, ev) =>
               /\ e \in t.present
               /\ t.fields[e] = MergedFields(s, ev)
               /\ t.versions[e] = MergedVersions(s, ev)
               /\ t.tombstone[e] = NoKey
         /\ ev.target = e /\ ev.change = "delete" /\ Deletes(s, ev) =>
               /\ e \notin t.present
               /\ t.fields[e] = NoFields
               /\ t.versions[e] = NoVersions
               /\ t.tombstone[e] = Key(ev)
  <1>1. CASE ev.change = "upsert"
    <2>1. Dispatch(s, ev) = MergeEntityFields(s, ev) /\ ev.target \in Entities
      BY <1>1, TargetOfEvent DEF Dispatch
    <2>2. CASE Covered(s, ev)
      BY <1>1, <2>1, <2>2 DEF MergeEntityFields
    <2>3. CASE ~Covered(s, ev)
      BY <1>1, <2>1, <2>3 DEF MergeEntityFields, MergeState
    <2> QED BY <2>2, <2>3
  <1>2. CASE ev.change = "delete"
    <2>1. Dispatch(s, ev) = MergeEntityDelete(s, ev) /\ ev.target \in Entities
      BY <1>2, TargetOfEvent DEF Dispatch
    <2>2. CASE Deletes(s, ev)
      BY <1>2, <2>1, <2>2 DEF MergeEntityDelete, MergeState
    <2>3. CASE ~Deletes(s, ev)
      BY <1>2, <2>1, <2>3 DEF MergeEntityDelete
    <2> QED BY <2>2, <2>3
  <1>3. CASE ev.change \notin {"upsert", "delete"}
    BY <1>3, DispatchFrame
  <1> QED BY <1>1, <1>2, <1>3

LEMMA MergeKeepsTombstones ==
  ASSUME NEW s \in MergeState, NEW ev \in Log, NEW e \in Entities, TombstoneOK(s, e)
  PROVE  TombstoneOK(MergeEvent(s, ev), e)
  <1> DEFINE d == Dispatch(s, ev)
             t == MergeEvent(s, ev)
  <1>1. d \in MergeState
    BY DispatchType
  <1>2. CASE ev.id \in s.applied
    BY <1>2, SeenAfterMerge
  <1>3. CASE ev.id \notin s.applied
    <2>1. /\ e \in t.present <=> e \in d.present
          /\ t.fields[e] = d.fields[e]
          /\ t.versions[e] = d.versions[e]
          /\ t.tombstone[e] = d.tombstone[e]
          /\ Seen(s) \subseteq Seen(t)
          /\ ev.change = "delete" => ev \in Seen(t)
      BY <1>1, <1>3, SeenAfterMerge, MarkFrame
    <2>2. CASE ev.target = e /\ ev.change = "upsert" /\ ~Covered(s, ev)
      BY <2>1, <2>2, EntityAfterDispatch DEF TombstoneOK
    <2>3. CASE ev.target = e /\ ev.change = "delete" /\ Deletes(s, ev)
      BY <2>1, <2>3, EntityAfterDispatch DEF TombstoneOK
    <2>4. CASE /\ e \in d.present <=> e \in s.present
               /\ d.fields[e] = s.fields[e]
               /\ d.versions[e] = s.versions[e]
               /\ d.tombstone[e] = s.tombstone[e]
      BY <2>1, <2>4 DEF TombstoneOK
    <2> QED BY <2>2, <2>3, <2>4, EntityAfterDispatch
  <1> QED BY <1>2, <1>3

-------------------------------------------------------------------------------
(* Existence.  The tombstone and the field versions of a plain entity      *)
(* together bound every applied event of it: that is what makes the two    *)
(* checks, each of which looks at only one of them, agree.                 *)
Bounded(s, e, k) == \/ KeyLeq(k, s.tombstone[e])
                    \/ \E f \in Fields : KeyLeq(k, s.versions[e][f])

PresenceOK(s, e) ==
  /\ \A o \in Seen(s) : o.target = e => Bounded(s, e, Key(o))
  /\ \A f \in Fields : s.versions[e][f] # NoKey =>
       \E o \in Seen(s) : /\ o.target = e /\ o.change = "upsert"
                          /\ Key(o) = s.versions[e][f]

LEMMA PlainUpsert ==
  ASSUME NEW s \in MergeState, NEW e \in PlainEntities,
         NEW ev \in Log, ev.target = e, ev.change = "upsert"
  PROVE  /\ ~Fails(s, ev)
         /\ Renewed(s, ev) = {}
         /\ \A f \in Fields : f \in Won(s, ev) <=>
               ev.fields[f] # Absent /\ KeyLess(s.versions[e][f], Key(ev))
         /\ \E f \in Fields : ev.fields[f] # Absent
  BY DEF PlainEntities, Fails, Renewed, Renews, Won, ReadFields, Overwrites, IsProgress

LEMMA PlainUpsertRaisesBound ==
  ASSUME NEW s \in MergeState, NEW e \in PlainEntities,
         NEW ev \in Log, ev.target = e, ev.change = "upsert", ~Covered(s, ev),
         NEW t \in MergeState, t.versions[e] = MergedVersions(s, ev)
  PROVE  /\ \E f \in Fields : KeyLeq(Key(ev), t.versions[e][f])
         /\ \A k \in Keys : Bounded(s, e, k) => Bounded(t, e, k)
  <1>1. /\ e \in Entities /\ Key(ev) \in Keys /\ s.tombstone[e] \in Keys
        /\ \A f \in Fields : s.versions[e][f] \in Keys /\ t.versions[e][f] \in Keys
    BY KeyOfEvent DEF PlainEntities, MergeState
  <1>2. \A f \in Fields : t.versions[e][f] =
          IF ev.fields[f] # Absent /\ KeyLess(s.versions[e][f], Key(ev))
            THEN Key(ev) ELSE s.versions[e][f]
    BY PlainUpsert DEF MergedVersions
  <1>3. PICK f \in Fields : ev.fields[f] # Absent
    BY PlainUpsert
  <1>4. KeyLeq(Key(ev), t.versions[e][f])
    BY <1>1, <1>2, <1>3, KeyTotal DEF KeyLeq
  <1>5. \A g \in Fields : KeyLeq(s.versions[e][g], t.versions[e][g])
    BY <1>1, <1>2 DEF KeyLeq
  <1>6. ASSUME NEW k \in Keys, Bounded(s, e, k)
        PROVE  Bounded(t, e, k)
    <2>1. CASE KeyLeq(k, s.tombstone[e])
      <3>1. KeyLess(s.tombstone[e], Key(ev))
        BY <1>1, KeyTotal DEF Covered, KeyLeq
      <3>2. KeyLeq(k, Key(ev))
        BY <1>1, <2>1, <3>1, KeyTransitive DEF KeyLeq
      <3> QED BY <1>1, <1>4, <3>2, KeyTransitive DEF Bounded
    <2>2. CASE \E g \in Fields : KeyLeq(k, s.versions[e][g])
      BY <1>1, <1>5, <2>2, KeyTransitive DEF Bounded
    <2> QED BY <1>6, <2>1, <2>2 DEF Bounded
  <1> QED BY <1>4, <1>6

LEMMA PlainDeleteRaisesBound ==
  ASSUME NEW s \in MergeState, NEW e \in Entities, NEW ev \in Log, ev.target = e
  PROVE  /\ Deletes(s, ev) =>
              \A k \in Keys : Bounded(s, e, k) => KeyLeq(k, Key(ev))
         /\ ~Deletes(s, ev) => Bounded(s, e, Key(ev))
  <1>1. /\ Key(ev) \in Keys /\ s.tombstone[e] \in Keys
        /\ \A f \in Fields : s.versions[e][f] \in Keys
    BY KeyOfEvent DEF MergeState
  <1>2. ASSUME Deletes(s, ev), NEW k \in Keys, Bounded(s, e, k)
        PROVE  KeyLeq(k, Key(ev))
    BY <1>1, <1>2, KeyTransitive DEF Deletes, Bounded, KeyLeq
  <1>3. ASSUME ~Deletes(s, ev)
        PROVE  Bounded(s, e, Key(ev))
    BY <1>1, <1>3, KeyTotal DEF Deletes, Bounded, KeyLeq
  <1> QED BY <1>2, <1>3

LEMMA MergeKeepsPresence ==
  ASSUME NEW s \in MergeState, NEW ev \in Log, NEW e \in PlainEntities, PresenceOK(s, e)
  PROVE  PresenceOK(MergeEvent(s, ev), e)
  <1> DEFINE d == Dispatch(s, ev)
             t == MergeEvent(s, ev)
  <1>1. /\ d \in MergeState /\ t \in MergeState /\ e \in Entities
        /\ \A o \in Log : Key(o) \in Keys
    BY DispatchType, MergeType, KeyOfEvent DEF PlainEntities
  <1>2. CASE ev.id \in s.applied
    BY <1>2, SeenAfterMerge
  <1>3. CASE ev.id \notin s.applied /\ Fails(s, ev)
    <2>1. t = d /\ Seen(t) = Seen(s) /\ ~(ev.target = e /\ ev.change = "upsert")
          /\ ev.change \in {"upsert", "malformed"}
      BY <1>3, SeenAfterMerge, PlainUpsert
    <2>2. t.versions[e] = s.versions[e] /\ t.tombstone[e] = s.tombstone[e]
      BY <1>1, <2>1, EntityAfterDispatch
    <2> QED BY <2>1, <2>2 DEF PresenceOK, Bounded
  <1>4. CASE ev.id \notin s.applied /\ ~Fails(s, ev)
    <2>1. /\ Seen(t) = Seen(s) \cup {ev} /\ ev.change # "malformed"
          /\ t.versions[e] = d.versions[e] /\ t.tombstone[e] = d.tombstone[e]
      BY <1>1, <1>4, SeenAfterMerge, MarkFrame
    <2>2. CASE ev.target # e
      <3>1. t.versions[e] = s.versions[e] /\ t.tombstone[e] = s.tombstone[e]
        BY <1>1, <2>1, <2>2, EntityAfterDispatch
      <3> QED BY <2>1, <2>2, <3>1 DEF PresenceOK, Bounded
    <2>3. CASE ev.target = e /\ ev.change = "upsert" /\ Covered(s, ev)
      <3>1. t.versions[e] = s.versions[e] /\ t.tombstone[e] = s.tombstone[e]
        BY <1>1, <2>1, <2>3, EntityAfterDispatch
      <3>2. Bounded(t, e, Key(ev))
        BY <2>3, <3>1 DEF Covered, Bounded
      <3> QED BY <2>1, <3>1, <3>2 DEF PresenceOK, Bounded
    <2>4. CASE ev.target = e /\ ev.change = "upsert" /\ ~Covered(s, ev)
      <3>1. t.versions[e] = MergedVersions(s, ev)
        BY <1>1, <2>1, <2>4, EntityAfterDispatch
      <3>2. \A o \in Seen(t) : o.target = e => Bounded(t, e, Key(o))
        BY <1>1, <2>1, <2>4, <3>1, PlainUpsertRaisesBound DEF PresenceOK, Bounded, Seen
      <3>3. \A f \in Fields : t.versions[e][f] \in {s.versions[e][f], Key(ev)}
        BY <2>4, <3>1 DEF MergedVersions
      <3> QED BY <2>1, <2>4, <3>2, <3>3 DEF PresenceOK
    <2>5. CASE ev.target = e /\ ev.change = "delete" /\ Deletes(s, ev)
      <3>1. t.versions[e] = NoVersions /\ t.tombstone[e] = Key(ev)
        BY <1>1, <2>1, <2>5, EntityAfterDispatch
      <3>2. \A o \in Seen(t) : o.target = e => KeyLeq(Key(o), Key(ev))
        BY <1>1, <2>1, <2>5, PlainDeleteRaisesBound DEF PresenceOK, Seen, KeyLeq
      <3> QED BY <3>1, <3>2 DEF PresenceOK, Bounded, NoVersions
    <2>6. CASE ev.target = e /\ ev.change = "delete" /\ ~Deletes(s, ev)
      <3>1. t.versions[e] = s.versions[e] /\ t.tombstone[e] = s.tombstone[e]
        BY <1>1, <2>1, <2>6, EntityAfterDispatch
      <3>2. Bounded(t, e, Key(ev))
        BY <1>1, <2>6, <3>1, PlainDeleteRaisesBound DEF Bounded
      <3> QED BY <2>1, <3>1, <3>2 DEF PresenceOK, Bounded
    <2> QED BY <1>1, <2>1, <2>2, <2>3, <2>4, <2>5, <2>6, TargetOfEvent
  <1> QED BY <1>2, <1>3, <1>4

-------------------------------------------------------------------------------
(* What merge_event refuses is never marked as applied.                    *)
NoMalformed(s) == \A ev \in Seen(s) : ev.change # "malformed"

LEMMA MergeKeepsNoMalformed ==
  ASSUME NEW s \in MergeState, NEW ev \in Log, NoMalformed(s)
  PROVE  NoMalformed(MergeEvent(s, ev))
  BY SeenAfterMerge DEF NoMalformed

-------------------------------------------------------------------------------
(* The inductive invariant.  The last two parts hold the                   *)
(* invariants of entities together (PresenceIsLastWriter is not inductive  *)
(* by itself: it does not say that old events stay below the bound).       *)
StateOK(s) ==
  /\ LinksOK(s)
  /\ NoMalformed(s)
  /\ CursorOK(s)
  /\ \A e \in Entities : TombstoneOK(s, e)
  /\ \A e \in PlainEntities : PresenceOK(s, e)

IInv == TypeOK /\ \A r \in Replicas : StateOK(state[r])

LEMMA EmptyStateOK == EmptyMergeState \in MergeState /\ StateOK(EmptyMergeState)
  <1> DEFINE s == EmptyMergeState
  <1>1. s \in MergeState
    BY NoKeyInKeys, ValueAssumption
    DEF EmptyMergeState, MergeState, NoFields, NoVersions, Values
  <1>2. Seen(s) = {}
    BY DEF EmptyMergeState, Seen
  <1>3. LinksOK(s)
    BY <1>2 DEF EmptyMergeState, LinksOK, LastWriterOfRelation
  <1>4. CursorOK(s)
    BY <1>2 DEF EmptyMergeState, CursorOK
  <1>5. \A e \in Entities : TombstoneOK(s, e)
    BY DEF EmptyMergeState, TombstoneOK
  <1>6. \A e \in PlainEntities : PresenceOK(s, e)
    BY <1>2 DEF EmptyMergeState, PresenceOK, NoVersions, PlainEntities
  <1> QED BY <1>1, <1>2, <1>3, <1>4, <1>5, <1>6 DEF StateOK, NoMalformed

LEMMA MergeKeepsStateOK ==
  ASSUME NEW s \in MergeState, NEW ev \in Log, StateOK(s)
  PROVE  StateOK(MergeEvent(s, ev))
  BY MergeKeepsLinks, MergeKeepsNoMalformed, MergeKeepsCursor, MergeKeepsTombstones, MergeKeepsPresence
  DEF StateOK

(* A step either merges one event of the log at one replica or leaves      *)
(* every state alone.                                                      *)
Merges(r, ev) == state' = [state EXCEPT ![r] = MergeEvent(state[r], ev)]

LEMMA StepMergesOne ==
  ASSUME TypeOK, [Next]_vars
  PROVE  \/ state' = state
         \/ \E r \in Replicas, ev \in Log : Merges(r, ev)
  <1>1. ASSUME NEW r \in Replicas, NEW events \in Batches, Deliver(r, events)
        PROVE  state' = state
    BY <1>1 DEF Deliver
  <1>2. ASSUME NEW r \in Replicas, NEW ev \in batch[r], MergeNext(r, ev) \/ MergeFails(r, ev)
        PROVE  ev \in Log /\ Merges(r, ev)
    BY <1>2 DEF MergeNext, MergeFails, TypeOK, Merges
  <1>3. CASE UNCHANGED vars
    BY <1>3 DEF vars
  <1> QED BY <1>1, <1>2, <1>3 DEF Next

LEMMA TypeStep == TypeOK /\ [Next]_vars => TypeOK'
  <1> SUFFICES ASSUME TypeOK, [Next]_vars PROVE TypeOK'
    OBVIOUS
  <1>1. state' \in [Replicas -> MergeState]
    <2>1. CASE state' = state
      BY <2>1 DEF TypeOK
    <2>2. ASSUME NEW r \in Replicas, NEW ev \in Log, Merges(r, ev)
          PROVE  state' \in [Replicas -> MergeState]
      BY <2>2, MergeType DEF TypeOK, Merges
    <2> QED BY <2>1, <2>2, StepMergesOne
  <1>2. batch' \in [Replicas -> SUBSET Log] /\ failed' \in [Replicas -> SUBSET Log]
    <2>1. ASSUME NEW r \in Replicas, NEW events \in Batches, Deliver(r, events)
          PROVE  batch' \in [Replicas -> SUBSET Log] /\ failed' \in [Replicas -> SUBSET Log]
      BY <2>1, BatchAssumption DEF Deliver, TypeOK
    <2>2. ASSUME NEW r \in Replicas, NEW ev \in batch[r], MergeNext(r, ev)
          PROVE  batch' \in [Replicas -> SUBSET Log] /\ failed' \in [Replicas -> SUBSET Log]
      BY <2>2 DEF MergeNext, TypeOK
    <2>3. ASSUME NEW r \in Replicas, NEW ev \in batch[r], MergeFails(r, ev)
          PROVE  batch' \in [Replicas -> SUBSET Log] /\ failed' \in [Replicas -> SUBSET Log]
      BY <2>3 DEF MergeFails, TypeOK
    <2>4. CASE UNCHANGED vars
      BY <2>4 DEF vars, TypeOK
    <2> QED BY <2>1, <2>2, <2>3, <2>4 DEF Next
  <1> QED BY <1>1, <1>2 DEF TypeOK

LEMMA InitIInv == Init => IInv
  BY EmptyStateOK DEF Init, IInv, TypeOK

LEMMA StepIInv == IInv /\ [Next]_vars => IInv'
  <1> SUFFICES ASSUME IInv, [Next]_vars PROVE IInv'
    OBVIOUS
  <1>1. TypeOK'
    BY TypeStep DEF IInv
  <1>2. ASSUME NEW r \in Replicas PROVE StateOK(state'[r])
    <2>1. CASE state' = state
      BY <2>1 DEF IInv
    <2>2. ASSUME NEW q \in Replicas, NEW ev \in Log, Merges(q, ev)
          PROVE  StateOK(state'[r])
      <3>1. state[q] \in MergeState /\ StateOK(state[q]) /\ StateOK(state[r])
        BY DEF IInv, TypeOK
      <3>2. state'[r] = IF r = q THEN MergeEvent(state[q], ev) ELSE state[r]
        BY <2>2 DEF Merges, IInv, TypeOK
      <3> QED BY <3>1, <3>2, MergeKeepsStateOK
    <2> QED BY <2>1, <2>2, StepMergesOne DEF IInv
  <1> QED BY <1>1, <1>2 DEF IInv

(* The inductive invariant holds of every behaviour of merge.rs.           *)
THEOREM Invariance == Spec => []IInv
  BY InitIInv, StepIInv, PTL DEF Spec

-------------------------------------------------------------------------------
(* Every variable keeps its type: merge_event never leaves a key, a field  *)
(* or a tombstone that is not one.                                         *)
THEOREM TypeCorrect == Spec => []TypeOK
  <1>1. IInv => TypeOK
    BY DEF IInv
  <1> QED BY <1>1, Invariance, PTL

(* A link is what its newest attach or detach says, in any order of        *)
(* delivery, with any duplicates and any failures (merge_relation).        *)
THEOREM LinksCorrect == Spec => []RelationsAreLastWriter
  <1>1. IInv => RelationsAreLastWriter
    BY DEF IInv, StateOK, LinksOK, RelationsAreLastWriter, Applied, Seen
  <1> QED BY <1>1, Invariance, PTL

(* The cursor is the key of the newest applied event (advance_to).         *)
THEOREM CursorCorrect == Spec => []CursorIsNewestApplied
  <1>1. IInv => CursorIsNewestApplied
    BY DEF IInv, StateOK, CursorOK, CursorIsNewestApplied, Applied, Seen
  <1> QED BY <1>1, Invariance, PTL

(* A tombstone and its entity exclude each other (merge_entity_fields,     *)
(* merge_entity_delete).                                                   *)
THEOREM TombstonesCorrect == Spec => []TombstoneExcludesEntity
  <1>1. IInv => TombstoneExcludesEntity
    BY DEF IInv, StateOK, TombstoneOK, TombstoneExcludesEntity, Applied, Seen
  <1> QED BY <1>1, Invariance, PTL

(* The newest event of a plain entity decides whether it exists.           *)
LEMMA PresenceFromIInv ==
  ASSUME NEW s \in MergeState, NEW e \in PlainEntities,
         TombstoneOK(s, e), PresenceOK(s, e),
         NEW ev \in Seen(s), ev.target = e,
         \A o \in Seen(s) : o.target = e => KeyLeq(Key(o), Key(ev))
  PROVE  e \in s.present <=> ev.change = "upsert"
  <1>1. /\ e \in Entities /\ ev \in Log /\ Key(ev) \in Keys /\ KeyLess(NoKey, Key(ev))
        /\ s.tombstone[e] \in Keys
        /\ \A f \in Fields : s.versions[e][f] \in Keys
        /\ \A o \in Seen(s) : o \in Log /\ Key(o) \in Keys
    BY KeyOfEvent DEF Seen, MergeState, PlainEntities
  <1>2. CASE KeyLeq(Key(ev), s.tombstone[e])
    <2>1. s.tombstone[e] # NoKey
      BY <1>1, <1>2, KeyTotal DEF KeyLeq
    <2>2. PICK o \in Seen(s) : /\ o.target = e /\ o.change = "delete"
                               /\ Key(o) = s.tombstone[e]
      BY <2>1 DEF TombstoneOK
    <2>3. Key(o) = Key(ev)
      BY <1>1, <1>2, <2>2, KeyTotal DEF KeyLeq
    <2>4. ev.change = "delete"
      BY <1>1, <2>2, <2>3, KeyUnique
    <2> QED BY <2>1, <2>4 DEF TombstoneOK
  <1>3. ASSUME NEW f \in Fields, KeyLeq(Key(ev), s.versions[e][f])
        PROVE  e \in s.present <=> ev.change = "upsert"
    <2>1. s.versions[e][f] # NoKey
      BY <1>1, <1>3, KeyTotal DEF KeyLeq
    <2>2. PICK o \in Seen(s) : /\ o.target = e /\ o.change = "upsert"
                               /\ Key(o) = s.versions[e][f]
      BY <2>1 DEF PresenceOK
    <2>3. Key(o) = Key(ev)
      BY <1>1, <1>3, <2>2, KeyTotal DEF KeyLeq
    <2>4. ev.change = "upsert"
      BY <1>1, <2>2, <2>3, KeyUnique
    <2>5. e \in s.present
      BY <2>1 DEF TombstoneOK, NoVersions
    <2> QED BY <2>4, <2>5
  <1> QED BY <1>2, <1>3 DEF PresenceOK, Bounded

(* In any order of delivery a plain entity exists exactly when its newest  *)
(* applied event is an upsert.                                             *)
THEOREM PresenceCorrect == Spec => []PresenceIsLastWriter
  <1>1. IInv => PresenceIsLastWriter
    <2> SUFFICES ASSUME IInv, NEW r \in Replicas, NEW e \in PlainEntities,
                        NEW ev \in Applied(r), ev.target = e,
                        \A o \in Applied(r) : o.target = e => KeyLeq(Key(o), Key(ev))
                 PROVE  e \in state[r].present <=> ev.change = "upsert"
      BY DEF PresenceIsLastWriter
    <2>1. Applied(r) = Seen(state[r]) /\ state[r] \in MergeState /\ e \in Entities
      BY DEF Applied, Seen, IInv, TypeOK, PlainEntities
    <2>2. TombstoneOK(state[r], e) /\ PresenceOK(state[r], e)
      BY <2>1 DEF IInv, StateOK
    <2> QED BY <2>1, <2>2, PresenceFromIInv
  <1> QED BY <1>1, Invariance, PTL

-------------------------------------------------------------------------------
(* The links refine LastWriterSet.  The last-writer invariant makes the    *)
(* links a function of the link events applied; a step that applies a link *)
(* event is Learn, every other step is a stutter.                          *)
(* LastWriterSet orders its events with the same operators.                *)
LEMMA SameKeys ==
  ASSUME NEW events
  PROVE  LW!View(events) =
           {p \in Relations :
              \E ev \in events : /\ ev.target = p /\ ev.change = "attach"
                                 /\ \A o \in events : o.target = p => KeyLeq(Key(o), Key(ev))}
  BY DEF LW!View, LW!KeyLeq, LW!KeyLess, LW!Key, KeyLeq, KeyLess, Key

LinkEvents(s) == {ev \in Seen(s) : ev.change \in {"attach", "detach"}}

LEMMA LinksAreView ==
  ASSUME NEW s \in MergeState, LinksOK(s), NoMalformed(s)
  PROVE  s.members = LW!View(LinkEvents(s))
  <1>1. \A ev \in Seen(s) : ev \in Log /\ Key(ev) \in Keys
    BY KeyOfEvent DEF Seen
  <1>2. \A ev \in Seen(s) : ev.target \in Relations => ev \in LinkEvents(s)
    BY <1>1, TargetOfEvent DEF LinkEvents, NoMalformed
  <1>3. s.members \subseteq Relations
    BY DEF MergeState
  <1>4. ASSUME NEW p \in s.members PROVE p \in LW!View(LinkEvents(s))
    <2>1. PICK ev \in Seen(s) : /\ ev.target = p /\ ev.change = "attach"
                                /\ Key(ev) = s.rel_versions[p]
      BY <1>3, <1>4 DEF LinksOK, LastWriterOfRelation
    <2>2. \A o \in LinkEvents(s) : o.target = p => KeyLeq(Key(o), Key(ev))
      BY <1>3, <2>1 DEF LinksOK, LastWriterOfRelation, LinkEvents
    <2> QED BY <1>3, <2>1, <2>2, SameKeys DEF LinkEvents
  <1>5. ASSUME NEW p \in LW!View(LinkEvents(s)) PROVE p \in s.members
    <2>1. PICK ev \in LinkEvents(s) :
            /\ ev.target = p /\ ev.change = "attach"
            /\ \A o \in LinkEvents(s) : o.target = p => KeyLeq(Key(o), Key(ev))
      BY SameKeys
    <2>2. p \in Relations /\ ev \in Seen(s)
      BY SameKeys DEF LinkEvents
    <2>3. PICK o \in Seen(s) : /\ o.target = p
                               /\ Key(o) = s.rel_versions[p]
                               /\ p \in s.members <=> o.change = "attach"
      BY <2>1, <2>2 DEF LinksOK, LastWriterOfRelation
    <2>4. KeyLeq(Key(ev), Key(o))
      BY <2>1, <2>2, <2>3 DEF LinksOK, LastWriterOfRelation
    <2>5. Key(o) = Key(ev)
      BY <1>1, <1>2, <2>1, <2>2, <2>3, <2>4, KeyTotal DEF KeyLeq
    <2> QED BY <1>1, <2>1, <2>2, <2>3, <2>5, KeyUnique
  <1> QED BY <1>4, <1>5

LEMMA RefinementInit == Init => LW!LWInit
  BY DEF Init, LW!LWInit, Applied, EmptyMergeState

LEMMA RefinementStep ==
  ASSUME IInv, [Next]_vars
  PROVE  [LW!LWNext]_(LW!lwVars)
  <1> DEFINE seen == [r \in Replicas |->
                        {ev \in Applied(r) : ev.change \in {"attach", "detach"}}]
             links == [r \in Replicas |-> state[r].members]
  <1>0. IInv'
    BY StepIInv
  <1>1. CASE state' = state
    BY <1>1 DEF LW!lwVars, Applied
  <1>2. ASSUME NEW r \in Replicas, NEW ev \in Log, Merges(r, ev)
        PROVE  LW!LWNext \/ UNCHANGED LW!lwVars
    <2> DEFINE s == state[r]
               t == MergeEvent(s, ev)
    <2>1. /\ s \in MergeState /\ StateOK(s) /\ t \in MergeState /\ StateOK(t)
          /\ state' = [state EXCEPT ![r] = t]
          /\ state'[r] = t
          /\ \A q \in Replicas \ {r} : state'[q] = state[q]
      BY <1>0, <1>2, MergeType, MergeKeepsStateOK DEF IInv, TypeOK, Merges
    <2>2. /\ seen = [q \in Replicas |-> LinkEvents(state[q])]
          /\ seen' = [q \in Replicas |-> LinkEvents(state'[q])]
          /\ links = [q \in Replicas |-> state[q].members]
          /\ links' = [q \in Replicas |-> state'[q].members]
      BY DEF Applied, LinkEvents, Seen
    <2>3. t.members = LW!View(LinkEvents(t)) /\ s.members = LW!View(LinkEvents(s))
      BY <2>1, LinksAreView DEF StateOK
    <2>4. CASE LinkEvents(t) = LinkEvents(s)
      <3>1. seen' = seen /\ links' = links
        BY <2>1, <2>2, <2>3, <2>4
      <3> QED BY <3>1 DEF LW!lwVars
    <2>5. CASE LinkEvents(t) # LinkEvents(s)
      <3>1. /\ LinkEvents(t) = LinkEvents(s) \cup {ev}
            /\ ev \notin LinkEvents(s)
            /\ ev.change \in {"attach", "detach"}
        BY <2>1, <2>5, SeenAfterMerge DEF LinkEvents
      <3> HIDE DEF seen, links
      <3>2. seen' = [seen EXCEPT ![r] = seen[r] \cup {ev}]
        <4>1. seen[r] = LinkEvents(s)
          BY <2>2
        <4>2. \A q \in Replicas : LinkEvents(state'[q]) =
                IF q = r THEN LinkEvents(s) \cup {ev} ELSE LinkEvents(state[q])
          BY <2>1, <3>1
        <4> QED BY <2>2, <4>1, <4>2
      <3>3. links' = [links EXCEPT ![r] = LW!View(seen[r] \cup {ev})]
        BY <2>1, <2>2, <2>3, <3>1
      <3>4. ev \in LW!Writes /\ ev \notin seen[r]
        BY <2>2, <3>1 DEF LW!Writes
      <3>5. LW!Learn(r, ev)
        BY <3>2, <3>3, <3>4 DEF LW!Learn, seen, links
      <3> QED BY <3>4, <3>5 DEF LW!LWNext
    <2> QED BY <2>4, <2>5
  <1> QED BY <1>1, <1>2, StepMergesOne DEF IInv

(* merge_relation implements the last-writer set of links, whatever the    *)
(* log, the batches and the replicas.                                      *)
THEOREM LinksRefineLastWriterSet == Spec => ImplementsLastWriterSet
  BY RefinementInit, RefinementStep, Invariance, PTL
  DEF Spec, ImplementsLastWriterSet, LW!LWSpec

(* Replicas that applied the same events have the same links and the       *)
(* same cursor, in whatever orders they merged.                            *)
THEOREM OrderInsensitive ==
  Spec => [](\A q, r \in Replicas :
               state[q].applied = state[r].applied =>
                 /\ state[q].members = state[r].members
                 /\ state[q].cursor = state[r].cursor)
  <1>1. ASSUME IInv, NEW q \in Replicas, NEW r \in Replicas,
               state[q].applied = state[r].applied
        PROVE  /\ state[q].members = state[r].members
               /\ state[q].cursor = state[r].cursor
    <2>1. /\ state[q] \in MergeState /\ StateOK(state[q])
          /\ state[r] \in MergeState /\ StateOK(state[r])
      BY <1>1 DEF IInv, TypeOK
    <2>2. Seen(state[q]) = Seen(state[r]) /\ LinkEvents(state[q]) = LinkEvents(state[r])
      BY <1>1 DEF Seen, LinkEvents
    <2>3. state[q].members = state[r].members
      BY <2>1, <2>2, LinksAreView DEF StateOK
    <2>4. state[q].cursor \in Keys /\ state[r].cursor \in Keys
      BY <2>1 DEF MergeState
    <2>5. state[q].cursor = state[r].cursor
      BY <2>1, <2>2, <2>4, KeyTotal DEF StateOK, CursorOK, KeyLeq
    <2> QED BY <2>3, <2>5
  <1>2. IInv => \A q, r \in Replicas :
               state[q].applied = state[r].applied =>
                 /\ state[q].members = state[r].members
                 /\ state[q].cursor = state[r].cursor
    BY <1>1
  <1> QED BY <1>2, Invariance, PTL

-------------------------------------------------------------------------------
(* Fields.  What a failed event had changed stays, so the values of fields *)
(* depend on the failed events too: merges says what a state and the set   *)
(* of failed events become when an event is merged.                        *)
FailedAfter(s, errs, ev) ==
  IF ev.id \notin s.applied /\ Fails(s, ev) THEN errs \cup {ev} ELSE errs

WritersOf(s, errs, e, f) ==
  {ev \in Log : /\ ev.target = e /\ ev.change = "upsert"
                /\ ev.fields[f] # Absent
                /\ \/ ev.id \in s.applied
                   \/ ev \in errs /\ f \in EarlyFields}

(* Who wrote a field after a merge: those of before, and the event if it   *)
(* changes the entity and its loop got to the field.                       *)
LEMMA WritersAfterMerge ==
  ASSUME NEW s \in MergeState, NEW ev \in Log, NEW errs \in SUBSET Log,
         NEW e \in Entities, NEW f \in Fields,
         NEW t, t = MergeEvent(s, ev), NEW more, more = FailedAfter(s, errs, ev)
  PROVE  /\ ev.id \in s.applied => t = s /\ more = errs
         /\ ev.id \notin s.applied =>
              WritersOf(t, more, e, f) =
                IF ev.target = e /\ ev.change = "upsert" /\ ev.fields[f] # Absent
                   /\ (Fails(s, ev) => f \in EarlyFields)
                  THEN WritersOf(s, errs, e, f) \cup {ev}
                  ELSE WritersOf(s, errs, e, f)
<1>1. CASE ev.id \in s.applied
  BY <1>1, SeenAfterMerge DEF FailedAfter
<1>2. CASE ev.id \notin s.applied /\ Fails(s, ev)
  <2>1. Seen(t) = Seen(s) /\ more = errs \cup {ev}
    BY <1>2, SeenAfterMerge DEF FailedAfter
  <2>2. \A o \in Log : o.id \in t.applied <=> o.id \in s.applied
    BY <2>1 DEF Seen
  <2> QED
    BY <1>2, <2>1, <2>2 DEF WritersOf
<1>3. CASE ev.id \notin s.applied /\ ~Fails(s, ev)
  <2>1. Seen(t) = Seen(s) \cup {ev} /\ more = errs
    BY <1>3, SeenAfterMerge DEF FailedAfter
  <2>2. \A o \in Log : o.id \in t.applied <=> o.id \in s.applied \/ o = ev
    BY <2>1 DEF Seen
  <2> QED
    BY <1>3, <2>1, <2>2 DEF WritersOf
<1> QED
  BY <1>1, <1>2, <1>3

(* The loop of merge_entity_fields gets to a field that is there, unless   *)
(* a bad reading_progress comes first and the merge fails.                 *)
LEMMA FieldIsRead ==
  ASSUME NEW s \in MergeState, NEW ev \in Log, NEW f \in Fields,
         ev.change = "upsert", ~Covered(s, ev)
  PROVE  f \in ReadFields(ev) <=>
           ev.fields[f] # Absent /\ (Fails(s, ev) => f \in EarlyFields)
  BY DEF ReadFields, IsProgress, Fails

(* What the fields of an entity are after a merge.                         *)
LEMMA FieldsAfterMerge ==
  ASSUME NEW s \in MergeState, NEW ev \in Log, NEW e \in Entities, ev.id \notin s.applied,
         NEW t, t = MergeEvent(s, ev)
  PROVE  /\ ev.target # e \/ ev.change \notin {"upsert", "delete"}
            \/ (ev.change = "upsert" /\ Covered(s, ev))
            \/ (ev.change = "delete" /\ ~Deletes(s, ev)) =>
              t.fields[e] = s.fields[e] /\ t.versions[e] = s.versions[e]
         /\ ev.target = e /\ ev.change = "upsert" /\ ~Covered(s, ev) =>
              t.fields[e] = MergedFields(s, ev) /\ t.versions[e] = MergedVersions(s, ev)
         /\ ev.target = e /\ ev.change = "delete" /\ Deletes(s, ev) =>
              t.fields[e] = NoFields /\ t.versions[e] = NoVersions
<1> DEFINE d == Dispatch(s, ev)
<1>1. t.fields = d.fields /\ t.versions = d.versions
  BY DispatchType, MarkFrame, SeenAfterMerge
<1> QED
  BY <1>1, EntityAfterDispatch

LEMMA MergedField ==
  ASSUME NEW s \in MergeState, NEW ev \in Log, NEW e \in Entities, NEW f \in Fields,
         ev.id \notin s.applied, ev.target = e, ev.change = "upsert", ~Covered(s, ev),
         NEW t, t = MergeEvent(s, ev)
  PROVE  /\ t.fields[e][f] = IF f \in Won(s, ev) THEN ev.fields[f] ELSE s.fields[e][f]
         /\ t.versions[e][f] = IF f \in Won(s, ev) \cup Renewed(s, ev)
                                 THEN Key(ev) ELSE s.versions[e][f]
<1>1. t.fields[e] = MergedFields(s, ev) /\ t.versions[e] = MergedVersions(s, ev)
  BY FieldsAfterMerge
<1>2. /\ MergedFields(s, ev)[f] = IF f \in Won(s, ev) THEN ev.fields[f] ELSE s.fields[ev.target][f]
      /\ MergedVersions(s, ev)[f] = IF f \in Won(s, ev) \cup Renewed(s, ev)
                                      THEN Key(ev) ELSE s.versions[ev.target][f]
  BY DEF MergedFields, MergedVersions
<1> QED
  BY <1>1, <1>2

(* A value and its version are those of one upsert, or of none.            *)
ValueOK(s, errs, e, f) ==
  \/ /\ s.fields[e][f] = Absent
     /\ s.versions[e][f] = NoKey
  \/ \E ev \in WritersOf(s, errs, e, f) : /\ Key(ev) = s.versions[e][f]
                                          /\ ev.fields[f] = s.fields[e][f]

LEMMA MergeKeepsValues ==
  ASSUME NEW s \in MergeState, NEW ev \in Log, NEW errs \in SUBSET Log,
         NEW e \in Entities, NEW f \in Fields, ValueOK(s, errs, e, f),
         NEW t, t = MergeEvent(s, ev), NEW more, more = FailedAfter(s, errs, ev)
  PROVE  ValueOK(t, more, e, f)
<1>1. CASE ev.id \in s.applied
  BY <1>1, WritersAfterMerge
<1>2. CASE ev.id \notin s.applied
  <2>1. WritersOf(s, errs, e, f) \subseteq WritersOf(t, more, e, f)
    BY <1>2, WritersAfterMerge
  <2>2. CASE t.fields[e] = s.fields[e] /\ t.versions[e] = s.versions[e]
    <3> QED
      BY <2>1, <2>2 DEF ValueOK
  <2>3. CASE t.fields[e] = NoFields /\ t.versions[e] = NoVersions
    <3> QED
      BY <2>3 DEF ValueOK, NoFields, NoVersions
  <2>4. CASE ev.target = e /\ ev.change = "upsert" /\ ~Covered(s, ev)
    <3>1. /\ t.fields[e][f] = IF f \in Won(s, ev) THEN ev.fields[f] ELSE s.fields[e][f]
          /\ t.versions[e][f] = IF f \in Won(s, ev) \cup Renewed(s, ev)
                                  THEN Key(ev) ELSE s.versions[e][f]
      BY <1>2, <2>4, MergedField
    <3>2. CASE f \in Won(s, ev) \cup Renewed(s, ev)
      <4>1. f \in ReadFields(ev) /\ t.versions[e][f] = Key(ev)
        BY <3>1, <3>2 DEF Won, Renewed
      <4>2. t.fields[e][f] = ev.fields[f]
        BY <2>4, <3>1, <3>2 DEF Renewed, Renews
      <4>3. ev \in WritersOf(t, more, e, f)
        BY <1>2, <2>4, <4>1, FieldIsRead, WritersAfterMerge
      <4> QED
        BY <4>1, <4>2, <4>3 DEF ValueOK
    <3>3. CASE f \notin Won(s, ev) \cup Renewed(s, ev)
      <4> QED
        BY <2>1, <3>1, <3>3 DEF ValueOK
    <3> QED
      BY <3>2, <3>3
  <2> QED
    BY <1>2, <2>2, <2>3, <2>4, FieldsAfterMerge
<1> QED
  BY <1>1, <1>2

(* While an entity is undeleted nothing it was given is forgotten: its     *)
(* fields have the newest value, its progress the furthest.  A bad         *)
(* reading_progress is applied only where a delete covers it.              *)
NoDeletes(s, e) == \A ev \in Seen(s) : ev.target = e => ev.change # "delete"

NewestOK(s, errs, e, f) ==
  LET writers == WritersOf(s, errs, e, f)
  IN  /\ \A ev \in writers : KeyLeq(Key(ev), s.versions[e][f])
      /\ \/ /\ writers = {}
            /\ s.fields[e][f] = Absent
            /\ s.versions[e][f] = NoKey
         \/ \E ev \in writers : /\ Key(ev) = s.versions[e][f]
                                /\ ev.fields[f] = s.fields[e][f]

FurthestOK(s, errs, e) ==
  LET writers == WritersOf(s, errs, e, Progress)
      value   == s.fields[e][Progress]
      version == s.versions[e][Progress]
  IN  /\ \A ev \in writers : /\ ev.fields[Progress] \in Nat
                             /\ ev.fields[Progress] <= value
                             /\ ev.fields[Progress] = value => KeyLeq(Key(ev), version)
      /\ \/ writers = {} /\ value = Absent /\ version = NoKey
         \/ \E ev \in writers : Key(ev) = version /\ ev.fields[Progress] = value

FieldOK(s, errs, e, f) ==
  IF IsProgress(e, f) THEN FurthestOK(s, errs, e) ELSE NewestOK(s, errs, e, f)

LEMMA UpsertKeepsNewest ==
  ASSUME NEW s \in MergeState, NEW ev \in Log, NEW errs \in SUBSET Log,
         NEW e \in Entities, NEW f \in Fields, ~IsProgress(e, f), NewestOK(s, errs, e, f),
         ev.id \notin s.applied, ev.target = e, ev.change = "upsert", ~Covered(s, ev),
         NEW t, t = MergeEvent(s, ev), NEW more, more = FailedAfter(s, errs, ev)
  PROVE  NewestOK(t, more, e, f)
<1> DEFINE old == WritersOf(s, errs, e, f)
           new == WritersOf(t, more, e, f)
<1>1. /\ Key(ev) \in Keys /\ KeyLess(NoKey, Key(ev)) /\ s.versions[e][f] \in Keys
      /\ \A o \in old : Key(o) \in Keys
  BY KeyOfEvent DEF MergeState, WritersOf
<1>2. Renewed(s, ev) = Renewed(s, ev) \ {f} /\ (f \in Won(s, ev) <=>
        f \in ReadFields(ev) /\ KeyLess(s.versions[e][f], Key(ev)))
  BY DEF Renewed, Renews, Won, Overwrites
<1>3. new = IF f \in ReadFields(ev) THEN old \cup {ev} ELSE old
  BY FieldIsRead, WritersAfterMerge
<1>4. CASE f \in Won(s, ev)
  <2>1. t.fields[e][f] = ev.fields[f] /\ t.versions[e][f] = Key(ev)
    BY <1>4, MergedField
  <2>2. \A o \in old : KeyLeq(Key(o), Key(ev))
    BY <1>1, <1>2, <1>4, KeyTransitive DEF NewestOK, KeyLeq
  <2>3. new = old \cup {ev}
    BY <1>2, <1>3, <1>4
  <2> QED
    BY <2>1, <2>2, <2>3 DEF NewestOK, KeyLeq
<1>5. CASE f \notin Won(s, ev)
  <2>1. t.fields[e][f] = s.fields[e][f] /\ t.versions[e][f] = s.versions[e][f]
    BY <1>2, <1>5, MergedField
  <2>2. CASE f \in ReadFields(ev)
    <3>1. KeyLeq(Key(ev), s.versions[e][f]) /\ s.versions[e][f] # NoKey
      BY <1>1, <1>2, <1>5, <2>2, KeyTotal DEF KeyLeq
    <3> QED
      BY <1>3, <2>1, <2>2, <3>1 DEF NewestOK
  <2>3. CASE f \notin ReadFields(ev)
    BY <1>3, <2>1, <2>3 DEF NewestOK
  <2> QED
    BY <2>2, <2>3
<1> QED
  BY <1>4, <1>5

LEMMA UpsertKeepsFurthest ==
  ASSUME NEW s \in MergeState, NEW ev \in Log, NEW errs \in SUBSET Log,
         NEW e \in UserStates, FurthestOK(s, errs, e),
         ev.id \notin s.applied, ev.target = e, ev.change = "upsert", ~Covered(s, ev),
         NEW t, t = MergeEvent(s, ev), NEW more, more = FailedAfter(s, errs, ev)
  PROVE  FurthestOK(t, more, e)
<1> DEFINE old == WritersOf(s, errs, e, Progress)
           new == WritersOf(t, more, e, Progress)
           x   == s.fields[e][Progress]
           y   == ev.fields[Progress]
           v   == s.versions[e][Progress]
<1>0. e \in Entities /\ Progress \in Fields /\ Progress \notin EarlyFields
  BY EntityAssumption, FieldAssumption DEF Fields
<1>1. /\ Key(ev) \in Keys /\ KeyLess(NoKey, Key(ev)) /\ v \in Keys
      /\ \A o \in old : Key(o) \in Keys
  BY <1>0, KeyOfEvent DEF MergeState, WritersOf
<1>2. x \in Nat \cup {Absent} /\ y \in Nat \cup {Absent, Invalid}
  BY <1>0, KeyOfEvent DEF MergeState, Values, Event
<1>3. new = IF Progress \in ReadFields(ev) THEN old \cup {ev} ELSE old
  BY <1>0, FieldIsRead, WritersAfterMerge
<1>4. Progress \in ReadFields(ev) => y \in Nat
  BY <1>0, <1>2 DEF ReadFields, IsProgress
<1>5. /\ Progress \in Won(s, ev) <=> Progress \in ReadFields(ev) /\ (x = Absent \/ x < y)
      /\ Progress \in Renewed(s, ev) <=> Progress \in ReadFields(ev) /\ x = y /\ KeyLess(v, Key(ev))
  BY <1>0 DEF Won, Renewed, Overwrites, Renews, IsProgress
<1>6. /\ t.fields[e][Progress] = IF Progress \in Won(s, ev) THEN y ELSE x
      /\ t.versions[e][Progress] = IF Progress \in Won(s, ev) \cup Renewed(s, ev)
                                     THEN Key(ev) ELSE v
  BY <1>0, MergedField
<1>7. /\ \A o \in old : /\ o.fields[Progress] \in Nat /\ o.fields[Progress] <= x
                        /\ o.fields[Progress] = x => KeyLeq(Key(o), v)
      /\ \/ old = {} /\ x = Absent /\ v = NoKey
         \/ \E o \in old : Key(o) = v /\ o.fields[Progress] = x
  BY DEF FurthestOK
<1>8. old # {} => x \in Nat
  BY <1>7
<1>9. ASSUME NEW value, NEW version,
             t.fields[e][Progress] = value, t.versions[e][Progress] = version,
             \A o \in new : /\ o.fields[Progress] \in Nat /\ o.fields[Progress] <= value
                            /\ o.fields[Progress] = value => KeyLeq(Key(o), version),
             \/ new = {} /\ value = Absent /\ version = NoKey
             \/ \E o \in new : Key(o) = version /\ o.fields[Progress] = value
      PROVE  FurthestOK(t, more, e)
  BY <1>9 DEF FurthestOK
<1> HIDE DEF old, new, x, y, v
<1>10. CASE Progress \notin ReadFields(ev)
  BY <1>3, <1>5, <1>6, <1>7, <1>9, <1>10
<1>11. CASE Progress \in ReadFields(ev) /\ (x = Absent \/ x < y)
  <2>1. \A o \in old : o.fields[Progress] < y
    <3>1. y \in Nat /\ (old # {} => x \in Nat /\ x # Absent)
      BY <1>4, <1>8, <1>11, ValueAssumption
    <3> QED
      BY <1>7, <1>11, <3>1
  <2>2. \A o \in old : o.fields[Progress] \in Nat /\ o.fields[Progress] <= y
                       /\ o.fields[Progress] # y
    BY <1>4, <1>7, <1>11, <2>1
  <2>3. new = old \cup {ev} /\ ev.fields[Progress] = y /\ y \in Nat /\ y <= y
    BY <1>3, <1>4, <1>11 DEF y
  <2> QED
    BY <1>5, <1>6, <1>9, <1>11, <2>2, <2>3 DEF KeyLeq
<1>12. CASE Progress \in ReadFields(ev) /\ ~(x = Absent \/ x < y)
  <2>1. x \in Nat /\ y \in Nat /\ y <= x /\ new = old \cup {ev} /\ ev.fields[Progress] = y
    BY <1>2, <1>3, <1>4, <1>12 DEF y
  <2>2. Progress \notin Won(s, ev) /\ t.fields[e][Progress] = x
    BY <1>5, <1>6, <1>12
  <2>3. CASE x = y /\ KeyLess(v, Key(ev))
    <3>1. t.versions[e][Progress] = Key(ev)
      BY <1>5, <1>6, <1>12, <2>3
    <3>2. \A o \in old : o.fields[Progress] = x => KeyLeq(Key(o), Key(ev))
      BY <1>1, <1>7, <2>3, KeyTransitive DEF KeyLeq
    <3> QED
      BY <1>7, <1>9, <2>1, <2>2, <2>3, <3>1, <3>2 DEF KeyLeq
  <2>4. CASE ~(x = y /\ KeyLess(v, Key(ev)))
    <3>1. t.versions[e][Progress] = v
      BY <1>5, <1>6, <2>2, <2>4
    <3>2. y = x => KeyLeq(Key(ev), v)
      BY <1>1, <2>4, KeyTotal DEF KeyLeq
    <3>3. old # {}
      BY <1>7, <1>12
    <3> QED
      BY <1>7, <1>9, <2>1, <2>2, <3>1, <3>2, <3>3
  <2> QED
    BY <2>3, <2>4
<1> QED
  BY <1>10, <1>11, <1>12

LEMMA MergeKeepsFields ==
  ASSUME NEW s \in MergeState, NEW ev \in Log, NEW errs \in SUBSET Log,
         NEW e \in Entities, TombstoneOK(s, e),
         NoDeletes(s, e) => \A f \in Fields : FieldOK(s, errs, e, f),
         NEW t, t = MergeEvent(s, ev), NEW more, more = FailedAfter(s, errs, ev),
         NoDeletes(t, e), NEW f \in Fields
  PROVE  FieldOK(t, more, e, f)
<1>1. CASE ev.id \in s.applied
  BY <1>1, WritersAfterMerge
<1>2. CASE ev.id \notin s.applied
  <2>1. /\ Seen(s) \subseteq Seen(t)
        /\ ev.change = "delete" => ev \in Seen(t)
    BY <1>2, SeenAfterMerge
  <2>2. NoDeletes(s, e) /\ ~(ev.target = e /\ ev.change = "delete")
    BY <2>1 DEF NoDeletes
  <2>3. FieldOK(s, errs, e, f) /\ s.tombstone[e] = NoKey
    BY <2>2 DEF TombstoneOK, NoDeletes
  <2>4. CASE ev.target = e /\ ev.change = "upsert"
    <3>1. ~Covered(s, ev)
      BY <2>3, <2>4, KeyOfEvent, KeyTotal, NoKeyInKeys DEF Covered, KeyLeq
    <3>2. CASE IsProgress(e, f)
      <4>1. e \in UserStates /\ FurthestOK(s, errs, e)
        BY <2>3, <3>2 DEF FieldOK, IsProgress
      <4>2. FurthestOK(t, more, e)
        BY <1>2, <2>4, <3>1, <4>1, UpsertKeepsFurthest
      <4> QED
        BY <3>2, <4>2 DEF FieldOK
    <3>3. CASE ~IsProgress(e, f)
      <4>1. NewestOK(s, errs, e, f)
        BY <2>3, <3>3 DEF FieldOK
      <4>2. NewestOK(t, more, e, f)
        BY <1>2, <2>4, <3>1, <3>3, <4>1, UpsertKeepsNewest
      <4> QED
        BY <3>3, <4>2 DEF FieldOK
    <3> QED
      BY <3>2, <3>3
  <2>5. CASE ~(ev.target = e /\ ev.change = "upsert")
    <3>1. \A g \in Fields : WritersOf(t, more, e, g) = WritersOf(s, errs, e, g)
      BY <1>2, <2>5, WritersAfterMerge
    <3>2. t.fields[e] = s.fields[e] /\ t.versions[e] = s.versions[e]
      BY <1>2, <2>2, <2>5, FieldsAfterMerge
    <3>3. NewestOK(s, errs, e, f) => NewestOK(t, more, e, f)
      BY <3>1, <3>2 DEF NewestOK
    <3>4. Progress \in Fields
      BY DEF Fields
    <3>5. FurthestOK(s, errs, e) => FurthestOK(t, more, e)
      BY <3>1, <3>2, <3>4 DEF FurthestOK
    <3> QED
      BY <2>3, <3>3, <3>5 DEF FieldOK
  <2> QED
    BY <2>4, <2>5
<1> QED
  BY <1>1, <1>2

-------------------------------------------------------------------------------
(* The invariant of the fields, of a state and the events that failed.     *)
FieldsOK(s, errs) ==
  /\ \A e \in Entities, f \in Fields : ValueOK(s, errs, e, f)
  /\ \A e \in Entities : NoDeletes(s, e) => \A f \in Fields : FieldOK(s, errs, e, f)

FieldInv == IInv /\ \A r \in Replicas : FieldsOK(state[r], failed[r])

LEMMA EmptyFieldsOK == FieldsOK(EmptyMergeState, {})
<1> DEFINE s == EmptyMergeState
<1>1. \A e \in Entities, f \in Fields :
        /\ s.fields[e][f] = Absent /\ s.versions[e][f] = NoKey
        /\ WritersOf(s, {}, e, f) = {}
  BY DEF EmptyMergeState, NoFields, NoVersions, WritersOf
<1>2. Progress \in Fields
  BY DEF Fields
<1> HIDE DEF s
<1>3. \A e \in Entities, f \in Fields : ValueOK(s, {}, e, f) /\ FieldOK(s, {}, e, f)
  BY <1>1, <1>2 DEF ValueOK, FieldOK, NewestOK, FurthestOK
<1> QED
  BY <1>3 DEF FieldsOK, s

LEMMA MergeKeepsFieldsOK ==
  ASSUME NEW s \in MergeState, NEW ev \in Log, NEW errs \in SUBSET Log,
         StateOK(s), FieldsOK(s, errs)
  PROVE  FieldsOK(MergeEvent(s, ev), FailedAfter(s, errs, ev))
<1> DEFINE t    == MergeEvent(s, ev)
           more == FailedAfter(s, errs, ev)
<1>1. t = MergeEvent(s, ev) /\ more = FailedAfter(s, errs, ev)
  OBVIOUS
<1> HIDE DEF t, more
<1>2. \A e \in Entities, f \in Fields : ValueOK(t, more, e, f)
  BY <1>1, MergeKeepsValues DEF FieldsOK
<1>3. \A e \in Entities : NoDeletes(t, e) => \A f \in Fields : FieldOK(t, more, e, f)
  BY <1>1, MergeKeepsFields DEF FieldsOK, StateOK
<1> QED
  BY <1>1, <1>2, <1>3 DEF FieldsOK

(* A step merges one event at one replica, and notes it when it fails.     *)
LEMMA StepNotesFailure ==
  ASSUME TypeOK, [Next]_vars
  PROVE  \/ state' = state /\ failed' = failed
         \/ \E r \in Replicas, ev \in Log :
              /\ Merges(r, ev)
              /\ failed' = [failed EXCEPT ![r] = FailedAfter(state[r], failed[r], ev)]
<1>1. ASSUME NEW r \in Replicas, NEW events \in Batches, Deliver(r, events)
      PROVE  state' = state /\ failed' = failed
  BY <1>1 DEF Deliver
<1>2. ASSUME NEW r \in Replicas, NEW ev \in batch[r], MergeNext(r, ev) \/ MergeFails(r, ev)
      PROVE  /\ ev \in Log /\ Merges(r, ev)
             /\ failed' = [failed EXCEPT ![r] = FailedAfter(state[r], failed[r], ev)]
  <2>1. ev \in Log /\ Merges(r, ev)
    BY <1>2 DEF MergeNext, MergeFails, TypeOK, Merges
  <2>2. CASE MergeNext(r, ev)
    <3>1. failed' = failed /\ FailedAfter(state[r], failed[r], ev) = failed[r]
      BY <2>2 DEF MergeNext, FailedAfter
    <3> QED
      BY <2>1, <3>1 DEF TypeOK
  <2>3. CASE MergeFails(r, ev)
    <3>1. FailedAfter(state[r], failed[r], ev) = failed[r] \cup {ev}
      BY <2>3 DEF MergeFails, FailedAfter
    <3> QED
      BY <2>1, <2>3, <3>1 DEF MergeFails
  <2> QED
    BY <1>2, <2>2, <2>3
<1>3. CASE UNCHANGED vars
  BY <1>3 DEF vars
<1> QED
  BY <1>1, <1>2, <1>3 DEF Next

LEMMA StepFieldInv == FieldInv /\ [Next]_vars => FieldInv'
<1> SUFFICES ASSUME FieldInv, [Next]_vars PROVE FieldInv'
  OBVIOUS
<1>1. IInv' /\ TypeOK
  BY StepIInv DEF FieldInv, IInv
<1>2. ASSUME NEW r \in Replicas PROVE FieldsOK(state'[r], failed'[r])
  <2>1. CASE state' = state /\ failed' = failed
    BY <2>1 DEF FieldInv
  <2>2. ASSUME NEW q \in Replicas, NEW ev \in Log, Merges(q, ev),
               failed' = [failed EXCEPT ![q] = FailedAfter(state[q], failed[q], ev)]
        PROVE  FieldsOK(state'[r], failed'[r])
    <3>1. /\ state[q] \in MergeState /\ StateOK(state[q]) /\ failed[q] \in SUBSET Log
          /\ FieldsOK(state[q], failed[q]) /\ FieldsOK(state[r], failed[r])
      BY DEF FieldInv, IInv, TypeOK
    <3>2. /\ state'[r] = IF r = q THEN MergeEvent(state[q], ev) ELSE state[r]
          /\ failed'[r] = IF r = q THEN FailedAfter(state[q], failed[q], ev) ELSE failed[r]
      BY <1>1, <2>2 DEF Merges, TypeOK
    <3> QED
      BY <3>1, <3>2, MergeKeepsFieldsOK
  <2> QED
    BY <1>1, <2>1, <2>2, StepNotesFailure
<1> QED
  BY <1>1, <1>2 DEF FieldInv

THEOREM FieldInvariance == Spec => []FieldInv
<1>1. Init => FieldInv
  BY InitIInv, EmptyFieldsOK DEF Init, FieldInv
<1> QED
  BY <1>1, StepFieldInv, PTL DEF Spec

(* No path through progress, deletes, failures and re-creation pairs a     *)
(* value with the version of another event (merge_entity_fields).          *)
THEOREM ValuesMatch == Spec => []ValueMatchesVersion
<1>1. FieldInv => ValueMatchesVersion
  BY DEF FieldInv, FieldsOK, ValueOK, ValueMatchesVersion, Writers, WritersOf
<1> QED
  BY <1>1, FieldInvariance, PTL

(* The fields of an entity no delete of which was applied are the newest   *)
(* of the writes merged at that replica, its progress the furthest, in any *)
(* order of delivery and with the written half of what failed              *)
(* (merge_last_writer_wins_field, merge_reading_progress).                 *)
THEOREM FieldsConverge == Spec => []UndeletedFieldsConverge
<1>1. FieldInv => UndeletedFieldsConverge
  <2> SUFFICES ASSUME FieldInv, NEW r \in Replicas, NEW e \in Entities,
                      Undeleted(r, e), NEW f \in Fields
               PROVE  IF IsProgress(e, f) THEN ProgressIsFurthest(r, e)
                                          ELSE FieldIsLastWriter(r, e, f)
    BY DEF UndeletedFieldsConverge
  <2>1. \A g \in Fields : Writers(r, e, g) = WritersOf(state[r], failed[r], e, g)
    BY DEF Writers, WritersOf
  <2>2. NoDeletes(state[r], e)
    BY DEF Undeleted, NoDeletes, Applied, Seen
  <2>3. FieldOK(state[r], failed[r], e, f)
    BY <2>2 DEF FieldInv, FieldsOK
  <2>4. CASE IsProgress(e, f)
    <3>1. Progress \in Fields /\ FurthestOK(state[r], failed[r], e)
      BY <2>3, <2>4 DEF FieldOK, Fields
    <3> QED
      BY <2>1, <2>4, <3>1 DEF FurthestOK, ProgressIsFurthest
  <2>5. CASE ~IsProgress(e, f)
    BY <2>1, <2>3, <2>5 DEF FieldOK, NewestOK, FieldIsLastWriter
  <2> QED
    BY <2>4, <2>5
<1> QED
  BY <1>1, FieldInvariance, PTL

(* The newest of some writes, and the furthest, is the same write to all   *)
(* who have merged these.                                                  *)
LEMMA OneWriter ==
  ASSUME FieldInv, NEW q \in Replicas, NEW r \in Replicas, SameEvents(q, r),
         NEW e \in Entities, Undeleted(r, e), NEW f \in Fields
  PROVE  /\ state[q].fields[e][f] = state[r].fields[e][f]
         /\ state[q].versions[e][f] = state[r].versions[e][f]
<1> DEFINE W == WritersOf(state[r], failed[r], e, f)
           Version(x) == state[x].versions[e][f]
           Value(x) == state[x].fields[e][f]
<1>1. \A x \in {q, r} : /\ WritersOf(state[x], failed[x], e, f) = W
                        /\ NoDeletes(state[x], e)
  BY DEF SameEvents, WritersOf, Undeleted, Applied, NoDeletes, Seen
<1>2. \A x \in {q, r} : FieldOK(state[x], failed[x], e, f)
  BY <1>1 DEF FieldInv, FieldsOK
<1>3. \A ev \in W : ev \in Log /\ Key(ev) \in Keys
  BY KeyOfEvent DEF WritersOf
<1>4. /\ \A x \in {q, r} : W = {} => Value(x) = Absent /\ Version(x) = NoKey
      /\ W # {} => \E a, b \in W : /\ Key(a) = Version(q) /\ a.fields[f] = Value(q)
                                   /\ Key(b) = Version(r) /\ b.fields[f] = Value(r)
                                   /\ KeyLeq(Key(a), Key(b)) /\ KeyLeq(Key(b), Key(a))
  <2>1. CASE IsProgress(e, f)
    <3>1. f = Progress /\ \A x \in {q, r} : FurthestOK(state[x], failed[x], e)
      BY <1>2, <2>1 DEF FieldOK, IsProgress
    <3>2. \A x \in {q, r} :
            /\ \A ev \in W : /\ ev.fields[f] \in Nat /\ ev.fields[f] <= Value(x)
                             /\ ev.fields[f] = Value(x) => KeyLeq(Key(ev), Version(x))
            /\ \/ W = {} /\ Value(x) = Absent /\ Version(x) = NoKey
               \/ \E ev \in W : Key(ev) = Version(x) /\ ev.fields[f] = Value(x)
      BY <1>1, <3>1 DEF FurthestOK
    <3> HIDE DEF W, Version, Value
    <3>3. CASE W # {}
      <4>1. PICK a \in W : Key(a) = Version(q) /\ a.fields[f] = Value(q)
        BY <3>2, <3>3
      <4>2. PICK b \in W : Key(b) = Version(r) /\ b.fields[f] = Value(r)
        BY <3>2, <3>3
      <4>3. a.fields[f] = b.fields[f]
        BY <3>2, <4>1, <4>2
      <4>4. KeyLeq(Key(a), Key(b)) /\ KeyLeq(Key(b), Key(a))
        BY <3>2, <4>1, <4>2, <4>3
      <4> QED
        BY <3>3, <4>1, <4>2, <4>4
    <3> QED
      BY <3>2, <3>3
  <2>2. CASE ~IsProgress(e, f)
    <3>1. \A x \in {q, r} : NewestOK(state[x], failed[x], e, f)
      BY <1>2, <2>2 DEF FieldOK
    <3>2. \A x \in {q, r} :
            /\ \A ev \in W : KeyLeq(Key(ev), Version(x))
            /\ \/ W = {} /\ Value(x) = Absent /\ Version(x) = NoKey
               \/ \E ev \in W : Key(ev) = Version(x) /\ ev.fields[f] = Value(x)
      BY <1>1, <3>1 DEF NewestOK
    <3> HIDE DEF W, Version, Value
    <3>3. CASE W # {}
      <4>1. PICK a \in W : Key(a) = Version(q) /\ a.fields[f] = Value(q)
        BY <3>2, <3>3
      <4>2. PICK b \in W : Key(b) = Version(r) /\ b.fields[f] = Value(r)
        BY <3>2, <3>3
      <4>3. KeyLeq(Key(a), Key(b)) /\ KeyLeq(Key(b), Key(a))
        BY <3>2, <4>1, <4>2
      <4> QED
        BY <3>3, <4>1, <4>2, <4>3
    <3> QED
      BY <3>2, <3>3
  <2> QED
    BY <2>1, <2>2
<1> HIDE DEF W, Version, Value
<1>5. CASE W # {}
  <2>1. PICK a \in W, b \in W : /\ Key(a) = Version(q) /\ a.fields[f] = Value(q)
                                /\ Key(b) = Version(r) /\ b.fields[f] = Value(r)
                                /\ KeyLeq(Key(a), Key(b)) /\ KeyLeq(Key(b), Key(a))
    BY <1>4, <1>5
  <2>2. a = b
    BY <1>3, <2>1, KeyTotal, KeyUnique DEF KeyLeq
  <2> QED
    BY <2>1, <2>2 DEF Version, Value
<1> QED
  BY <1>4, <1>5 DEF Version, Value

(* Two replicas that merged the same events, in whatever order, and in     *)
(* which the same ones failed, hold the same fields of an entity no delete *)
(* of which they merged, with the same versions.  That the same ones       *)
(* failed is needed: a failed update leaves its first fields behind        *)
(* (merge_entity_fields).                                                  *)
THEOREM SameEventsSameFields ==
  Spec => [](\A q, r \in Replicas, e \in Entities :
               SameEvents(q, r) /\ Undeleted(r, e) =>
                 /\ state[q].fields[e] = state[r].fields[e]
                 /\ state[q].versions[e] = state[r].versions[e])
<1> DEFINE Agree == \A q, r \in Replicas, e \in Entities :
                      SameEvents(q, r) /\ Undeleted(r, e) =>
                        /\ state[q].fields[e] = state[r].fields[e]
                        /\ state[q].versions[e] = state[r].versions[e]
<1>1. FieldInv => Agree
  <2> SUFFICES ASSUME FieldInv, NEW q \in Replicas, NEW r \in Replicas, NEW e \in Entities,
                      SameEvents(q, r), Undeleted(r, e)
               PROVE  /\ state[q].fields[e] = state[r].fields[e]
                      /\ state[q].versions[e] = state[r].versions[e]
    OBVIOUS
  <2>1. \A x \in {q, r} : /\ state[x].fields[e] \in [Fields -> Values \ {Invalid}]
                          /\ state[x].versions[e] \in [Fields -> Keys]
    BY DEF FieldInv, IInv, TypeOK, MergeState
  <2>2. \A f \in Fields : /\ state[q].fields[e][f] = state[r].fields[e][f]
                          /\ state[q].versions[e][f] = state[r].versions[e][f]
    BY OneWriter
  <2> QED
    BY <2>1, <2>2
<1> HIDE DEF Agree
<1>2. Spec => []Agree
  BY <1>1, FieldInvariance, PTL
<1> QED
  BY <1>2 DEF Agree
===============================================================================
