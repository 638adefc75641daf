---------------------------- MODULE SyncPull_proofs ---------------------------
(***************************************************************************)
(* Proofs about the sync loop: any devices, any log, any page sizes.       *)
(*                                                                         *)
(* A device is where the history it has folded ends: it has applied what   *)
(* is on the server up to its cursor, and the page it is folding leaves no *)
(* gap.  Every event it newly applies is therefore newer than all it has   *)
(* applied, and one step of merge.rs or replay.rs extends the history.     *)
(***************************************************************************)
EXTENDS SyncPull, SyncMerge_proofs

-------------------------------------------------------------------------------
(* What a device that takes the newest event does to a state t it had as s.*)
Folds(s, t, ev, f) ==
  /\ ev.change \in {"upsert", "delete", "attach", "detach"}
  /\ ev.change = "upsert" =>
       /\ t.present = s.present \cup {ev.target} /\ t.members = s.members
       /\ \A e \in Entities : t.fields[e][f] = IF e = ev.target /\ ev.fields[f] # Absent
                                                 THEN ev.fields[f] ELSE s.fields[e][f]
  /\ ev.change = "delete" =>
       /\ t.present = s.present \ {ev.target} /\ t.members = s.members
       /\ \A e \in Entities : t.fields[e][f] = IF e = ev.target THEN Absent
                                                                ELSE s.fields[e][f]
  /\ ev.change = "attach" => /\ t.present = s.present /\ t.fields = s.fields
                             /\ t.members = s.members \cup {ev.target}
  /\ ev.change = "detach" => /\ t.present = s.present /\ t.fields = s.fields
                             /\ t.members = s.members \ {ev.target}

(* The parts of IsHistory.                                                 *)
LinksHistory(events) ==
  {p \in Relations :
     \E ev \in events : /\ ev.target = p /\ ev.change = "attach"
                        /\ \A o \in events : o.target = p => KeyLeq(Key(o), Key(ev))}

FieldHistory(events, e, f, value) ==
  LET writers == {ev \in Standing(events, e) : ev.fields[f] # Absent}
  IN  IF writers = {} THEN value = Absent
      ELSE \E ev \in writers : /\ \A o \in writers : KeyLeq(Key(o), Key(ev))
                               /\ value = ev.fields[f]

LEMMA HistoryParts ==
  ASSUME NEW events, NEW s, NEW f
  PROVE  IsHistory(events, s, f) <=>
           /\ s.members = LinksHistory(events)
           /\ s.present = {e \in Entities : Standing(events, e) # {}}
           /\ \A e \in Entities : FieldHistory(events, e, f, s.fields[e][f])
  BY DEF IsHistory, LinksHistory, FieldHistory

LEMMA LinksGrow ==
  ASSUME NEW events \in SUBSET Log, NEW ev \in Log,
         \A o \in events : KeyLess(Key(o), Key(ev))
  PROVE  LinksHistory(events \cup {ev}) =
           CASE ev.change = "attach" -> LinksHistory(events) \cup {ev.target}
             [] ev.change = "detach" -> LinksHistory(events) \ {ev.target}
             [] ev.change \notin {"attach", "detach"} -> LinksHistory(events) \ {ev.target}
<1> DEFINE more == events \cup {ev}
<1>1. \A o \in more : o \in Log /\ Key(o) \in Keys
  BY KeyOfEvent
<1>2. \A o \in events : KeyLeq(Key(o), Key(ev)) /\ ~KeyLeq(Key(ev), Key(o))
  BY <1>1, KeyTotal DEF KeyLeq
<1>3. ASSUME NEW p \in Relations, p # ev.target
      PROVE  p \in LinksHistory(more) <=> p \in LinksHistory(events)
  BY <1>3 DEF LinksHistory
<1>4. ASSUME ev.target \in Relations
      PROVE  ev.target \in LinksHistory(more) <=> ev.change = "attach"
  <2>1. \A o \in more : o.target = ev.target => KeyLeq(Key(o), Key(ev))
    BY <1>2 DEF KeyLeq
  <2>2. \A o \in more : (\A b \in more : b.target = ev.target => KeyLeq(Key(b), Key(o))) => o = ev
    BY <1>2
  <2> QED
    BY <1>4, <2>1, <2>2 DEF LinksHistory
<1>5. /\ \A p \in LinksHistory(more) : p \in Relations
      /\ \A p \in LinksHistory(events) : p \in Relations
  BY DEF LinksHistory
<1>6. ev.change = "attach" => ev.target \in Relations
  BY TargetOfEvent
<1> HIDE DEF more
<1>7. CASE ev.change = "attach"
  <2>1. LinksHistory(more) = LinksHistory(events) \cup {ev.target}
    BY <1>3, <1>4, <1>5, <1>6, <1>7
  <2> QED
    BY <1>7, <2>1 DEF more
<1>8. CASE ev.change # "attach"
  <2>1. LinksHistory(more) = LinksHistory(events) \ {ev.target}
    BY <1>3, <1>4, <1>5, <1>8
  <2> QED
    BY <1>8, <2>1 DEF more
<1> QED
  BY <1>7, <1>8

LEMMA StandingGrows ==
  ASSUME NEW events \in SUBSET Log, NEW ev \in Log,
         \A o \in events : KeyLess(Key(o), Key(ev)), NEW e \in Entities
  PROVE  Standing(events \cup {ev}, e) =
           IF ev.target = e /\ ev.change = "upsert" THEN Standing(events, e) \cup {ev}
           ELSE IF ev.target = e /\ ev.change = "delete" THEN {}
           ELSE Standing(events, e)
<1>1. \A o \in events \cup {ev} : o \in Log /\ Key(o) \in Keys
  BY KeyOfEvent
<1>2. \A o \in events : ~KeyLess(Key(ev), Key(o))
  BY <1>1, KeyTotal
<1>3. ~KeyLess(Key(ev), Key(ev))
  BY <1>1, KeyTotal
<1> QED
  BY <1>2, <1>3 DEF Standing

LEMMA FieldGrows ==
  ASSUME NEW events \in SUBSET Log, NEW ev \in Log,
         \A o \in events : KeyLess(Key(o), Key(ev)),
         NEW e \in Entities, NEW f \in Fields, NEW v, FieldHistory(events, e, f, v),
         NEW w, w = CASE ev.target = e /\ ev.change = "upsert" /\ ev.fields[f] # Absent -> ev.fields[f]
                      [] ev.target = e /\ ev.change = "delete" -> Absent
                      [] OTHER -> v
  PROVE  FieldHistory(events \cup {ev}, e, f, w)
<1> DEFINE more == events \cup {ev}
           SaidBy(es) == {o \in Standing(es, e) : o.fields[f] # Absent}
<1>1. \A es, u : FieldHistory(es, e, f, u) <=>
                   IF SaidBy(es) = {} THEN u = Absent
                   ELSE \E o \in SaidBy(es) : /\ \A b \in SaidBy(es) : KeyLeq(Key(b), Key(o))
                                              /\ u = o.fields[f]
  BY DEF FieldHistory
<1>2. Standing(more, e) = IF ev.target = e /\ ev.change = "upsert" THEN Standing(events, e) \cup {ev}
                          ELSE IF ev.target = e /\ ev.change = "delete" THEN {}
                          ELSE Standing(events, e)
  BY StandingGrows
<1>3. \A o \in Standing(events, e) : KeyLeq(Key(o), Key(ev))
  BY DEF Standing, KeyLeq
<1>4. CASE ev.target = e /\ ev.change = "upsert" /\ ev.fields[f] # Absent
  <2>1. SaidBy(more) = SaidBy(events) \cup {ev} /\ w = ev.fields[f]
    BY <1>2, <1>4
  <2>2. \A b \in SaidBy(more) : KeyLeq(Key(b), Key(ev))
    BY <1>3, <2>1 DEF KeyLeq
  <2> HIDE DEF SaidBy
  <2> QED
    BY <1>1, <2>1, <2>2
<1>5. CASE ev.target = e /\ ev.change = "delete"
  <2>1. SaidBy(more) = {} /\ w = Absent
    BY <1>2, <1>5
  <2> HIDE DEF SaidBy
  <2> QED
    BY <1>1, <2>1
<1>6. CASE ~(ev.target = e /\ ev.change = "upsert" /\ ev.fields[f] # Absent)
           /\ ~(ev.target = e /\ ev.change = "delete")
  <2>1. SaidBy(more) = SaidBy(events) /\ w = v
    BY <1>2, <1>6
  <2> HIDE DEF SaidBy
  <2> QED
    BY <1>1, <2>1
<1> QED
  BY <1>4, <1>5, <1>6

(* The newest event extends the history a state shows.                     *)
LEMMA HistoryGrows ==
  ASSUME NEW events \in SUBSET Log, NEW ev \in Log,
         \A o \in events : KeyLess(Key(o), Key(ev)),
         NEW f \in Fields, NEW s, NEW t, IsHistory(events, s, f), Folds(s, t, ev, f)
  PROVE  IsHistory(events \cup {ev}, t, f)
<1> DEFINE more == events \cup {ev}
<1>1. /\ s.members = LinksHistory(events)
      /\ s.present = {e \in Entities : Standing(events, e) # {}}
      /\ \A e \in Entities : FieldHistory(events, e, f, s.fields[e][f])
  BY HistoryParts
<1>2. /\ ev.change \in {"upsert", "delete"} => ev.target \in Entities
      /\ ev.change \in {"attach", "detach"} => ev.target \in Relations
      /\ ev.target \in Entities => ev.target \notin Relations
  BY TargetOfEvent, EntityAssumption
<1>3. t.members = LinksHistory(more)
  <2>1. \A p \in LinksHistory(events) : p \in Relations
    BY DEF LinksHistory
  <2>2. LinksHistory(more) =
          CASE ev.change = "attach" -> LinksHistory(events) \cup {ev.target}
            [] ev.change = "detach" -> LinksHistory(events) \ {ev.target}
            [] ev.change \notin {"attach", "detach"} -> LinksHistory(events) \ {ev.target}
    BY LinksGrow
  <2> HIDE DEF more
  <2>3. CASE ev.change \in {"upsert", "delete"}
    <3>1. LinksHistory(more) = LinksHistory(events) \ {ev.target}
      BY <2>2, <2>3
    <3>2. ev.target \notin LinksHistory(events)
      BY <1>2, <2>1, <2>3
    <3>3. t.members = s.members
      BY <2>3 DEF Folds
    <3> QED
      BY <1>1, <3>1, <3>2, <3>3
  <2>4. CASE ev.change = "attach"
    BY <1>1, <2>2, <2>4 DEF Folds
  <2>5. CASE ev.change = "detach"
    BY <1>1, <2>2, <2>5 DEF Folds
  <2> QED
    BY <2>3, <2>4, <2>5 DEF Folds
<1>4. t.present = {e \in Entities : Standing(more, e) # {}}
  <2>1. \A e \in Entities :
          Standing(more, e) = IF ev.target = e /\ ev.change = "upsert" THEN Standing(events, e) \cup {ev}
                              ELSE IF ev.target = e /\ ev.change = "delete" THEN {}
                              ELSE Standing(events, e)
    BY StandingGrows
  <2> HIDE DEF more
  <2>2. CASE ev.change = "upsert"
    BY <1>1, <1>2, <2>1, <2>2 DEF Folds
  <2>3. CASE ev.change = "delete"
    BY <1>1, <1>2, <2>1, <2>3 DEF Folds
  <2>4. CASE ev.change \in {"attach", "detach"}
    <3>1. t.present = s.present /\ \A e \in Entities : Standing(more, e) = Standing(events, e)
      BY <2>1, <2>4 DEF Folds
    <3> QED
      BY <1>1, <3>1
  <2> QED
    BY <2>2, <2>3, <2>4 DEF Folds
<1>5. ASSUME NEW e \in Entities PROVE FieldHistory(more, e, f, t.fields[e][f])
  <2> DEFINE v == s.fields[e][f]
             w == t.fields[e][f]
  <2>1. w = CASE ev.target = e /\ ev.change = "upsert" /\ ev.fields[f] # Absent -> ev.fields[f]
              [] ev.target = e /\ ev.change = "delete" -> Absent
              [] OTHER -> v
    BY DEF Folds
  <2>2. FieldHistory(events, e, f, v)
    BY <1>1
  <2> HIDE DEF v, w
  <2>3. FieldHistory(more, e, f, w)
    BY <2>1, <2>2, FieldGrows
  <2> QED
    BY <2>3 DEF w
<1> HIDE DEF more
<1>6. IsHistory(more, t, f)
  BY <1>3, <1>4, <1>5, HistoryParts
<1> QED
  BY <1>6 DEF more

-------------------------------------------------------------------------------
(* One event at a replaying device, and at a merging one.                  *)
LEMMA ReplayFolds ==
  ASSUME NEW s \in ReplayState, NEW ev \in Log, NEW f \in Fields,
         ev.id \notin s.applied, ~ReplayFails(ev), NEW t, t = ReplayEvent(s, ev)
  PROVE  Folds(s, t, ev, f)
  BY ReplayEffect DEF Folds

ReplayerOK(served, s, todo) ==
  /\ s \in ReplayState
  /\ Follows(served, s.applied, s.cursor, todo)
  /\ \A f \in Fields : IsHistory(Replayed(s), s, f)

LEMMA ReplayerKept ==
  ASSUME NEW served \in SUBSET Log, NEW s, NEW todo, ReplayerOK(served, s, todo),
         NEW ev, IsFirst(ev, todo), NEW t, t = ReplayEvent(s, ev),
         NEW left, left = IF ev.id \notin s.applied /\ ReplayFails(ev) THEN {} ELSE todo \ {ev}
  PROVE  ReplayerOK(served, t, left)
<1>1. ev \in todo /\ ev \in Log /\ s \in ReplayState
  BY DEF IsFirst, ReplayerOK, Follows
<1>2. /\ Follows(served, s.applied, s.cursor, {})
      /\ ev.id \in s.applied => Follows(served, s.applied, s.cursor, todo \ {ev})
      /\ Follows(served, s.applied \cup {ev.id}, AdvanceTo(s.cursor, ev), todo \ {ev})
  BY <1>1, FollowsNext DEF ReplayerOK
<1>3. CASE ev.id \in s.applied \/ ReplayFails(ev)
  <2>1. t = s
    BY <1>3 DEF ReplayEvent
  <2> QED
    BY <1>2, <1>3, <2>1 DEF ReplayerOK
<1>4. CASE ev.id \notin s.applied /\ ~ReplayFails(ev)
  <2>1. /\ t \in ReplayState /\ t.applied = s.applied \cup {ev.id}
        /\ t.cursor = AdvanceTo(s.cursor, ev) /\ Replayed(t) = Replayed(s) \cup {ev}
    BY <1>1, <1>4, ReplayKeepsType, ReplayEffect, ReplayedAfter
  <2>2. \A o \in Replayed(s) : KeyLess(Key(o), Key(ev))
    BY <1>1, <1>4, FollowsNewest DEF ReplayerOK, Replayed
  <2>3. ASSUME NEW f \in Fields PROVE IsHistory(Replayed(t), t, f)
    <3>1. Folds(s, t, ev, f) /\ IsHistory(Replayed(s), s, f) /\ Replayed(s) \in SUBSET Log
      BY <1>1, <1>4, ReplayFolds DEF ReplayerOK, Replayed
    <3> QED
      BY <1>1, <2>1, <2>2, <3>1, HistoryGrows
  <2> QED
    BY <1>2, <1>4, <2>1, <2>3 DEF ReplayerOK
<1> QED
  BY <1>3, <1>4

(* merge_event, with the newest event and before any failure: no tombstone *)
(* covers it, no version holds it off, and so every check it makes passes. *)
LEMMA NewestPasses ==
  ASSUME NEW s \in MergeState, StateOK(s), FieldsOK(s, {}),
         NEW ev \in Log, \A o \in Seen(s) : KeyLess(Key(o), Key(ev))
  PROVE  /\ ev.change \in {"upsert", "delete"} => ~Covered(s, ev) /\ Deletes(s, ev)
         /\ ev.change \in {"attach", "detach"} => KeyLess(s.rel_versions[ev.target], Key(ev))
<1>1. Key(ev) \in Keys /\ KeyLess(NoKey, Key(ev))
  BY KeyOfEvent
<1>2. ASSUME NEW e \in Entities PROVE KeyLess(s.tombstone[e], Key(ev))
  BY <1>1 DEF StateOK, TombstoneOK
<1>3. ASSUME NEW e \in Entities, NEW f \in Fields PROVE KeyLess(s.versions[e][f], Key(ev))
  <2>1. WritersOf(s, {}, e, f) \subseteq Seen(s)
    BY DEF WritersOf, Seen
  <2>2. ValueOK(s, {}, e, f)
    BY DEF FieldsOK
  <2> QED
    BY <1>1, <2>1, <2>2 DEF ValueOK
<1>4. ASSUME NEW p \in Relations PROVE KeyLess(s.rel_versions[p], Key(ev))
  BY <1>1 DEF StateOK, LinksOK, LastWriterOfRelation
<1>5. ASSUME NEW e \in Entities PROVE ~KeyLeq(Key(ev), s.tombstone[e])
  <2>1. s.tombstone[e] \in Keys
    BY DEF MergeState
  <2> QED
    BY <1>1, <1>2, <2>1, KeyTotal DEF KeyLeq
<1> QED
  BY <1>2, <1>3, <1>4, <1>5, TargetOfEvent DEF Covered, Deletes

LEMMA MergeFolds ==
  ASSUME NEW s \in MergeState, StateOK(s), FieldsOK(s, {}),
         NEW ev \in Log, \A o \in Seen(s) : KeyLess(Key(o), Key(ev)),
         ev.id \notin s.applied, ~Fails(s, ev), NEW t, t = MergeEvent(s, ev),
         NEW f \in Fields \ {Progress}
  PROVE  Folds(s, t, ev, f)
<1> DEFINE d == Dispatch(s, ev)
<1>1. d \in MergeState
  BY DispatchType
<1>2. t = MarkApplied(d, ev)
  BY SeenAfterMerge
<1>3. t.present = d.present /\ t.fields = d.fields /\ t.members = d.members
  BY <1>1, <1>2, MarkFrame
<1>4. ev.change \in {"upsert", "delete", "attach", "detach"}
  BY TargetOfEvent DEF Fails
<1>5. t \in MergeState
  BY MergeType
<1>6. CASE ev.change \in {"upsert", "delete"}
  <2>1. ev.target \in Entities /\ ~Covered(s, ev) /\ Deletes(s, ev)
    BY <1>6, TargetOfEvent, NewestPasses
  <2>2. t.members = s.members
    BY <1>3, <1>6, DispatchFrame
  <2>3. t.present \subseteq Entities /\ s.present \subseteq Entities
    BY <1>5 DEF MergeState
  <2>4. CASE ev.change = "upsert"
    <3>1. \A e \in Entities : e \in t.present <=> e \in s.present \/ e = ev.target
      BY <1>3, <2>1, <2>4, EntityAfterDispatch
    <3>2. t.present = s.present \cup {ev.target}
      BY <2>1, <2>3, <3>1
    <3>3. ASSUME NEW e \in Entities
          PROVE  t.fields[e][f] = IF e = ev.target /\ ev.fields[f] # Absent
                                    THEN ev.fields[f] ELSE s.fields[e][f]
      <4>1. CASE e # ev.target
        <5>1. t.fields[e] = s.fields[e]
          BY <4>1, FieldsAfterMerge
        <5> QED
          BY <4>1, <5>1
      <4>2. CASE e = ev.target
        <5>1. t.fields[e][f] = IF f \in Won(s, ev) THEN ev.fields[f] ELSE s.fields[e][f]
          BY <2>1, <2>4, <4>2, MergedField
        <5>2. f \in ReadFields(ev) <=> ev.fields[f] # Absent
          BY <2>1, <2>4, FieldIsRead
        <5>3. Overwrites(s, ev, f)
          BY <2>1 DEF Overwrites, IsProgress, Deletes
        <5> QED
          BY <4>2, <5>1, <5>2, <5>3 DEF Won
      <4> QED
        BY <4>1, <4>2
    <3> QED
      BY <2>2, <2>4, <3>2, <3>3 DEF Folds
  <2>5. CASE ev.change = "delete"
    <3>1. \A e \in Entities : e \in t.present <=> e \in s.present /\ e # ev.target
      BY <1>3, <2>1, <2>5, EntityAfterDispatch
    <3>2. t.present = s.present \ {ev.target}
      BY <2>1, <2>3, <3>1
    <3>3. ASSUME NEW e \in Entities
          PROVE  t.fields[e][f] = IF e = ev.target THEN Absent ELSE s.fields[e][f]
      <4>1. t.fields[e] = IF e = ev.target THEN NoFields ELSE s.fields[e]
        BY <2>1, <2>5, FieldsAfterMerge
      <4> QED
        BY <4>1 DEF NoFields
    <3> QED
      BY <2>2, <2>5, <3>2, <3>3 DEF Folds
  <2> QED
    BY <1>6, <2>4, <2>5
<1>7. CASE ev.change \in {"attach", "detach"}
  <2>1. KeyLess(s.rel_versions[ev.target], Key(ev))
    BY <1>7, NewestPasses
  <2>2. t.present = s.present /\ t.fields = s.fields
    BY <1>3, <1>7, DispatchFrame
  <2>3. d.members = IF ev.change = "attach" THEN s.members \cup {ev.target}
                                            ELSE s.members \ {ev.target}
    <3>1. d = MergeRelation(s, ev)
      BY <1>7 DEF Dispatch
    <3> HIDE DEF d
    <3> QED
      BY <2>1, <3>1 DEF MergeRelation, MergeState
  <2> QED
    BY <1>3, <1>7, <2>2, <2>3 DEF Folds
<1> QED
  BY <1>4, <1>6, <1>7

MergerOK(served, s, errs, todo) ==
  /\ s \in MergeState /\ errs \in SUBSET Log
  /\ StateOK(s) /\ FieldsOK(s, errs)
  /\ Follows(served, s.applied, s.cursor, todo)
  /\ errs = {} => \A f \in Fields \ {Progress} : IsHistory(Seen(s), s, f)

LEMMA MergerKept ==
  ASSUME NEW served \in SUBSET Log, NEW s, NEW errs, NEW todo, MergerOK(served, s, errs, todo),
         NEW ev, IsFirst(ev, todo), NEW t, t = MergeEvent(s, ev),
         NEW more, more = FailedAfter(s, errs, ev),
         NEW left, left = IF ev.id \notin s.applied /\ Fails(s, ev) THEN {} ELSE todo \ {ev}
  PROVE  MergerOK(served, t, more, left)
<1>1. ev \in todo /\ ev \in Log /\ s \in MergeState /\ errs \in SUBSET Log
  BY DEF IsFirst, MergerOK, Follows
<1>2. /\ Follows(served, s.applied, s.cursor, {})
      /\ ev.id \in s.applied => Follows(served, s.applied, s.cursor, todo \ {ev})
      /\ Follows(served, s.applied \cup {ev.id}, AdvanceTo(s.cursor, ev), todo \ {ev})
  BY <1>1, FollowsNext DEF MergerOK
<1>3. t \in MergeState /\ StateOK(t) /\ FieldsOK(t, more) /\ more \in SUBSET Log
  BY <1>1, MergeType, MergeKeepsStateOK, MergeKeepsFieldsOK DEF MergerOK, FailedAfter
<1>4. CASE ev.id \in s.applied
  <2>1. t = s /\ more = errs
    BY <1>1, <1>4, SeenAfterMerge DEF FailedAfter
  <2> QED
    BY <1>2, <1>4, <2>1 DEF MergerOK
<1>5. CASE ev.id \notin s.applied /\ Fails(s, ev)
  <2>1. t = Dispatch(s, ev) /\ t.cursor = s.cursor /\ more # {}
    BY <1>1, <1>5, SeenAfterMerge DEF FailedAfter
  <2>2. t.applied = s.applied
    BY <1>1, <2>1, DispatchFrame
  <2> QED
    BY <1>2, <1>3, <1>5, <2>1, <2>2 DEF MergerOK
<1>6. CASE ev.id \notin s.applied /\ ~Fails(s, ev)
  <2>1. /\ Seen(t) = Seen(s) \cup {ev} /\ t.cursor = AdvanceTo(s.cursor, ev)
        /\ t = MarkApplied(Dispatch(s, ev), ev)
    BY <1>1, <1>6, SeenAfterMerge
  <2>2. t.applied = s.applied \cup {ev.id}
    BY <1>1, <2>1, DispatchType, DispatchFrame, MarkFrame
  <2>3. more = errs
    BY <1>6 DEF FailedAfter
  <2>4. \A o \in Seen(s) : KeyLess(Key(o), Key(ev))
    BY <1>1, <1>6, FollowsNewest DEF MergerOK, Seen
  <2>5. ASSUME errs = {}, NEW f \in Fields \ {Progress} PROVE IsHistory(Seen(t), t, f)
    <3>1. StateOK(s) /\ FieldsOK(s, {}) /\ IsHistory(Seen(s), s, f) /\ Seen(s) \in SUBSET Log
      BY <2>5 DEF MergerOK, Seen
    <3>2. Folds(s, t, ev, f)
      BY <1>1, <1>6, <2>4, <3>1, MergeFolds
    <3> QED
      BY <1>1, <2>1, <2>4, <3>1, <3>2, HistoryGrows
  <2> QED
    BY <1>2, <1>3, <1>6, <2>1, <2>2, <2>3, <2>5 DEF MergerOK
<1> QED
  BY <1>4, <1>5, <1>6

-------------------------------------------------------------------------------
(* The devices' steps.  Without any assumption the variables keep their    *)
(* types.                                                                  *)
MergesFirst(r, ev) ==
  /\ IsFirst(ev, batch[r])
  /\ state' = [state EXCEPT ![r] = MergeEvent(state[r], ev)]
  /\ failed' = [failed EXCEPT ![r] = FailedAfter(state[r], failed[r], ev)]
  /\ batch' = [batch EXCEPT ![r] = IF ev.id \notin state[r].applied /\ Fails(state[r], ev)
                                     THEN {} ELSE batch[r] \ {ev}]

LEMMA MergeStepIs ==
  ASSUME TypeOK, NEW r \in Replicas, MergeStep(r)
  PROVE  /\ \E ev \in Log : MergesFirst(r, ev)
         /\ UNCHANGED <<replayVars, uploaded>>
<1>1. PICK ev \in batch[r] : MergeNext(r, ev) \/ MergeFails(r, ev)
  BY DEF MergeStep
<1>2. ev \in Log
  BY <1>1 DEF TypeOK
<1>3. ASSUME MergeNext(r, ev) PROVE MergesFirst(r, ev)
  <2>1. FailedAfter(state[r], failed[r], ev) = failed[r]
        /\ ~(ev.id \notin state[r].applied /\ Fails(state[r], ev))
    BY <1>3 DEF MergeNext, FailedAfter
  <2>2. failed' = [failed EXCEPT ![r] = FailedAfter(state[r], failed[r], ev)]
    BY <1>3, <2>1 DEF MergeNext, TypeOK
  <2> QED
    BY <1>3, <2>1, <2>2 DEF MergeNext, MergesFirst
<1>4. ASSUME MergeFails(r, ev) PROVE MergesFirst(r, ev)
  <2>1. FailedAfter(state[r], failed[r], ev) = failed[r] \cup {ev}
    BY <1>4 DEF MergeFails, FailedAfter
  <2> QED
    BY <1>4, <2>1 DEF MergeFails, MergesFirst
<1>5. MergesFirst(r, ev)
  BY <1>1, <1>3, <1>4
<1>6. UNCHANGED <<replayVars, uploaded>>
  BY DEF MergeStep
<1> QED
  BY <1>2, <1>5, <1>6

LEMMA PageInLog ==
  ASSUME uploaded \in SUBSET Log, NEW cursor, NEW n
  PROVE  Package(uploaded, cursor, n).events \in SUBSET Log
  BY DEF Package, EventsAfter

(* A page a device may be given: new, or one that was folded before.       *)
PageOf(served, applied, cursor, events) ==
  \E n \in Nat : \/ events = Package(served, cursor, n).events
                 \/ \E ev \in served : /\ ev.id \in applied
                                       /\ events = {ev} \cup Package(served, Key(ev), n).events

(* Every step of the loop, as its effect on one device or on the server.   *)
Uploads(ev) ==
  /\ uploaded' = uploaded \cup {ev}
  /\ UploadsInOrder => \A o \in uploaded : KeyLess(Key(o), Key(ev))
  /\ UNCHANGED <<vars, replayVars>>
Merging(r, ev)  == MergesFirst(r, ev) /\ UNCHANGED <<replayVars, uploaded>>
Replaying(x, ev) == ReplayNext(x, ev) /\ UNCHANGED <<vars, uploaded>>
Fetching(r, events) ==
  /\ PageOf(uploaded, state[r].applied, state[r].cursor, events)
  /\ Deliver(r, events)
  /\ UNCHANGED <<replayVars, uploaded>>
FetchingPage(x, events) ==
  /\ PageOf(uploaded, copy[x].applied, copy[x].cursor, events)
  /\ DeliverPage(x, events)
  /\ UNCHANGED <<vars, uploaded>>

LEMMA PullSteps ==
  ASSUME PullTypeOK, [PullNext]_pullVars
  PROVE  \/ \E ev \in Log : Uploads(ev)
         \/ \E r \in Replicas, ev \in Log : Merging(r, ev)
         \/ \E r \in Replicas, events \in SUBSET Log : Fetching(r, events)
         \/ \E x \in Replayers, ev \in Log : Replaying(x, ev)
         \/ \E x \in Replayers, events \in SUBSET Log : FetchingPage(x, events)
         \/ UNCHANGED <<vars, replayVars, uploaded>>
<1>0. uploaded \in SUBSET Log /\ TypeOK /\ PageSizes \subseteq Nat
  BY PullAssumption DEF PullTypeOK
<1>1. ASSUME NEW ev \in Log, Upload(ev) PROVE Uploads(ev)
  BY <1>1 DEF Upload, Uploads
<1>2. ASSUME NEW r \in Replicas, NEW n \in PageSizes, PullToMerge(r, n) \/ Redeliver(r, n)
      PROVE  \E events \in SUBSET Log : Fetching(r, events)
  BY <1>0, <1>2, PageInLog DEF PullToMerge, Redeliver, Fetching, PageOf
<1>3. ASSUME NEW x \in Replayers, NEW n \in PageSizes, PullToReplay(x, n) \/ RedeliverPage(x, n)
      PROVE  \E events \in SUBSET Log : FetchingPage(x, events)
  BY <1>0, <1>3, PageInLog DEF PullToReplay, RedeliverPage, FetchingPage, PageOf
<1>4. ASSUME NEW x \in Replayers, ReplayStep(x) PROVE \E ev \in Log : Replaying(x, ev)
  BY <1>4 DEF ReplayStep, Replaying, PullTypeOK, ReplayTypeOK
<1>5. ASSUME NEW r \in Replicas, MergeStep(r) PROVE \E ev \in Log : Merging(r, ev)
  BY <1>0, <1>5, MergeStepIs DEF Merging
<1>6. UNCHANGED pullVars => UNCHANGED <<vars, replayVars, uploaded>>
  BY DEF pullVars, vars, replayVars
<1> QED
  BY <1>1, <1>2, <1>3, <1>4, <1>5, <1>6 DEF PullNext

LEMMA PullTypeStep == PullTypeOK /\ [PullNext]_pullVars => PullTypeOK'
<1> SUFFICES ASSUME PullTypeOK, [PullNext]_pullVars PROVE PullTypeOK'
  OBVIOUS
<1>0. TypeOK /\ ReplayTypeOK /\ uploaded \in SUBSET Log
  BY DEF PullTypeOK
<1>1. UNCHANGED vars => TypeOK'
  BY <1>0 DEF vars, TypeOK
<1>2. UNCHANGED replayVars => ReplayTypeOK'
  BY <1>0 DEF replayVars, ReplayTypeOK
<1>3. ASSUME NEW r \in Replicas, NEW ev \in Log, Merging(r, ev) PROVE PullTypeOK'
  <2>1. /\ MergeEvent(state[r], ev) \in MergeState
        /\ FailedAfter(state[r], failed[r], ev) \in SUBSET Log
    BY <1>0, MergeType DEF TypeOK, FailedAfter
  <2>2. TypeOK'
    BY <1>0, <1>3, <2>1 DEF Merging, MergesFirst, TypeOK
  <2> QED
    BY <1>0, <1>2, <1>3, <2>2 DEF Merging, PullTypeOK
<1>4. ASSUME NEW x \in Replayers, NEW ev \in Log, Replaying(x, ev) PROVE PullTypeOK'
  <2>1. copy' = [copy EXCEPT ![x] = ReplayEvent(copy[x], ev)]
    BY <1>0, <1>4 DEF Replaying, ReplayNext, ReplayTypeOK
  <2>2. ReplayEvent(copy[x], ev) \in ReplayState
    BY <1>0, ReplayKeepsType DEF ReplayTypeOK
  <2>3. page' \in [Replayers -> SUBSET Log] /\ refused' \in [Replayers -> SUBSET Log]
    BY <1>0, <1>4 DEF Replaying, ReplayNext, ReplayTypeOK
  <2>4. ReplayTypeOK'
    BY <1>0, <2>1, <2>2, <2>3 DEF ReplayTypeOK
  <2> QED
    BY <1>0, <1>1, <1>4, <2>4 DEF Replaying, PullTypeOK
<1>5. ASSUME NEW r \in Replicas, NEW events \in SUBSET Log, Fetching(r, events) PROVE PullTypeOK'
  <2>1. TypeOK'
    BY <1>0, <1>5 DEF Fetching, Deliver, TypeOK
  <2> QED
    BY <1>0, <1>2, <1>5, <2>1 DEF Fetching, PullTypeOK
<1>6. ASSUME NEW x \in Replayers, NEW events \in SUBSET Log, FetchingPage(x, events)
      PROVE  PullTypeOK'
  <2>1. ReplayTypeOK'
    BY <1>0, <1>6 DEF FetchingPage, DeliverPage, ReplayTypeOK
  <2> QED
    BY <1>0, <1>1, <1>6, <2>1 DEF FetchingPage, PullTypeOK
<1>7. ASSUME NEW ev \in Log, Uploads(ev) PROVE PullTypeOK'
  BY <1>0, <1>1, <1>2, <1>7 DEF Uploads, PullTypeOK
<1>8. UNCHANGED <<vars, replayVars, uploaded>> => PullTypeOK'
  BY <1>0, <1>1, <1>2 DEF PullTypeOK
<1> QED
  BY <1>3, <1>4, <1>5, <1>6, <1>7, <1>8, PullSteps

LEMMA PullTypeInitial == PullInit => PullTypeOK
<1>1. EmptyReplayState \in ReplayState
  BY NoKeyInKeys DEF EmptyReplayState, ReplayState, Values
<1> QED
  BY <1>1, EmptyStateOK DEF PullInit, Init, ReplayInit, PullTypeOK, TypeOK, ReplayTypeOK

(* No page, no failure and no event folded twice takes a device, or the    *)
(* server, out of its type.                                                *)
THEOREM PullIsTyped == PullSpec => []PullTypeOK
  BY PullTypeInitial, PullTypeStep, PTL DEF PullSpec

-------------------------------------------------------------------------------
(* When the log grows in key order every device follows it.                *)
PullInv ==
  /\ UploadsInOrder
  /\ PullTypeOK /\ IsFiniteSet(uploaded)
  /\ \A r \in Replicas : MergerOK(uploaded, state[r], failed[r], batch[r])
  /\ \A x \in Replayers : ReplayerOK(uploaded, copy[x], page[x])

LEMMA EmptyHistory ==
  /\ \A f \in Fields : IsHistory(Seen(EmptyMergeState), EmptyMergeState, f)
  /\ \A f \in Fields : IsHistory(Replayed(EmptyReplayState), EmptyReplayState, f)
  /\ Follows({}, {}, NoKey, {})
<1>1. Seen(EmptyMergeState) = {} /\ Replayed(EmptyReplayState) = {}
  BY DEF Seen, Replayed, EmptyMergeState, EmptyReplayState
<1>2. \A e \in Entities : Standing({}, e) = {}
  BY DEF Standing
<1>3. ASSUME NEW s, s.members = {}, s.present = {}, NEW f \in Fields,
             \A e \in Entities : s.fields[e][f] = Absent
      PROVE  IsHistory({}, s, f)
  BY <1>2, <1>3 DEF IsHistory
<1>4. Follows({}, {}, NoKey, {})
  BY NoKeyInKeys DEF Follows
<1>5. /\ EmptyMergeState.members = {} /\ EmptyMergeState.present = {}
      /\ \A e \in Entities, f \in Fields : EmptyMergeState.fields[e][f] = Absent
      /\ EmptyReplayState.members = {} /\ EmptyReplayState.present = {}
      /\ \A e \in Entities, f \in Fields : EmptyReplayState.fields[e][f] = Absent
  BY DEF EmptyMergeState, EmptyReplayState, NoFields
<1> QED
  BY <1>1, <1>3, <1>4, <1>5

LEMMA PullInitial == UploadsInOrder /\ PullInit => PullInv
<1> SUFFICES ASSUME UploadsInOrder, PullInit PROVE PullInv
  OBVIOUS
<1>1. EmptyMergeState.applied = {} /\ EmptyMergeState.cursor = NoKey
  BY DEF EmptyMergeState
<1>2. EmptyReplayState.applied = {} /\ EmptyReplayState.cursor = NoKey
  BY DEF EmptyReplayState
<1>3. EmptyReplayState \in ReplayState
  BY NoKeyInKeys DEF EmptyReplayState, ReplayState, Values
<1>4. MergerOK({}, EmptyMergeState, {}, {})
  BY <1>1, EmptyStateOK, EmptyFieldsOK, EmptyHistory DEF MergerOK
<1>5. ReplayerOK({}, EmptyReplayState, {})
  BY <1>2, <1>3, EmptyHistory DEF ReplayerOK
<1>6. IsFiniteSet({})
  BY FS_EmptySet
<1> QED
  BY <1>4, <1>5, <1>6, PullTypeInitial DEF PullInv, PullInit, Init, ReplayInit

(* A new event leaves every device where it is in its history.             *)
LEMMA PullUpload ==
  ASSUME PullInv, NEW ev \in Log, Uploads(ev)
  PROVE  /\ IsFiniteSet(uploaded')
         /\ \A r \in Replicas : MergerOK(uploaded', state'[r], failed'[r], batch'[r])
         /\ \A x \in Replayers : ReplayerOK(uploaded', copy'[x], page'[x])
<1>1. /\ uploaded \in SUBSET Log /\ IsFiniteSet(uploaded)
      /\ uploaded' = uploaded \cup {ev} /\ UNCHANGED <<vars, replayVars>>
      /\ \A o \in uploaded : KeyLess(Key(o), Key(ev))
  BY DEF PullInv, PullTypeOK, Uploads
<1>2. IsFiniteSet(uploaded')
  BY <1>1, FS_AddElement
<1>3. ASSUME NEW r \in Replicas PROVE MergerOK(uploaded', state[r], failed[r], batch[r])
  <2>1. MergerOK(uploaded, state[r], failed[r], batch[r])
    BY DEF PullInv
  <2>2. Follows(uploaded \cup {ev}, state[r].applied, state[r].cursor, batch[r])
    BY <1>1, <2>1, FollowsUpload DEF MergerOK
  <2> QED
    BY <1>1, <2>1, <2>2 DEF MergerOK
<1>4. ASSUME NEW x \in Replayers PROVE ReplayerOK(uploaded', copy[x], page[x])
  <2>1. ReplayerOK(uploaded, copy[x], page[x])
    BY DEF PullInv
  <2>2. Follows(uploaded \cup {ev}, copy[x].applied, copy[x].cursor, page[x])
    BY <1>1, <2>1, FollowsUpload DEF ReplayerOK
  <2> QED
    BY <1>1, <2>1, <2>2 DEF ReplayerOK
<1> QED
  BY <1>1, <1>2, <1>3, <1>4 DEF vars, replayVars

(* A page is one a device may fold, be it new or folded before.            *)
LEMMA PageFollows ==
  ASSUME NEW served \in SUBSET Log, IsFiniteSet(served), NEW applied, NEW cursor,
         Follows(served, applied, cursor, {}),
         NEW events, PageOf(served, applied, cursor, events)
  PROVE  Follows(served, applied, cursor, events)
<1>1. ASSUME NEW n \in Nat, events = Package(served, cursor, n).events
      PROVE  Follows(served, applied, cursor, events)
  <2>1. cursor \in Keys
    BY DEF Follows
  <2>2. /\ events \in SUBSET EventsAfter(served, cursor)
        /\ \A ev \in events, o \in EventsAfter(served, cursor) :
             KeyLess(Key(o), Key(ev)) => o \in events
    BY <1>1, <2>1, PackageIsPrefix
  <2> QED
    BY <2>2, FollowsPage
<1> QED
  BY <1>1, FollowsAgain DEF PageOf

LEMMA PullStep == PullInv /\ [PullNext]_pullVars => PullInv'
<1> SUFFICES ASSUME PullInv, [PullNext]_pullVars PROVE PullInv'
  OBVIOUS
<1>0. PullTypeOK /\ PullTypeOK' /\ UploadsInOrder
  BY PullTypeStep DEF PullInv
<1>1. /\ uploaded \in SUBSET Log /\ IsFiniteSet(uploaded)
      /\ \A r \in Replicas : MergerOK(uploaded, state[r], failed[r], batch[r])
      /\ \A x \in Replayers : ReplayerOK(uploaded, copy[x], page[x])
      /\ TypeOK /\ ReplayTypeOK
  BY DEF PullInv, PullTypeOK
<1> DEFINE Goal == /\ IsFiniteSet(uploaded')
                   /\ \A r \in Replicas : MergerOK(uploaded', state'[r], failed'[r], batch'[r])
                   /\ \A x \in Replayers : ReplayerOK(uploaded', copy'[x], page'[x])
<1>2. UNCHANGED <<vars, replayVars, uploaded>> => Goal
  BY <1>1 DEF vars, replayVars
<1>3. ASSUME NEW r \in Replicas, NEW ev \in Log, Merging(r, ev) PROVE Goal
  <2>1. /\ state'[r] = MergeEvent(state[r], ev)
        /\ failed'[r] = FailedAfter(state[r], failed[r], ev)
        /\ batch'[r] = IF ev.id \notin state[r].applied /\ Fails(state[r], ev)
                         THEN {} ELSE batch[r] \ {ev}
        /\ \A q \in Replicas \ {r} : /\ state'[q] = state[q] /\ failed'[q] = failed[q]
                                     /\ batch'[q] = batch[q]
    BY <1>1, <1>3 DEF Merging, MergesFirst, TypeOK
  <2>2. MergerOK(uploaded, state'[r], failed'[r], batch'[r])
    BY <1>1, <1>3, <2>1, MergerKept DEF Merging, MergesFirst
  <2> QED
    BY <1>1, <1>3, <2>1, <2>2 DEF Merging, replayVars
<1>4. ASSUME NEW x \in Replayers, NEW ev \in Log, Replaying(x, ev) PROVE Goal
  <2>1. /\ copy'[x] = ReplayEvent(copy[x], ev)
        /\ page'[x] = IF ev.id \notin copy[x].applied /\ ReplayFails(ev)
                        THEN {} ELSE page[x] \ {ev}
        /\ \A y \in Replayers \ {x} : copy'[y] = copy[y] /\ page'[y] = page[y]
    BY <1>1, <1>4 DEF Replaying, ReplayNext, ReplayTypeOK
  <2>2. ReplayerOK(uploaded, copy'[x], page'[x])
    BY <1>1, <1>4, <2>1, ReplayerKept DEF Replaying, ReplayNext
  <2> QED
    BY <1>1, <1>4, <2>1, <2>2 DEF Replaying, vars
<1>5. ASSUME NEW r \in Replicas, NEW events \in SUBSET Log, Fetching(r, events) PROVE Goal
  <2>1. /\ batch[r] = {} /\ batch'[r] = events /\ UNCHANGED <<state, failed>>
        /\ \A q \in Replicas \ {r} : batch'[q] = batch[q]
    BY <1>1, <1>5 DEF Fetching, Deliver, TypeOK
  <2>2. Follows(uploaded, state[r].applied, state[r].cursor, {})
    BY <1>1, <2>1 DEF MergerOK
  <2>3. Follows(uploaded, state[r].applied, state[r].cursor, events)
    BY <1>1, <1>5, <2>2, PageFollows DEF Fetching
  <2>4. MergerOK(uploaded, state[r], failed[r], events)
    BY <1>1, <2>3 DEF MergerOK
  <2> QED
    BY <1>1, <1>5, <2>1, <2>4 DEF Fetching, replayVars
<1>6. ASSUME NEW x \in Replayers, NEW events \in SUBSET Log, FetchingPage(x, events)
      PROVE  Goal
  <2>1. /\ page[x] = {} /\ page'[x] = events /\ UNCHANGED copy
        /\ \A y \in Replayers \ {x} : page'[y] = page[y]
    BY <1>1, <1>6 DEF FetchingPage, DeliverPage, ReplayTypeOK
  <2>2. Follows(uploaded, copy[x].applied, copy[x].cursor, {})
    BY <1>1, <2>1 DEF ReplayerOK
  <2>3. Follows(uploaded, copy[x].applied, copy[x].cursor, events)
    BY <1>1, <1>6, <2>2, PageFollows DEF FetchingPage
  <2>4. ReplayerOK(uploaded, copy[x], events)
    BY <1>1, <2>3 DEF ReplayerOK
  <2> QED
    BY <1>1, <1>6, <2>1, <2>4 DEF FetchingPage, vars
<1>7. ASSUME NEW ev \in Log, Uploads(ev) PROVE Goal
  BY <1>7, PullUpload
<1> HIDE DEF Goal
<1>8. Goal
  BY <1>0, <1>2, <1>3, <1>4, <1>5, <1>6, <1>7, PullSteps
<1> QED
  BY <1>0, <1>8 DEF PullInv, Goal

THEOREM PullInvariance == UploadsInOrder /\ PullSpec => []PullInv
  BY PullInitial, PullStep, PTL DEF PullSpec

(* Whatever the sizes of the pages, and whichever end in an error or come  *)
(* twice, no device's cursor passes an event it has not folded             *)
(* (pull_events, package_event_batch, advance_to), if the log grows in key *)
(* order; pull_late_upload shows a device that skips when it does not.     *)
THEOREM CursorSkipsNothing == UploadsInOrder /\ PullSpec => []NothingSkipped
<1>1. PullInv => NothingSkipped
  BY DEF PullInv, MergerOK, ReplayerOK, Follows, NothingSkipped
<1> QED
  BY <1>1, PullInvariance, PTL

(* So replay.rs, which only overwrites, shows the history of what it has   *)
(* folded (replay_event).                                                  *)
THEOREM ReplayShowsHistory == UploadsInOrder /\ PullSpec => []ReplayIsHistory
<1>1. PullInv => ReplayIsHistory
  BY DEF PullInv, ReplayerOK, Replayed, ReplayIsHistory, ReplayApplied
<1> QED
  BY <1>1, PullInvariance, PTL

(* And so does merge.rs, but for reading_progress, until it refuses an     *)
(* event: no version and no tombstone holds off the newest event.          *)
THEOREM MergeShowsHistory == UploadsInOrder /\ PullSpec => []MergeIsHistory
<1>1. PullInv => MergeIsHistory
  BY DEF PullInv, MergerOK, Seen, MergeIsHistory, Applied
<1> QED
  BY <1>1, PullInvariance, PTL
===============================================================================
