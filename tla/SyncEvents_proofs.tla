--------------------------- MODULE SyncEvents_proofs --------------------------
(***************************************************************************)
(* Facts about events and the order of their keys, and about what          *)
(* replay_event does to one SyncReplayState, for any event: what the       *)
(* proofs about the merge, the sync loop and two devices have in common.   *)
(***************************************************************************)
EXTENDS SyncReplay, FiniteSetTheorems, TLAPS

-------------------------------------------------------------------------------
(* The keys of events are totally ordered, NoKey below all of them.        *)
LEMMA KeyTotal ==
  ASSUME NEW k \in Keys, NEW l \in Keys
  PROVE  /\ KeyLess(k, l) \/ k = l \/ KeyLess(l, k)
         /\ ~(KeyLess(k, l) /\ KeyLess(l, k))
         /\ ~KeyLess(k, k)
  BY DEF Keys, KeyLess

LEMMA KeyTransitive ==
  ASSUME NEW k \in Keys, NEW l \in Keys, NEW m \in Keys
  PROVE  /\ KeyLess(k, l) /\ KeyLess(l, m) => KeyLess(k, m)
         /\ KeyLeq(k, l) /\ KeyLess(l, m) => KeyLess(k, m)
         /\ KeyLess(k, l) /\ KeyLeq(l, m) => KeyLess(k, m)
         /\ KeyLeq(k, l) /\ KeyLeq(l, m) => KeyLeq(k, m)
  BY DEF Keys, KeyLess, KeyLeq

(* An event's key is above NoKey, and tells the event.                     *)
LEMMA KeyOfEvent ==
  ASSUME NEW ev \in Log
  PROVE  /\ ev \in Event
         /\ Key(ev) \in Keys
         /\ KeyLess(NoKey, Key(ev))
         /\ Key(ev) # NoKey
  BY LogAssumption DEF Event, Key, Keys, KeyLess, NoKey

LEMMA KeyUnique ==
  ASSUME NEW ev \in Log, NEW o \in Log
  PROVE  /\ Key(ev) = Key(o) => ev = o
         /\ ev.id = o.id => ev = o
  BY UniqueIds, LogAssumption DEF Event, Key

LEMMA NoKeyInKeys == NoKey \in Keys
  BY DEF NoKey, Keys

(* What an event is about follows from what it does.                       *)
LEMMA TargetOfEvent ==
  ASSUME NEW ev \in Log
  PROVE  /\ ev.change \in {"upsert", "delete"} => ev.target \in Entities
         /\ ev.change \in {"attach", "detach"} => ev.target \in Relations
         /\ ev.change \in {"upsert", "delete", "attach", "detach", "malformed"}
         /\ ev.target \in Entities => ev.change \notin {"attach", "detach"}
         /\ ev.target \in Relations => ev.change \notin {"upsert", "delete"}
  BY LogAssumption, EntityAssumption
  DEF Event, EntityChanges, RelationChanges

-------------------------------------------------------------------------------
(* The cursor moves to a later event only.                                 *)
LEMMA AdvanceIsLater ==
  ASSUME NEW k \in Keys, NEW ev \in Log
  PROVE  /\ AdvanceTo(k, ev) \in Keys
         /\ KeyLeq(k, AdvanceTo(k, ev))
         /\ KeyLeq(Key(ev), AdvanceTo(k, ev))
         /\ AdvanceTo(k, ev) = k \/ AdvanceTo(k, ev) = Key(ev)
  BY KeyOfEvent, KeyTotal DEF AdvanceTo, KeyLeq

(* A page leaves out no event between the cursor and one of its own.       *)
LEMMA PackageIsPrefix ==
  ASSUME NEW events \in SUBSET Log, IsFiniteSet(events),
         NEW cursor \in Keys, NEW max \in Nat,
         NEW chosen, chosen = Package(events, cursor, max).events
  PROVE  /\ chosen \subseteq EventsAfter(events, cursor)
         /\ \A ev \in chosen, o \in EventsAfter(events, cursor) :
              KeyLess(Key(o), Key(ev)) => o \in chosen
<1> DEFINE available == EventsAfter(events, cursor)
           Before(ev) == {o \in available : KeyLess(Key(o), Key(ev))}
<1>1. chosen = {ev \in available : Cardinality(Before(ev)) < max}
  BY DEF Package
<1>2. available \subseteq events /\ \A ev \in available : ev \in Log /\ Key(ev) \in Keys
  BY KeyOfEvent DEF EventsAfter
<1>3. IsFiniteSet(available)
  BY <1>2, FS_Subset
<1> HIDE DEF available
<1>4. ASSUME NEW ev \in chosen, NEW o \in available, KeyLess(Key(o), Key(ev))
      PROVE  o \in chosen
  <2>1. ev \in available /\ Cardinality(Before(ev)) < max
    BY <1>1
  <2>2. Before(o) \subseteq Before(ev)
    BY <1>2, <1>4, <2>1, KeyTransitive
  <2>3. IsFiniteSet(Before(ev)) /\ IsFiniteSet(Before(o))
    BY <1>3, FS_Subset
  <2> HIDE DEF Before
  <2>4. /\ Cardinality(Before(ev)) \in Nat /\ Cardinality(Before(o)) \in Nat
        /\ Cardinality(Before(o)) <= Cardinality(Before(ev))
    BY <2>2, <2>3, FS_CardinalityType, FS_Subset
  <2>5. Cardinality(Before(o)) < max
    BY <2>1, <2>4
  <2> QED
    BY <1>1, <2>5
<1> QED
  BY <1>1, <1>4 DEF available

-------------------------------------------------------------------------------
(* Where a device is that has applied the events of some ids, has a cursor *)
(* and a page to fold, while some events are on the server.                *)
Follows(served, applied, cursor, todo) ==
  /\ cursor \in Keys
  /\ todo \subseteq served
  /\ \A ev \in Log : ev.id \in applied => ev \in served /\ KeyLeq(Key(ev), cursor)
  /\ cursor = NoKey \/ \E ev \in served : Key(ev) = cursor
  /\ \A ev \in served : KeyLeq(Key(ev), cursor) => ev.id \in applied
  /\ \A ev \in todo, o \in served :
       KeyLess(Key(o), Key(ev)) => o.id \in applied \/ o \in todo

LEMMA FollowsUpload ==
  ASSUME NEW served \in SUBSET Log, NEW applied, NEW cursor, NEW todo,
         Follows(served, applied, cursor, todo),
         NEW ev \in Log, \A o \in served : KeyLess(Key(o), Key(ev))
  PROVE  Follows(served \cup {ev}, applied, cursor, todo)
<1>1. Key(ev) \in Keys /\ KeyLess(NoKey, Key(ev)) /\ NoKey \in Keys
  BY KeyOfEvent, NoKeyInKeys
<1>2. KeyLess(cursor, Key(ev))
  BY <1>1 DEF Follows
<1>3. ~KeyLeq(Key(ev), cursor)
  BY <1>1, <1>2, KeyTotal DEF Follows, KeyLeq
<1>4. \A o \in todo : ~KeyLess(Key(ev), Key(o))
  <2>1. \A o \in todo : Key(o) \in Keys /\ KeyLess(Key(o), Key(ev))
    BY KeyOfEvent DEF Follows
  <2> QED
    BY <1>1, <2>1, KeyTotal
<1> QED
  BY <1>3, <1>4 DEF Follows

(* A page that leaves out no event between the cursor and one of its own.  *)
LEMMA FollowsPage ==
  ASSUME NEW served \in SUBSET Log, NEW applied, NEW cursor,
         Follows(served, applied, cursor, {}),
         NEW chosen \in SUBSET EventsAfter(served, cursor),
         \A ev \in chosen, o \in EventsAfter(served, cursor) :
           KeyLess(Key(o), Key(ev)) => o \in chosen
  PROVE  Follows(served, applied, cursor, chosen)
<1>1. \A o \in served : o \in EventsAfter(served, cursor) \/ KeyLeq(Key(o), cursor)
  BY KeyOfEvent, KeyTotal DEF EventsAfter, Follows, KeyLeq
<1> QED
  BY <1>1 DEF Follows, EventsAfter

(* A page that begins with an event that was folded before.                *)
LEMMA FollowsAgain ==
  ASSUME NEW served \in SUBSET Log, IsFiniteSet(served), NEW applied, NEW cursor,
         Follows(served, applied, cursor, {}), NEW n \in Nat,
         NEW ev \in served, ev.id \in applied,
         NEW chosen, chosen = {ev} \cup Package(served, Key(ev), n).events
  PROVE  Follows(served, applied, cursor, chosen)
<1> DEFINE rest == Package(served, Key(ev), n).events
<1>1. Key(ev) \in Keys /\ KeyLeq(Key(ev), cursor) /\ cursor \in Keys
  BY KeyOfEvent DEF Follows
<1>2. /\ rest \subseteq EventsAfter(served, Key(ev))
      /\ \A b \in rest, o \in EventsAfter(served, Key(ev)) :
           KeyLess(Key(o), Key(b)) => o \in rest
  BY <1>1, PackageIsPrefix
<1> HIDE DEF rest
<1>3. ASSUME NEW b \in chosen, NEW o \in served, KeyLess(Key(o), Key(b))
      PROVE  o.id \in applied \/ o \in chosen
  <2>1. Key(o) \in Keys /\ Key(b) \in Keys
    BY <1>2, KeyOfEvent DEF EventsAfter, rest
  <2>2. CASE KeyLess(Key(ev), Key(o))
    <3>1. o \in EventsAfter(served, Key(ev)) /\ b # ev
      BY <1>1, <1>3, <2>1, <2>2, KeyTotal DEF EventsAfter
    <3> QED
      BY <1>2, <1>3, <3>1 DEF rest
  <2>3. CASE ~KeyLess(Key(ev), Key(o))
    <3>1. KeyLeq(Key(o), cursor)
      BY <1>1, <2>1, <2>3, KeyTotal, KeyTransitive DEF KeyLeq
    <3> QED
      BY <3>1 DEF Follows
  <2> QED
    BY <2>2, <2>3
<1>4. chosen \subseteq served
  BY <1>2 DEF EventsAfter, rest
<1> QED
  BY <1>3, <1>4 DEF Follows

(* The first event of the page is done with, or the page is dropped.       *)
LEMMA FollowsNext ==
  ASSUME NEW served \in SUBSET Log, NEW applied, NEW cursor, NEW todo,
         Follows(served, applied, cursor, todo)
  PROVE  /\ Follows(served, applied, cursor, {})
         /\ \A ev \in todo : ev.id \in applied => Follows(served, applied, cursor, todo \ {ev})
         /\ \A ev \in todo : IsFirst(ev, todo) =>
              Follows(served, applied \cup {ev.id}, AdvanceTo(cursor, ev), todo \ {ev})
<1>1. Follows(served, applied, cursor, {})
  BY DEF Follows
<1>2. ASSUME NEW ev \in todo, ev.id \in applied
      PROVE  Follows(served, applied, cursor, todo \ {ev})
  BY <1>2 DEF Follows
<1>3. ASSUME NEW ev \in todo, IsFirst(ev, todo)
      PROVE  Follows(served, applied \cup {ev.id}, AdvanceTo(cursor, ev), todo \ {ev})
  <2> DEFINE next == AdvanceTo(cursor, ev)
  <2>1. ev \in Log /\ ev \in served /\ cursor \in Keys /\ Key(ev) \in Keys
    BY KeyOfEvent DEF Follows
  <2>2. /\ next \in Keys /\ KeyLeq(cursor, next) /\ KeyLeq(Key(ev), next)
        /\ next = cursor \/ next = Key(ev)
    BY <2>1, AdvanceIsLater
  <2> HIDE DEF next
  <2>3. \A o \in served : o \in Log /\ Key(o) \in Keys
    BY KeyOfEvent
  <2>4. ASSUME NEW o \in served, KeyLess(Key(o), Key(ev)) PROVE o.id \in applied
    <3>1. o \notin todo
      BY <1>3, <2>1, <2>3, <2>4, KeyTotal DEF IsFirst, KeyLeq
    <3> QED
      BY <2>4, <3>1 DEF Follows
  <2>5. ASSUME NEW o \in served, KeyLeq(Key(o), next) PROVE o.id \in applied \cup {ev.id}
    <3>1. CASE next = cursor
      BY <2>5, <3>1 DEF Follows
    <3>2. CASE next = Key(ev)
      BY <2>1, <2>3, <2>4, <2>5, <3>2, KeyUnique DEF KeyLeq
    <3> QED
      BY <2>2, <3>1, <3>2
  <2>6. ASSUME NEW o \in Log, o.id \in applied \cup {ev.id}
        PROVE  o \in served /\ KeyLeq(Key(o), next)
    <3>1. CASE o.id = ev.id
      BY <2>1, <2>2, <3>1, KeyUnique
    <3>2. CASE o.id \in applied
      <4>1. o \in served /\ KeyLeq(Key(o), cursor)
        BY <3>2 DEF Follows
      <4> QED
        BY <2>1, <2>2, <2>3, <4>1, KeyTransitive
    <3> QED
      BY <2>6, <3>1, <3>2
  <2>7. ASSUME NEW b \in todo \ {ev}, NEW o \in served, KeyLess(Key(o), Key(b))
        PROVE  o.id \in applied \cup {ev.id} \/ o \in todo \ {ev}
    BY <2>7 DEF Follows
  <2>8. next = NoKey \/ \E o \in served : Key(o) = next
    BY <2>1, <2>2 DEF Follows
  <2>9. todo \ {ev} \subseteq served
    BY DEF Follows
  <2> QED
    BY <2>2, <2>5, <2>6, <2>7, <2>8, <2>9 DEF Follows, next
<1> QED
  BY <1>1, <1>2, <1>3

(* An event that is newly applied is newer than all that were.             *)
LEMMA FollowsNewest ==
  ASSUME NEW served \in SUBSET Log, NEW applied, NEW cursor, NEW todo,
         Follows(served, applied, cursor, todo),
         NEW ev \in todo, ev.id \notin applied,
         NEW o \in Log, o.id \in applied
  PROVE  KeyLess(Key(o), Key(ev))
<1>1. /\ ev \in served /\ ev \in Log /\ Key(ev) \in Keys /\ Key(o) \in Keys
      /\ cursor \in Keys /\ KeyLeq(Key(o), cursor)
  BY KeyOfEvent DEF Follows
<1>2. ~KeyLeq(Key(ev), cursor)
  BY <1>1 DEF Follows
<1> QED
  BY <1>1, <1>2, KeyTotal, KeyTransitive DEF KeyLeq

-------------------------------------------------------------------------------
(* An event takes a replayed state to another.                             *)
LEMMA ReplayKeepsType ==
  ASSUME NEW s \in ReplayState, NEW ev \in Log
  PROVE  ReplayEvent(s, ev) \in ReplayState
<1>1. CASE ev.id \in s.applied \/ ReplayFails(ev)
  BY <1>1 DEF ReplayEvent
<1>2. CASE ~(ev.id \in s.applied \/ ReplayFails(ev))
  <2>1. ev \in Event /\ Key(ev) \in Keys /\ ev.fields \in [Fields -> Values]
    BY KeyOfEvent DEF Event
  <2>2. Absent \in Values
    BY DEF Values
  <2>3. ReplayDispatch(s, ev) \in ReplayState
    <3>1. CASE ev.change = "upsert"
      <4>1. ev.target \in Entities
        BY <3>1, TargetOfEvent
      <4> DEFINE old == s.fields[ev.target]
                 row == [f \in Fields |-> IF ev.fields[f] # Absent THEN ev.fields[f] ELSE old[f]]
      <4>2. row \in [Fields -> Values]
        BY <2>1, <4>1 DEF ReplayState
      <4> DEFINE next == [s EXCEPT !.present = @ \cup {ev.target}, !.fields[ev.target] = row]
      <4>3. ReplayDispatch(s, ev) = next
        BY <3>1 DEF ReplayDispatch, UpsertEntityMap
      <4>4. next \in ReplayState
        <5> HIDE DEF row
        <5> QED
          BY <4>1, <4>2 DEF ReplayState
      <4> QED
        BY <4>3, <4>4
    <3>2. CASE ev.change = "delete"
      <4>1. ev.target \in Entities
        BY <3>2, TargetOfEvent
      <4> DEFINE row == [f \in Fields |-> Absent]
      <4>2. row \in [Fields -> Values]
        BY <2>2
      <4> DEFINE next == [s EXCEPT !.present = @ \ {ev.target}, !.fields[ev.target] = row]
      <4>3. ReplayDispatch(s, ev) = next
        BY <3>2 DEF ReplayDispatch, DeleteEntityMap
      <4>4. next \in ReplayState
        <5> HIDE DEF row
        <5> QED
          BY <4>1, <4>2 DEF ReplayState
      <4> QED
        BY <4>3, <4>4
    <3>3. CASE ev.change = "attach"
      <4>1. ev.target \in Relations
        BY <3>3, TargetOfEvent
      <4>2. ReplayDispatch(s, ev) = [s EXCEPT !.members = @ \cup {ev.target}]
        BY <3>3 DEF ReplayDispatch
      <4> QED
        BY <4>1, <4>2 DEF ReplayState
    <3>4. CASE ev.change = "detach"
      <4>1. ReplayDispatch(s, ev) = [s EXCEPT !.members = @ \ {ev.target}]
        BY <3>4 DEF ReplayDispatch
      <4> QED
        BY <4>1 DEF ReplayState
    <3> QED
      BY <1>2, <3>1, <3>2, <3>3, <3>4, TargetOfEvent DEF ReplayFails
  <2> DEFINE next == ReplayDispatch(s, ev)
  <2>4. ReplayEvent(s, ev) = [next EXCEPT !.applied = @ \cup {ev.id}, !.cursor = AdvanceTo(@, ev)]
    BY <1>2 DEF ReplayEvent
  <2>5. next \in ReplayState
    BY <2>3
  <2> HIDE DEF next
  <2>6. [next EXCEPT !.applied = @ \cup {ev.id}, !.cursor = AdvanceTo(@, ev)] \in ReplayState
    BY <2>1, <2>5 DEF AdvanceTo, ReplayState, Event
  <2> QED
    BY <2>4, <2>6
<1> QED
  BY <1>1, <1>2

(* What a replayed event changes, and what it leaves alone.                *)
LEMMA ReplayEffect ==
  ASSUME NEW s \in ReplayState, NEW ev \in Log,
         ev.id \notin s.applied, ~ReplayFails(ev),
         NEW t, t = ReplayEvent(s, ev)
  PROVE  /\ t.applied = s.applied \cup {ev.id}
         /\ t.cursor = AdvanceTo(s.cursor, ev)
         /\ ev.change \in {"upsert", "delete", "attach", "detach"}
         /\ ev.change = "upsert" =>
              /\ t.present = s.present \cup {ev.target} /\ t.members = s.members
              /\ \A e \in Entities, f \in Fields :
                   t.fields[e][f] = IF e = ev.target /\ ev.fields[f] # Absent
                                      THEN ev.fields[f] ELSE s.fields[e][f]
         /\ ev.change = "delete" =>
              /\ t.present = s.present \ {ev.target} /\ t.members = s.members
              /\ \A e \in Entities, f \in Fields :
                   t.fields[e][f] = IF e = ev.target THEN Absent ELSE s.fields[e][f]
         /\ ev.change = "attach" =>
              /\ t.present = s.present /\ t.fields = s.fields
              /\ t.members = s.members \cup {ev.target}
         /\ ev.change = "detach" =>
              /\ t.present = s.present /\ t.fields = s.fields
              /\ t.members = s.members \ {ev.target}
<1> DEFINE d == ReplayDispatch(s, ev)
<1>1. t = [d EXCEPT !.applied = @ \cup {ev.id}, !.cursor = AdvanceTo(@, ev)]
  BY DEF ReplayEvent
<1>2. ev.change \in {"upsert", "delete", "attach", "detach"}
  BY TargetOfEvent DEF ReplayFails
<1>3. CASE ev.change = "upsert"
  <2>1. ev.target \in Entities
    BY <1>3, TargetOfEvent
  <2> DEFINE old == s.fields[ev.target]
             row == [f \in Fields |-> IF ev.fields[f] # Absent THEN ev.fields[f] ELSE old[f]]
  <2>2. d = [s EXCEPT !.present = @ \cup {ev.target}, !.fields[ev.target] = row]
    BY <1>3 DEF ReplayDispatch, UpsertEntityMap
  <2> HIDE DEF d, row
  <2>3. /\ t.applied = s.applied \cup {ev.id} /\ t.cursor = AdvanceTo(s.cursor, ev)
        /\ t.present = s.present \cup {ev.target} /\ t.members = s.members
        /\ t.fields = [s.fields EXCEPT ![ev.target] = row]
    BY <1>1, <2>2 DEF ReplayState
  <2>4. \A e \in Entities : t.fields[e] = IF e = ev.target THEN row ELSE s.fields[e]
    BY <2>1, <2>3 DEF ReplayState
  <2> QED
    BY <1>2, <1>3, <2>3, <2>4 DEF row
<1>4. CASE ev.change = "delete"
  <2>1. ev.target \in Entities
    BY <1>4, TargetOfEvent
  <2> DEFINE row == [f \in Fields |-> Absent]
  <2>2. d = [s EXCEPT !.present = @ \ {ev.target}, !.fields[ev.target] = row]
    BY <1>4 DEF ReplayDispatch, DeleteEntityMap
  <2> HIDE DEF d, row
  <2>3. /\ t.applied = s.applied \cup {ev.id} /\ t.cursor = AdvanceTo(s.cursor, ev)
        /\ t.present = s.present \ {ev.target} /\ t.members = s.members
        /\ t.fields = [s.fields EXCEPT ![ev.target] = row]
    BY <1>1, <2>2 DEF ReplayState
  <2>4. \A e \in Entities : t.fields[e] = IF e = ev.target THEN row ELSE s.fields[e]
    BY <2>1, <2>3 DEF ReplayState
  <2> QED
    BY <1>2, <1>4, <2>3, <2>4 DEF row
<1>5. CASE ev.change = "attach"
  <2>1. d = [s EXCEPT !.members = @ \cup {ev.target}]
    BY <1>5 DEF ReplayDispatch
  <2> HIDE DEF d
  <2> QED
    BY <1>1, <1>2, <1>5, <2>1 DEF ReplayState
<1>6. CASE ev.change = "detach"
  <2>1. d = [s EXCEPT !.members = @ \ {ev.target}]
    BY <1>6 DEF ReplayDispatch
  <2> HIDE DEF d
  <2> QED
    BY <1>1, <1>2, <1>6, <2>1 DEF ReplayState
<1> QED
  BY <1>2, <1>3, <1>4, <1>5, <1>6

(* The events a replayed state holds, and its cursor, after one more.      *)
Replayed(s) == {ev \in Log : ev.id \in s.applied}

LEMMA ReplayedAfter ==
  ASSUME NEW s \in ReplayState, NEW ev \in Log, NEW t, t = ReplayEvent(s, ev)
  PROVE  IF ev.id \in s.applied \/ ReplayFails(ev) THEN t = s
         ELSE /\ Replayed(t) = Replayed(s) \cup {ev}
              /\ t.cursor = AdvanceTo(s.cursor, ev)
<1>1. CASE ev.id \in s.applied \/ ReplayFails(ev)
  BY <1>1 DEF ReplayEvent
<1>2. CASE ~(ev.id \in s.applied \/ ReplayFails(ev))
  <2>1. t.applied = s.applied \cup {ev.id} /\ t.cursor = AdvanceTo(s.cursor, ev)
    BY <1>2, ReplayEffect
  <2>2. \A o \in Log : o.id = ev.id => o = ev
    BY UniqueIds
  <2> QED
    BY <1>2, <2>1, <2>2 DEF Replayed
<1> QED
  BY <1>1, <1>2
===============================================================================
