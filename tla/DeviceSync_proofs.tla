--------------------------- MODULE DeviceSync_proofs --------------------------
(***************************************************************************)
(* Proofs about DeviceSync, for any plan, any objects of others and any    *)
(* number of attempts: what one device's tables, outbox and published      *)
(* objects have to do with each other.                                     *)
(*                                                                         *)
(* The invariant says, from the tables outwards, what an open transaction  *)
(* will make of the database (DraftOK), what the tables have to do with    *)
(* the outbox (OutboxTellsOfTables), and what a running call has already   *)
(* put on the server (CallOK).  Keys are the callers': the order in which  *)
(* events were committed (before) says which of two came first.            *)
(***************************************************************************)
EXTENDS DeviceSync, SyncEvents_proofs

-------------------------------------------------------------------------------
(* after is the database d with the change ev made, but for the outbox.    *)
ChangeMade(d, ev, after) ==
  /\ after.existing = d.existing \cup ({ev.target} \cap Entities)
  /\ after.links = d.links \cup ({ev.target} \cap Relations)
  /\ \A e \in Entities : e # ev.target => after.rows[e] = d.rows[e]
  /\ ev.target \in Entities =>
       /\ \A f \in ChangedFields(ev) : after.rows[ev.target][f] = ev.fields[f]
       /\ \A f \in Fields \ ChangedFields(ev) :
            /\ ev.target \in Annotations => after.rows[ev.target][f] = Absent
            /\ ev.target \in Feeds => after.rows[ev.target][f] = d.rows[ev.target][f]

(* An open transaction of a change that is new, or that repeats one whose  *)
(* event the outbox has.                                                   *)
DraftOK ==
  draft # None =>
    LET ev == draft.event
    IN  /\ ev \in Plan
        /\ ~draft.noted => ChangeMade(db, ev, draft.after) /\ draft.after.outbox = db.outbox
        /\ draft.noted =>
             \/ draft.after = db /\ ev.target \notin UserStates
             \/ /\ ChangeMade(db, ev, draft.after)
                /\ draft.after.outbox = db.outbox \cup {ev}
                /\ ev \notin db.outbox
                /\ ev.target \notin Annotations \cap db.existing

(* Of two events of the outbox one was committed first.                    *)
TablesOK ==
  /\ OutboxTypeOK /\ db.outbox \subseteq Plan /\ stale \subseteq UserStates \X Fields
  /\ before \subseteq db.outbox \X db.outbox
  /\ \A o, ev \in db.outbox : o = ev \/ <<o, ev>> \in before \/ <<ev, o>> \in before

(* A plain fact about a plan's event.                                      *)
LEMMA EventOfPlan ==
  ASSUME NEW ev \in Plan
  PROVE  /\ ev \in Log /\ ev \in Event /\ ev.fields \in Row
         /\ Key(ev) \in Keys
         /\ ev.target \in Entities \/ ev.target \in Relations
         /\ ~(ev.target \in Entities /\ ev.target \in Relations)
  BY PlanAssumption, KeyOfEvent, EntityAssumption DEF Event, Row

(* An event keeps its payload: the fields that changed have the values the *)
(* tables have now.                                                        *)
LEMMA PayloadIsEvent ==
  ASSUME NEW ev \in Plan, NEW old, NEW new,
         \A f \in ChangedFields(ev) : new[f] = ev.fields[f]
  PROVE  [ev EXCEPT !.fields = SelectChangedFields(ev, old, new)] = ev
<1>1. ev.fields \in [Fields -> Values] /\ ev \in Event
  BY EventOfPlan DEF Row
<1>2. SelectChangedFields(ev, old, new) = ev.fields
  BY <1>1 DEF SelectChangedFields, ChangedFields
<1>3. [ev EXCEPT !.fields = ev.fields] = ev
  BY <1>1 DEF Event
<1> QED
  BY <1>2, <1>3

LEMMA OverlayType ==
  ASSUME NEW ev \in Plan, NEW row \in Row
  PROVE  /\ Overlay(row, ev) \in Row
         /\ \A f \in ChangedFields(ev) : Overlay(row, ev)[f] = ev.fields[f]
         /\ \A f \in Fields \ ChangedFields(ev) : Overlay(row, ev)[f] = row[f]
  BY EventOfPlan DEF Overlay, Row, ChangedFields

LEMMA WithRowType ==
  ASSUME NEW d \in Database, NEW e \in Entities, NEW row \in Row
  PROVE  /\ WithRow(d, e, row) \in Database
         /\ WithRow(d, e, row).existing = d.existing \cup {e}
         /\ WithRow(d, e, row).links = d.links
         /\ WithRow(d, e, row).outbox = d.outbox
         /\ WithRow(d, e, row).rows[e] = row
         /\ \A o \in Entities : o # e => WithRow(d, e, row).rows[o] = d.rows[o]
  BY DEF WithRow, Database

(* The statement of each of the four operations makes its change.          *)
LEMMA WrittenMakesChange ==
  ASSUME NEW d \in Database, NEW ev \in Plan, NEW seen \in [UserStates -> Row]
  PROVE  /\ Written(d, ev, seen) \in Database
         /\ Written(d, ev, seen).outbox = d.outbox
         /\ ChangeMade(d, ev, Written(d, ev, seen))
<1> DEFINE after == Written(d, ev, seen)
<1>1. CASE ev.target \in UserStates
  <2>1. after = WithRow(d, ev.target, Overlay(seen[ev.target], ev))
    BY <1>1, PlanAssumption, EntityAssumption DEF Written, UpdateUserState, Feeds
  <2>2. ev.target \in Entities /\ ev.target \notin Annotations /\ ev.target \notin Feeds
        /\ ev.target \notin Relations
    BY <1>1, PlanAssumption, EntityAssumption DEF Feeds
  <2>3. seen[ev.target] \in Row
    BY <1>1
  <2> QED
    BY <2>1, <2>2, <2>3, OverlayType, WithRowType DEF ChangeMade
<1>2. CASE ev.target \in Annotations
  <2>1. after = WithRow(d, ev.target, ev.fields)
    BY <1>2, PlanAssumption, EntityAssumption DEF Written, Feeds
  <2>2. ev.target \in Entities /\ ev.target \notin Feeds /\ ev.target \notin Relations
    BY <1>2, PlanAssumption, EntityAssumption DEF Feeds
  <2>3. \A f \in Fields \ ChangedFields(ev) : ev.fields[f] = Absent
    BY DEF ChangedFields
  <2> QED
    BY <2>1, <2>2, <2>3, EventOfPlan, WithRowType DEF ChangeMade
<1>3. CASE ev.target \in Feeds
  <2>1. after = WithRow(d, ev.target, Overlay(d.rows[ev.target], ev))
    BY <1>3, PlanAssumption, EntityAssumption DEF Written, Feeds, MoveFeed
  <2>2. ev.target \in Entities /\ ev.target \notin Annotations /\ ev.target \notin Relations
    BY <1>3, EntityAssumption DEF Feeds
  <2>3. d.rows[ev.target] \in Row
    BY <2>2 DEF Database
  <2> QED
    BY <2>1, <2>2, <2>3, OverlayType, WithRowType DEF ChangeMade
<1>4. CASE ev.target \in Relations
  <2>1. ev.target \notin Entities /\ ev.target \notin Annotations
        /\ ev.target \notin Feeds /\ ev.target \notin UserStates
    BY <1>4, PlanAssumption, EntityAssumption DEF Feeds
  <2>2. after = [d EXCEPT !.links = @ \cup {ev.target}]
    BY <1>4, <2>1 DEF Written
  <2> QED
    BY <1>4, <2>1, <2>2 DEF ChangeMade, Database
<1> QED
  BY <1>1, <1>2, <1>3, <1>4, EventOfPlan DEF Feeds

-------------------------------------------------------------------------------
(* An event that is committed decides the columns it writes and no other.  *)
LEMMA LastToldOfNew ==
  ASSUME NEW events, NEW order, NEW ev, ev \notin events, order \subseteq events \X events,
         NEW e, NEW f \in Fields
  PROVE  /\ ev.target = e /\ f \in ChangedFields(ev) =>
              LastTold(events \cup {ev}, order \cup (events \X {ev}), e, f) = ev.fields[f]
         /\ ~(ev.target = e /\ f \in ChangedFields(ev)) =>
              LastTold(events \cup {ev}, order \cup (events \X {ev}), e, f)
                = LastTold(events, order, e, f)
<1> DEFINE Writers(s) == {o \in s : o.target = e /\ o.fields[f] # Absent}
           after      == order \cup (events \X {ev})
           Last(c, writers, ord) == \A o \in writers : o = c \/ <<o, c>> \in ord
           ValueOf(writers, ord) ==
             IF writers = {} THEN Absent
             ELSE (CHOOSE c \in writers : Last(c, writers, ord)).fields[f]
<1>1. \A s, ord : LastTold(s, ord, e, f) = ValueOf(Writers(s), ord)
  BY DEF LastTold
<1>2. ASSUME ev.target = e, f \in ChangedFields(ev)
      PROVE  ValueOf(Writers(events \cup {ev}), after) = ev.fields[f]
  <2> DEFINE All == Writers(events \cup {ev})
  <2>1. ev \in All /\ \A o \in All : o = ev \/ o \in events
    BY <1>2 DEF ChangedFields
  <2>2. Last(ev, All, after)
    BY <2>1
  <2>3. ASSUME NEW c \in All, Last(c, All, after) PROVE c = ev
    BY <2>1, <2>3
  <2> HIDE DEF All, after, Last
  <2>4. (CHOOSE c \in All : Last(c, All, after)) = ev
    BY <2>1, <2>2, <2>3
  <2>5. ValueOf(All, after) = (CHOOSE c \in All : Last(c, All, after)).fields[f]
    BY <2>1
  <2> QED
    BY <2>4, <2>5 DEF All
<1>3. ASSUME ~(ev.target = e /\ f \in ChangedFields(ev))
      PROVE  ValueOf(Writers(events \cup {ev}), after) = ValueOf(Writers(events), order)
  <2> DEFINE All == Writers(events)
  <2>1. Writers(events \cup {ev}) = All
    BY <1>3 DEF ChangedFields
  <2>2. \A c \in All : c \in events /\ c # ev
    OBVIOUS
  <2>3. ASSUME NEW c \in All PROVE Last(c, All, after) <=> Last(c, All, order)
    BY <2>2
  <2> HIDE DEF All, after, Last
  <2>4. (CHOOSE c \in All : Last(c, All, after)) = (CHOOSE c \in All : Last(c, All, order))
    BY <2>3
  <2>5. \A ord : ValueOf(All, ord) = IF All = {} THEN Absent
                                    ELSE (CHOOSE c \in All : Last(c, All, ord)).fields[f]
    OBVIOUS
  <2> HIDE DEF ValueOf
  <2>6. ValueOf(All, after) = ValueOf(All, order)
    BY <2>4, <2>5
  <2> QED
    BY <2>1, <2>6 DEF All
<1> HIDE DEF Writers, ValueOf
<1> QED
  BY <1>1, <1>2, <1>3

-------------------------------------------------------------------------------
(* The steps on the tables, one by one.                                    *)
TablesInv == TablesOK /\ DraftOK /\ OutboxTellsOfTables

LEMMA TablesInitial ==
  ASSUME DeviceInit
  PROVE  TablesInv
<1>1. EmptyRow \in Row /\ \A f \in Fields : EmptyRow[f] = Absent
  BY DEF EmptyRow, Row, Values
<1>2. FirstDatabase \in Database
  BY <1>1, DeviceAssumption DEF FirstDatabase, Database
<1>3. TablesOK
  BY <1>1, <1>2 DEF DeviceInit, OutboxInit, TablesOK, OutboxTypeOK, FirstDatabase
<1>4. DraftOK
  BY DEF DeviceInit, OutboxInit, DraftOK
<1>5. \A e \in Entities, f \in Fields : LastTold({}, {}, e, f) = Absent
  BY DEF LastTold
<1>6. OutboxTellsOfTables
  BY <1>1, <1>5 DEF DeviceInit, OutboxInit, OutboxTellsOfTables, OutboxTellsTables, FirstDatabase
<1> QED
  BY <1>3, <1>4, <1>6 DEF TablesInv

LEMMA TablesOfBegin ==
  ASSUME TablesInv, NEW ev \in Plan, BeginChange(ev)
  PROVE  TablesInv'
<1>1. db \in Database /\ view \in [UserStates -> Row]
  BY DEF TablesInv, TablesOK, OutboxTypeOK
<1>2. /\ draft' = [event |-> ev, noted |-> NoRows(db, ev),
                   after |-> IF NoRows(db, ev) THEN db ELSE Written(db, ev, view)]
      /\ UNCHANGED <<db, view, stale, before>>
  BY DEF BeginChange
<1>3. draft' \in [event : Plan, noted : BOOLEAN, after : Database]
  BY <1>1, <1>2, WrittenMakesChange DEF NoRows
<1>4. NoRows(db, ev) => ev.target \notin UserStates
  <2>1. db.links \subseteq Relations
    BY <1>1 DEF Database
  <2> QED
    BY <2>1, EntityAssumption DEF NoRows, Feeds
<1>5. DraftOK'
  <2>1. CASE NoRows(db, ev)
    BY <1>2, <1>4, <2>1 DEF DraftOK
  <2>2. CASE ~NoRows(db, ev)
    <3>1. /\ draft'.event = ev /\ ~draft'.noted
          /\ draft'.after.outbox = db.outbox
          /\ ChangeMade(db, ev, draft'.after)
      BY <1>1, <1>2, <2>2, WrittenMakesChange
    <3>2. ChangeMade(db', draft'.event, draft'.after)
      BY <1>2, <3>1
    <3> QED
      BY <1>2, <3>1, <3>2 DEF DraftOK
  <2> QED
    BY <2>1, <2>2
<1> QED
  BY <1>2, <1>3, <1>5 DEF TablesInv, TablesOK, OutboxTypeOK, OutboxTellsOfTables, OutboxTellsTables

LEMMA TablesOfNote ==
  ASSUME TablesInv, NoteChange
  PROVE  TablesInv'
<1> DEFINE ev      == draft.event
           payload == IF ev.target \in Entities
                        THEN SelectChangedFields(ev, db.rows[ev.target], draft.after.rows[ev.target])
                        ELSE ev.fields
<1>1. /\ draft # None /\ ~draft.noted /\ ~Conflicts(db, ev)
      /\ draft' = [draft EXCEPT !.noted = TRUE,
                                !.after.outbox = @ \cup {[ev EXCEPT !.fields = payload]}]
      /\ UNCHANGED <<db, view, stale, before>>
  BY DEF NoteChange
<1>2. /\ ev \in Plan
      /\ ChangeMade(db, ev, draft.after) /\ draft.after.outbox = db.outbox
  BY <1>1 DEF TablesInv, DraftOK
<1>3. [ev EXCEPT !.fields = payload] = ev
  <2>1. CASE ev.target \in Entities
    <3>1. \A f \in ChangedFields(ev) : draft.after.rows[ev.target][f] = ev.fields[f]
      BY <1>2, <2>1 DEF ChangeMade
    <3>2. payload = SelectChangedFields(ev, db.rows[ev.target], draft.after.rows[ev.target])
      BY <2>1
    <3> HIDE DEF ev, payload
    <3> QED
      BY <1>2, <3>1, <3>2, PayloadIsEvent
  <2>2. CASE ev.target \notin Entities
    <3>1. ev \in Event
      BY <1>2, EventOfPlan
    <3> QED
      BY <2>2, <3>1 DEF Event
  <2> QED
    BY <2>1, <2>2
<1>4. draft \in [event : Plan, noted : BOOLEAN, after : Database]
  BY <1>1 DEF TablesInv, TablesOK, OutboxTypeOK
<1>5. draft' = [draft EXCEPT !.noted = TRUE, !.after.outbox = @ \cup {ev}]
  BY <1>1, <1>3
<1>6. /\ draft' \in [event : Plan, noted : BOOLEAN, after : Database]
      /\ draft'.event = ev /\ draft'.noted
      /\ draft'.after.outbox = db.outbox \cup {ev}
      /\ draft'.after.rows = draft.after.rows
      /\ draft'.after.links = draft.after.links
      /\ draft'.after.existing = draft.after.existing
  <2> HIDE DEF ev
  <2>1. ev \in Log
    BY <1>2, EventOfPlan
  <2> QED
    BY <1>2, <1>4, <1>5, <2>1 DEF Database, ev
<1>7. /\ ev \notin db.outbox
      /\ ev.target \notin Annotations \cap db.existing
  BY <1>1, <1>2 DEF Conflicts
<1>8. ChangeMade(db', draft'.event, draft'.after)
  <2>1. ChangeMade(db, ev, draft'.after)
    <3> HIDE DEF ev
    <3> QED
      BY <1>2, <1>6 DEF ChangeMade
  <2> QED
    BY <1>1, <1>6, <2>1
<1>9. DraftOK'
  BY <1>1, <1>2, <1>6, <1>7, <1>8 DEF DraftOK
<1> QED
  BY <1>1, <1>6, <1>9 DEF TablesInv, TablesOK, OutboxTypeOK, OutboxTellsOfTables, OutboxTellsTables

(* A column that no event writes has its default, unless it is stale.      *)
LEMMA UntoldIsAbsent ==
  ASSUME TablesInv, NEW e \in Entities \ db.existing, e \notin UserStates, NEW f \in Fields
  PROVE  db.rows[e][f] = Absent
<1>1. \A o \in db.outbox : o.target # e
  BY DEF TablesInv, OutboxTellsOfTables, OutboxTellsTables
<1>2. LastTold(db.outbox, before, e, f) = Absent
  BY <1>1 DEF LastTold
<1>3. <<e, f>> \notin stale
  BY DEF TablesInv, TablesOK
<1> QED
  BY <1>2, <1>3 DEF TablesInv, OutboxTellsOfTables, OutboxTellsTables

LEMMA TablesOfCommit ==
  ASSUME TablesInv, CommitChange
  PROVE  TablesInv'
<1> DEFINE ev == draft.event
           rewritten == {ev.target} \X ChangedFields(ev)
<1>1. /\ draft # None /\ draft.noted
      /\ db' = draft.after /\ draft' = None
      /\ stale' = (stale \cup Reverted) \ rewritten
      /\ before' = before \cup (db.outbox \X (db'.outbox \ db.outbox))
      /\ UNCHANGED view
  BY DEF CommitChange, Committable
<1>2. /\ ev \in Plan /\ db \in Database /\ db' \in Database
      /\ view \in [UserStates -> Row]
      /\ db.outbox \subseteq Plan /\ stale \subseteq UserStates \X Fields
      /\ before \subseteq db.outbox \X db.outbox
      /\ \A o, p \in db.outbox : o = p \/ <<o, p>> \in before \/ <<p, o>> \in before
  BY <1>1 DEF TablesInv, TablesOK, OutboxTypeOK
<1>3. /\ \A e \in Entities, f \in Fields :
           <<e, f>> \in stale \/ db.rows[e][f] = LastTold(db.outbox, before, e, f)
      /\ db.links = {p \in Relations : \E o \in db.outbox : o.target = p}
      /\ db.existing = FirstRows \cup {e \in Entities : \E o \in db.outbox : o.target = e}
  BY DEF TablesInv, OutboxTellsOfTables, OutboxTellsTables, FirstDatabase
<1>4. CASE db' = db /\ ev.target \notin UserStates
  <2>1. Reverted = {}
    BY <1>1, <1>4 DEF Reverted
  <2>2. stale' = stale
    <3>1. \A c \in stale : c \notin rewritten
      BY <1>2, <1>4
    <3> QED
      BY <1>1, <2>1, <3>1
  <2>3. before' = before
    BY <1>1, <1>4
  <2>4. TablesOK'
    BY <1>1, <1>2, <1>4, <2>2, <2>3, EntityAssumption
    DEF TablesInv, TablesOK, OutboxTypeOK
  <2>5. OutboxTellsOfTables'
    BY <1>3, <1>4, <2>2, <2>3 DEF OutboxTellsOfTables, OutboxTellsTables, FirstDatabase
  <2> QED
    BY <1>1, <2>4, <2>5 DEF TablesInv, DraftOK
<1>5. CASE /\ ChangeMade(db, ev, db')
           /\ db'.outbox = db.outbox \cup {ev}
           /\ ev \notin db.outbox
           /\ ev.target \notin Annotations \cap db.existing
  <2>1. ASSUME NEW c \in Reverted
        PROVE  c \in UserStates \X Fields
    <3>1. /\ c \in Entities \X Fields /\ c[1] = ev.target /\ c[2] \notin ChangedFields(ev)
          /\ db'.rows[ev.target][c[2]] # db.rows[ev.target][c[2]]
      BY <1>1 DEF Reverted
    <3>2. ev.target \in Entities /\ c[2] \in Fields \ ChangedFields(ev)
      BY <3>1
    <3>3. ev.target \notin Feeds
      BY <1>5, <3>1, <3>2 DEF ChangeMade
    <3>4. CASE ev.target \in Annotations
      <4>1. db'.rows[ev.target][c[2]] = Absent
        BY <1>5, <3>2, <3>4 DEF ChangeMade
      <4>2. ev.target \in Entities \ db.existing /\ ev.target \notin UserStates
        BY <1>5, <3>2, <3>4, PlanAssumption
      <4>3. db.rows[ev.target][c[2]] = Absent
        BY <3>2, <4>2, UntoldIsAbsent
      <4> QED
        BY <3>1, <4>1, <4>3
    <3> QED
      BY <3>1, <3>2, <3>3, <3>4 DEF Feeds
  <2>2. TablesOK'
    <3>1. stale' \subseteq UserStates \X Fields
      BY <1>1, <1>2, <2>1
    <3>2. db'.outbox \subseteq Plan
      BY <1>2, <1>5
    <3>3. stale' \subseteq Entities \X Fields
      BY <3>1, EntityAssumption
    <3>4. before' = before \cup (db.outbox \X {ev})
      BY <1>1, <1>5
    <3>5. before' \subseteq db'.outbox \X db'.outbox
      BY <1>2, <1>5, <3>4
    <3>6. \A o, p \in db'.outbox : o = p \/ <<o, p>> \in before' \/ <<p, o>> \in before'
      BY <1>2, <1>5, <3>4
    <3>7. before' \subseteq Log \X Log
      BY <3>2, <3>5, PlanAssumption
    <3> QED
      BY <1>1, <1>2, <3>1, <3>2, <3>3, <3>5, <3>6, <3>7 DEF TablesOK, OutboxTypeOK
  <2>3. ASSUME NEW e \in Entities, NEW f \in Fields, <<e, f>> \notin stale'
        PROVE  db'.rows[e][f] = LastTold(db'.outbox, before', e, f)
    <3> DEFINE wrote == ev.target = e /\ f \in ChangedFields(ev)
    <3>0. /\ wrote => LastTold(db'.outbox, before', e, f) = ev.fields[f]
          /\ ~wrote => LastTold(db'.outbox, before', e, f) = LastTold(db.outbox, before, e, f)
      <4>1. before' = before \cup (db.outbox \X {ev}) /\ ev \notin db.outbox
        BY <1>1, <1>5
      <4>2. before \subseteq db.outbox \X db.outbox /\ db'.outbox = db.outbox \cup {ev}
        BY <1>2, <1>5
      <4> HIDE DEF ev, rewritten
      <4> QED
        BY <4>1, <4>2, LastToldOfNew
    <3>1. CASE ev.target = e /\ f \in ChangedFields(ev)
      <4>1. db'.rows[e][f] = ev.fields[f]
        BY <1>5, <3>1 DEF ChangeMade
      <4> QED
        BY <3>0, <3>1, <4>1
    <3>2. CASE ~(ev.target = e /\ f \in ChangedFields(ev))
      <4>1. <<e, f>> \notin rewritten
        BY <3>2
      <4>2. <<e, f>> \notin stale /\ <<e, f>> \notin Reverted
        BY <1>1, <2>3, <4>1
      <4>3. db'.rows[e][f] = db.rows[e][f]
        <5>1. CASE e # ev.target
          BY <1>5, <5>1 DEF ChangeMade
        <5>2. CASE e = ev.target
          <6>1. f \notin ChangedFields(ev)
            BY <3>2, <5>2
          <6> QED
            BY <1>1, <4>2, <5>2, <6>1 DEF Reverted
        <5> QED
          BY <5>1, <5>2
      <4> QED
        BY <1>3, <3>0, <3>2, <4>2, <4>3
    <3> QED
      BY <3>1, <3>2
  <2>4. db'.links = {p \in Relations : \E o \in db'.outbox : o.target = p}
    BY <1>3, <1>5 DEF ChangeMade
  <2>5. db'.existing = FirstRows \cup {e \in Entities : \E o \in db'.outbox : o.target = e}
    BY <1>3, <1>5 DEF ChangeMade
  <2>6. OutboxTellsOfTables'
    BY <2>3, <2>4, <2>5 DEF OutboxTellsOfTables, OutboxTellsTables, FirstDatabase
  <2> QED
    BY <1>1, <2>2, <2>6 DEF TablesInv, DraftOK
<1>6. \/ db' = db /\ ev.target \notin UserStates
      \/ /\ ChangeMade(db, ev, db')
         /\ db'.outbox = db.outbox \cup {ev}
         /\ ev \notin db.outbox
         /\ ev.target \notin Annotations \cap db.existing
  BY <1>1 DEF TablesInv, DraftOK
<1> QED
  BY <1>4, <1>5, <1>6

(* A row that is read, a roll back and a crash leave the tables alone.     *)
LEMMA TablesOfRest ==
  ASSUME TablesInv, UNCHANGED <<db, stale, before>>,
         draft' = draft \/ draft' = None,
         view' \in [UserStates -> Row]
  PROVE  TablesInv'
  BY DEF TablesInv, TablesOK, OutboxTypeOK, DraftOK, OutboxTellsOfTables, OutboxTellsTables

LEMMA TablesKept ==
  ASSUME TablesInv, [DeviceNext]_deviceVars
  PROVE  TablesInv'
<1>1. /\ view \in [UserStates -> Row]
      /\ \A e \in UserStates : db.rows[e] \in Row
  BY PlanAssumption, EntityAssumption DEF TablesInv, TablesOK, OutboxTypeOK, Database
<1>2. CASE UNCHANGED outboxVars
  BY <1>1, <1>2, TablesOfRest DEF outboxVars
<1>3. ASSUME NEW ev \in Plan, MakeChange(ev)
      PROVE  TablesInv'
  BY <1>3, TablesOfBegin DEF MakeChange
<1>4. CASE LocalStep
  <2>1. ASSUME NEW e \in UserStates, ReadRow(e)
        PROVE  TablesInv'
    BY <1>1, <2>1, TablesOfRest DEF ReadRow
  <2>2. CASE RollBack
    BY <1>1, <2>2, TablesOfRest DEF RollBack
  <2> QED
    BY <1>4, <2>1, <2>2, TablesOfNote, TablesOfCommit DEF LocalStep
<1>5. CASE Crash
  BY <1>1, <1>5, TablesOfRest DEF Crash
<1>6. ASSUME \/ \E ev \in Plan : FailPut(ev)
             \/ \E n \in 1 .. MaxChanges : Put(n)
             \/ PutPending
             \/ \E secret \in Secrets : EnterSecret(secret)
             \/ PullPage \/ FoldNext
             \/ \E o \in Strangers : Stranger(o)
             \/ UNCHANGED deviceVars
      PROVE  UNCHANGED outboxVars
  BY <1>6 DEF FailPut, Put, PutPending, EnterSecret, PullPage, FoldNext, Stranger, deviceVars
<1> QED
  BY <1>2, <1>3, <1>4, <1>5, <1>6 DEF DeviceNext

-------------------------------------------------------------------------------
(* The steps on the server.  A running call is about events of the outbox; *)
(* those it is through with are published, and so is all that is not in    *)
(* the call, sorts before one of its events and was committed before it.   *)
CallOK ==
  /\ call.left \subseteq call.events /\ call.events \subseteq db.outbox
  /\ call.events \ call.left \subseteq Published
  /\ \A ev \in call.events, o \in db.outbox :
       KeyLess(Key(o), Key(ev)) /\ <<o, ev>> \in before => o \in call.events \cup Published

(* A device that has given up has no call running.                         *)
RetryOK ==
  /\ ~retry.exhausted => retry.attempts < MaxAttempts
  /\ call.left # {} => ~retry.exhausted

ServerInv == DavTypeOK /\ RetryOK /\ CallOK /\ PublishedIsPrefix /\ ConfirmedIsPublished

LEMMA ObjectOfEvent ==
  ASSUME NEW ev \in Log
  PROVE  ObjectOf(ev) \in Object /\ ObjectOf(ev) # NoObject
         /\ ObjectOf(ev).payload.key = MasterKey
<1>1. Key(ev) \in Names
  BY KeyOfEvent DEF Names
<1>2. Encrypt(ev) \in [key : {MasterKey, "another key"}, aad : {Metadata(o) : o \in Log}]
  BY DEF Encrypt, EncryptBytes
<1>3. ObjectOf(ev) \in Object
  BY <1>1, <1>2 DEF ObjectOf, Object
<1> QED
  BY <1>3, StoreAssumption DEF ObjectOf, Encrypt, EncryptBytes

(* Putting an event publishes it, and nothing else.                        *)
LEMMA PublishedByPut ==
  ASSUME DavTypeOK, NEW ev \in Plan, store' = [store EXCEPT ![Key(ev)] = ObjectOf(ev)]
  PROVE  /\ store' \in [UsedNames -> Object \cup {NoObject}]
         /\ Published' = Published \cup {ev}
<1>1. ev \in Log /\ Plan \subseteq Log
  BY PlanAssumption
<1>2. \A p \in Plan : Key(p) \in UsedNames
  BY <1>1 DEF UsedNames
<1>3. store \in [UsedNames -> Object \cup {NoObject}]
  BY DEF DavTypeOK
<1>4. \A p \in Plan : store'[Key(p)] = IF p = ev THEN ObjectOf(ev) ELSE store[Key(p)]
  BY <1>1, <1>2, <1>3, KeyUnique
<1> QED
  BY <1>1, <1>2, <1>3, <1>4, ObjectOfEvent DEF Published

(* What others leave and remove has other names.                           *)
LEMMA PublishedByStranger ==
  ASSUME DavTypeOK, NEW o \in Strangers, NEW new \in Object \cup {NoObject},
         store' = [store EXCEPT ![o.name] = new]
  PROVE  /\ store' \in [UsedNames -> Object \cup {NoObject}]
         /\ Published' = Published
<1>1. store \in [UsedNames -> Object \cup {NoObject}]
  BY DEF DavTypeOK
<1>2. \A p \in Plan : store'[Key(p)] = store[Key(p)]
  <2>1. \A p \in Plan : Key(p) \in UsedNames /\ o.name # Key(p)
    BY PlanAssumption, NamesAssumption DEF UsedNames
  <2> QED
    BY <1>1, <2>1
<1> QED
  BY <1>1, <1>2 DEF Published

LEMMA ServerInitial ==
  ASSUME DeviceInit
  PROVE  ServerInv
<1>1. store = [n \in UsedNames |-> NoObject] /\ call = NoCall /\ confirmed = {}
      /\ retry = NoRetry /\ masterKey = NoKeyYet
  BY DEF DeviceInit, DavInit
<1>2. Published = {}
  <2>1. \A p \in Plan : Key(p) \in UsedNames
    BY PlanAssumption DEF UsedNames
  <2> QED
    BY <1>1, <2>1 DEF Published
<1> QED
  BY <1>1, <1>2, StoreAssumption
  DEF ServerInv, DavTypeOK, RetryOK, CallOK, PublishedIsPrefix, ConfirmedIsPublished,
      NoCall, NoRetry

(* What a commit adds to the outbox comes after all that is there.         *)
OutboxExtended ==
  /\ db.outbox \subseteq db'.outbox
  /\ before' = before \cup (db.outbox \X (db'.outbox \ db.outbox))

LEMMA OutboxGrows ==
  ASSUME TablesInv, [DeviceNext]_deviceVars
  PROVE  OutboxExtended
<1>1. CASE CommitChange
  BY <1>1 DEF CommitChange, Committable, TablesInv, DraftOK, OutboxExtended
<1>2. CASE UNCHANGED <<db, before>>
  BY <1>2 DEF OutboxExtended
<1>3. CommitChange \/ UNCHANGED <<db, before>>
  <2>1. UNCHANGED deviceVars => UNCHANGED <<db, before>>
    BY DEF deviceVars, outboxVars
  <2> QED
    BY <2>1 DEF DeviceNext, MakeChange, BeginChange, LocalStep, ReadRow, NoteChange, RollBack,
                Crash, FailPut, Put, PutPending, EnterSecret, PullPage, FoldNext, Stranger,
                outboxVars
<1> QED
  BY <1>1, <1>2, <1>3

(* While the store and the call stay, a growing outbox harms nothing.      *)
LEMMA ServerOfTables ==
  ASSUME TablesInv, TablesInv', ServerInv, UNCHANGED <<store, call, confirmed, retry>>,
         masterKey' \in {NoKeyYet, MasterKey},
         OutboxExtended
  PROVE  ServerInv'
<1>1. Published' = Published
  BY DEF Published
<1>2. \A ev \in db.outbox, o \in db'.outbox :
        <<o, ev>> \in before' => o \in db.outbox /\ <<o, ev>> \in before
  BY DEF OutboxExtended, TablesInv, TablesOK
<1>3. DavTypeOK' /\ RetryOK'
  BY DEF ServerInv, DavTypeOK, RetryOK
<1>4. CallOK'
  BY <1>1, <1>2 DEF ServerInv, CallOK, OutboxExtended
<1>5. PublishedIsPrefix' /\ ConfirmedIsPublished'
  BY <1>1, <1>2 DEF OutboxExtended, ServerInv, PublishedIsPrefix, ConfirmedIsPublished
<1> QED
  BY <1>3, <1>4, <1>5 DEF ServerInv

LEMMA ServerOfBegin ==
  ASSUME TablesInv, ServerInv, UNCHANGED <<db, before>>, BeginPut(db.outbox \ confirmed)
  PROVE  ServerInv'
<1>1. /\ call' = [events |-> db.outbox \ confirmed, left |-> db.outbox \ confirmed]
      /\ ~retry.exhausted
      /\ UNCHANGED <<store, confirmed, retry, masterKey>>
  BY DEF BeginPut
<1>2. Published' = Published
  BY <1>1 DEF Published
<1>3. db.outbox \subseteq Log
  BY PlanAssumption DEF TablesInv, TablesOK
<1>4. DavTypeOK' /\ RetryOK'
  BY <1>1, <1>3 DEF ServerInv, DavTypeOK, RetryOK
<1>5. CallOK'
  BY <1>1, <1>2 DEF ServerInv, ConfirmedIsPublished, CallOK
<1>6. PublishedIsPrefix' /\ ConfirmedIsPublished'
  BY <1>1, <1>2 DEF ServerInv, PublishedIsPrefix, ConfirmedIsPublished
<1> QED
  BY <1>4, <1>5, <1>6 DEF ServerInv

(* What sorts before the event that is put next, and was committed before  *)
(* it, is published.                                                       *)
LEMMA NextIsFirst ==
  ASSUME TablesInv, ServerInv, NEW ev \in db.outbox, IsNext(ev, call.left),
         NEW o \in db.outbox, KeyLess(Key(o), Key(ev)), <<o, ev>> \in before
  PROVE  o \in Published
<1>1. ev \in call.left /\ ev \in call.events
  BY DEF IsNext, IsFirst, ServerInv, CallOK
<1>2. o \in call.events \cup Published
  BY <1>1 DEF ServerInv, CallOK
<1>3. o \notin call.left
  <2>1. Key(ev) \in Keys /\ Key(o) \in Keys
    BY EventOfPlan DEF TablesInv, TablesOK
  <2> SUFFICES ASSUME o \in call.left
               PROVE  FALSE
    OBVIOUS
  <2>2. KeyLeq(Key(ev), Key(o))
    BY DEF IsNext, IsFirst
  <2> QED
    BY <2>1, <2>2, KeyTotal DEF KeyLeq
<1> QED
  BY <1>2, <1>3 DEF ServerInv, CallOK

LEMMA PrefixOfPut ==
  ASSUME TablesInv, ServerInv, UNCHANGED <<db, before>>, NEW ev, IsNext(ev, call.left),
         store' = [store EXCEPT ![Key(ev)] = ObjectOf(ev)]
  PROVE  /\ ev \in db.outbox /\ ev \in Plan
         /\ store' \in [UsedNames -> Object \cup {NoObject}]
         /\ Published' = Published \cup {ev}
         /\ PublishedIsPrefix'
<1>1. ev \in db.outbox /\ ev \in Plan
  BY DEF IsNext, IsFirst, ServerInv, CallOK, TablesInv, TablesOK
<1>2. /\ store' \in [UsedNames -> Object \cup {NoObject}]
      /\ Published' = Published \cup {ev}
  BY <1>1, PublishedByPut DEF ServerInv
<1>3. PublishedIsPrefix'
  BY <1>1, <1>2, NextIsFirst DEF ServerInv, PublishedIsPrefix
<1> QED
  BY <1>1, <1>2, <1>3

LEMMA ServerOfPut ==
  ASSUME TablesInv, ServerInv, UNCHANGED <<db, before>>, NEW ev, PutObject(ev)
  PROVE  ServerInv'
<1>1. /\ IsNext(ev, call.left)
      /\ store' = [store EXCEPT ![Key(ev)] = ObjectOf(ev)]
      /\ masterKey' = masterKey
  BY DEF PutObject
<1>2. /\ ev \in db.outbox /\ ev \in Plan
      /\ store' \in [UsedNames -> Object \cup {NoObject}]
      /\ Published' = Published \cup {ev}
      /\ PublishedIsPrefix'
  BY <1>1, PrefixOfPut
<1>3. CASE call.left = {ev}
  <2>1. confirmed' = confirmed \cup call.events /\ retry' = NoRetry /\ call' = NoCall
    BY <1>3 DEF PutObject
  <2>2. call.events \subseteq Published \cup {ev} /\ call.events \subseteq Log
    BY <1>3 DEF ServerInv, CallOK, DavTypeOK
  <2>3. DavTypeOK' /\ RetryOK'
    BY <1>1, <1>2, <2>1, <2>2, StoreAssumption
    DEF ServerInv, DavTypeOK, RetryOK, NoCall, NoRetry
  <2>4. CallOK' /\ ConfirmedIsPublished'
    BY <1>2, <2>1, <2>2 DEF ServerInv, CallOK, ConfirmedIsPublished, NoCall
  <2> QED
    BY <1>2, <2>3, <2>4 DEF ServerInv
<1>4. CASE call.left # {ev}
  <2>1. call' = [call EXCEPT !.left = @ \ {ev}] /\ UNCHANGED <<confirmed, retry>>
    BY <1>4 DEF PutObject
  <2>2. call \in [events : SUBSET Log, left : SUBSET Log]
    BY DEF ServerInv, DavTypeOK
  <2>3. /\ call' \in [events : SUBSET Log, left : SUBSET Log]
        /\ call'.events = call.events /\ call'.left = call.left \ {ev}
    BY <2>1, <2>2
  <2>4. DavTypeOK' /\ RetryOK'
    BY <1>1, <1>2, <2>1, <2>3 DEF ServerInv, DavTypeOK, RetryOK, IsNext, IsFirst
  <2>5. CallOK' /\ ConfirmedIsPublished'
    BY <1>2, <2>1, <2>3 DEF ServerInv, CallOK, ConfirmedIsPublished
  <2> QED
    BY <1>2, <2>4, <2>5 DEF ServerInv
<1> QED
  BY <1>3, <1>4

LEMMA ServerOfFailure ==
  ASSUME TablesInv, ServerInv, UNCHANGED <<db, before>>, NEW ev, PutFails(ev)
  PROVE  ServerInv'
<1>1. /\ IsNext(ev, call.left)
      /\ \/ store' = store
         \/ store' = [store EXCEPT ![Key(ev)] = ObjectOf(ev)]
      /\ call' = NoCall
      /\ retry' = RecordSyncFailure(retry)
      /\ UNCHANGED <<confirmed, masterKey>>
  BY DEF PutFails, AbandonCall
<1>2. /\ store' \in [UsedNames -> Object \cup {NoObject}]
      /\ Published \subseteq Published'
      /\ PublishedIsPrefix'
  <2>1. CASE store' = store
    BY <2>1 DEF ServerInv, DavTypeOK, PublishedIsPrefix, Published
  <2>2. CASE store' = [store EXCEPT ![Key(ev)] = ObjectOf(ev)]
    BY <1>1, <2>2, PrefixOfPut
  <2> QED
    BY <1>1, <2>1, <2>2
<1>3. retry' \in [attempts : 0 .. MaxAttempts, exhausted : BOOLEAN]
      /\ (~retry'.exhausted => retry'.attempts < MaxAttempts)
  <2>1. retry \in [attempts : 0 .. MaxAttempts, exhausted : BOOLEAN]
        /\ retry.attempts < MaxAttempts
    BY <1>1 DEF ServerInv, DavTypeOK, RetryOK, IsNext, IsFirst
  <2> DEFINE n == retry.attempts + 1
             gaveUp == n >= MaxAttempts
  <2>2. retry' = [attempts |-> n, exhausted |-> gaveUp]
    BY <1>1 DEF RecordSyncFailure
  <2>3. /\ n \in 0 .. MaxAttempts
        /\ gaveUp \in BOOLEAN
        /\ ~gaveUp => n < MaxAttempts
    BY <2>1, StoreAssumption
  <2> HIDE DEF n, gaveUp
  <2> QED
    BY <2>2, <2>3
<1>4. DavTypeOK' /\ RetryOK'
  BY <1>1, <1>2, <1>3 DEF ServerInv, DavTypeOK, RetryOK, NoCall
<1>5. CallOK' /\ ConfirmedIsPublished'
  BY <1>1, <1>2 DEF ServerInv, CallOK, ConfirmedIsPublished, NoCall
<1> QED
  BY <1>2, <1>4, <1>5 DEF ServerInv

LEMMA ServerOfCrash ==
  ASSUME ServerInv, UNCHANGED <<db, before>>, Restart
  PROVE  ServerInv'
<1>1. Published' = Published
  BY DEF Restart, Published
<1> QED
  BY <1>1, StoreAssumption
  DEF Restart, ServerInv, DavTypeOK, RetryOK, CallOK, PublishedIsPrefix,
      ConfirmedIsPublished, NoCall, NoRetry

LEMMA ServerOfStranger ==
  ASSUME ServerInv, UNCHANGED <<db, before>>, NEW o \in Strangers, LeaveObject(o) \/ RemoveObject(o)
  PROVE  ServerInv'
<1>1. /\ \E new \in Object \cup {NoObject} : store' = [store EXCEPT ![o.name] = new]
      /\ UNCHANGED <<call, confirmed, retry, masterKey>>
  BY StoreAssumption DEF LeaveObject, RemoveObject
<1>2. store' \in [UsedNames -> Object \cup {NoObject}] /\ Published' = Published
  BY <1>1, PublishedByStranger DEF ServerInv
<1> QED
  BY <1>1, <1>2
  DEF ServerInv, DavTypeOK, RetryOK, CallOK, PublishedIsPrefix, ConfirmedIsPublished

LEMMA ServerKept ==
  ASSUME TablesInv, TablesInv', ServerInv, [DeviceNext]_deviceVars
  PROVE  ServerInv'
<1>1. ASSUME UNCHANGED <<store, call, confirmed, retry>>, masterKey' \in {NoKeyYet, MasterKey}
      PROVE  ServerInv'
  BY <1>1, OutboxGrows, ServerOfTables
<1>2. CASE UNCHANGED davVars
  BY <1>1, <1>2 DEF davVars, ServerInv, DavTypeOK
<1>3. ASSUME NEW secret \in Secrets, EnterSecret(secret)
      PROVE  ServerInv'
  BY <1>1, <1>3 DEF EnterSecret, TypeSecret, RestoreMasterKey
<1>4. CASE PutPending
  BY <1>4, ServerOfBegin DEF PutPending, outboxVars
<1>5. ASSUME NEW n \in 1 .. MaxChanges, Put(n)
      PROVE  ServerInv'
  BY <1>5, ServerOfPut DEF Put, outboxVars
<1>6. ASSUME NEW ev \in Plan, FailPut(ev)
      PROVE  ServerInv'
  BY <1>6, ServerOfFailure DEF FailPut, outboxVars
<1>7. CASE Crash
  BY <1>7, ServerOfCrash DEF Crash
<1>8. ASSUME NEW o \in Strangers, Stranger(o)
      PROVE  ServerInv'
  BY <1>8, ServerOfStranger DEF Stranger, outboxVars
<1>9. ASSUME \/ \E ev \in Plan : MakeChange(ev)
             \/ LocalStep \/ PullPage \/ FoldNext
             \/ UNCHANGED deviceVars
      PROVE  UNCHANGED davVars
  BY <1>9 DEF MakeChange, LocalStep, PullPage, FoldNext, deviceVars
<1> QED
  BY <1>2, <1>3, <1>4, <1>5, <1>6, <1>7, <1>8, <1>9 DEF DeviceNext

DeviceInv == TablesInv /\ ServerInv

LEMMA DeviceInvariance == DeviceSpec => []DeviceInv
<1>1. DeviceInit => DeviceInv
  BY TablesInitial, ServerInitial DEF DeviceInv
<1>2. DeviceInv /\ [DeviceNext]_deviceVars => DeviceInv'
  BY TablesKept, ServerKept DEF DeviceInv
<1> QED
  BY <1>1, <1>2, PTL DEF DeviceSpec

(* update_user_state, create_annotation, move_feed_to_folder and           *)
(* attach_article_tag keep the tables and the outbox together: the outbox  *)
(* tells of every column that no caller with an old row took back, of      *)
(* every link and of every row, and of nothing else.                       *)
THEOREM OutboxTellsTheTables == DeviceSpec => []OutboxTellsOfTables
<1>1. DeviceInv => OutboxTellsOfTables
  BY DEF DeviceInv, TablesInv
<1> QED
  BY <1>1, DeviceInvariance, PTL

(* Whatever puts fail, whatever answers are lost and whenever the program  *)
(* restarts, of what was committed before an event on the server nothing   *)
(* that sorts before it is missing there (put_webdav_event_objects).       *)
THEOREM PublishedIsBeginning == DeviceSpec => []PublishedIsPrefix
<1>1. DeviceInv => PublishedIsPrefix
  BY DEF DeviceInv, ServerInv
<1> QED
  BY <1>1, DeviceInvariance, PTL

(* What the device will not put again is on the server.                    *)
THEOREM ConfirmedStays == DeviceSpec => []ConfirmedIsPublished
<1>1. DeviceInv => ConfirmedIsPublished
  BY DEF DeviceInv, ServerInv
<1> QED
  BY <1>1, DeviceInvariance, PTL

-------------------------------------------------------------------------------
(* What the reader shows.                                                 *)
LEMMA ReaderTypeKept ==
  ASSUME ReplayTypeOK, plan \in Plans, DavTypeOK, [DeviceNext]_deviceVars
  PROVE  ReplayTypeOK' /\ plan' \in Plans
<1>1. CASE PullPage
  <2> DEFINE pulled == PulledEvents(copy[Reader].cursor, PageSize)
  <2>1. pulled \subseteq Log
    <3>1. \A n \in UsedNames : store[n] \in Object \cup {NoObject}
      BY DEF DavTypeOK
    <3>2. {o.event : o \in EventObjects} \subseteq Log
      BY <3>1 DEF EventObjects, Listed, Object
    <3>3. pulled \subseteq {o.event : o \in EventObjects}
      BY DEF PulledEvents, Package, EventsAfter
    <3> QED
      BY <3>2, <3>3
  <2>2. page' = [page EXCEPT ![Reader] = pulled] /\ UNCHANGED <<copy, refused, plan>>
    BY <1>1 DEF PullPage, DeliverPage
  <2> HIDE DEF pulled
  <2> QED
    BY <2>1, <2>2 DEF ReplayTypeOK
<1>2. CASE FoldNext
  <2>1. PICK ev \in page[Reader] : ReplayNext(Reader, ev)
    BY <1>2 DEF FoldNext
  <2>2. ev \in Log /\ Reader \in Replayers
    BY <2>1, DeviceAssumption DEF ReplayTypeOK
  <2>3. copy' = [copy EXCEPT ![Reader] = ReplayEvent(@, ev)]
    BY <2>1 DEF ReplayNext
  <2>4. copy' \in [Replayers -> ReplayState]
    BY <2>2, <2>3, ReplayKeepsType DEF ReplayTypeOK
  <2>5. page' \in [Replayers -> SUBSET Log] /\ refused' \in [Replayers -> SUBSET Log]
    BY <2>1, <2>2 DEF ReplayTypeOK, ReplayNext
  <2> QED
    BY <1>2, <2>4, <2>5 DEF ReplayTypeOK, FoldNext
<1>3. CASE UNCHANGED <<replayVars, plan>>
  BY <1>3 DEF ReplayTypeOK, replayVars
<1>4. PullPage \/ FoldNext \/ UNCHANGED <<replayVars, plan>>
  <2>1. UNCHANGED deviceVars => UNCHANGED <<replayVars, plan>>
    BY DEF deviceVars
  <2> QED
    BY <2>1 DEF DeviceNext, MakeChange, LocalStep, Crash, FailPut, Put, PutPending,
                EnterSecret, Stranger
<1> QED
  BY <1>1, <1>2, <1>3, <1>4

(* Tables, transactions, objects, calls and keys keep their types: the     *)
(* attempts stay within the policy, and no wrong secret gives a key.       *)
THEOREM DeviceIsTyped == DeviceSpec => []DeviceTypeOK
<1> DEFINE Inv == DeviceInv /\ ReplayTypeOK /\ plan \in Plans
<1>1. DeviceInit => Inv
  <2>1. NoKey \in Keys /\ Absent \in Values
    BY NoKeyInKeys DEF Values
  <2>2. EmptyReplayState \in ReplayState
    BY <2>1 DEF EmptyReplayState, ReplayState
  <2>3. DeviceInit => ReplayTypeOK /\ plan \in Plans
    BY <2>2 DEF DeviceInit, ReplayInit, ReplayTypeOK
  <2> QED
    BY <2>3, TablesInitial, ServerInitial DEF DeviceInv
<1>2. Inv /\ [DeviceNext]_deviceVars => Inv'
  <2>1. DeviceInv => DavTypeOK
    BY DEF DeviceInv, ServerInv
  <2> QED
    BY <2>1, TablesKept, ServerKept, ReaderTypeKept DEF DeviceInv
<1>3. Inv => DeviceTypeOK
  BY DEF DeviceInv, TablesInv, TablesOK, ServerInv, DeviceTypeOK
<1> QED
  BY <1>1, <1>2, <1>3, PTL DEF DeviceSpec

-------------------------------------------------------------------------------
(* What the reader shows.  Every object is its writer's, under the name of *)
(* its event, or a stranger's, and there are finitely many of them.        *)
StoreOK ==
  /\ \A n \in UsedNames :
       \/ store[n] = NoObject
       \/ store[n] \in Strangers /\ store[n].name = n
       \/ \E ev \in db.outbox : n = Key(ev) /\ store[n] = ObjectOf(ev)
  /\ IsFiniteSet(Listed)

LEMMA StorePut ==
  ASSUME DavTypeOK, StoreOK, db.outbox \subseteq db'.outbox,
         NEW n \in UsedNames, NEW o, store' = [store EXCEPT ![n] = o],
         \/ o = NoObject
         \/ o \in Strangers /\ o.name = n
         \/ \E ev \in db'.outbox : n = Key(ev) /\ o = ObjectOf(ev)
  PROVE  StoreOK'
<1>1. \A m \in UsedNames : store'[m] = IF m = n THEN o ELSE store[m]
  BY DEF DavTypeOK
<1>2. Listed' \subseteq Listed \cup {o}
  BY <1>1 DEF Listed
<1>3. IsFiniteSet(Listed \cup {o})
  BY FS_AddElement DEF StoreOK
<1>4. IsFiniteSet(Listed')
  BY <1>2, <1>3, FS_Subset
<1> QED
  BY <1>1, <1>4 DEF StoreOK

LEMMA StoreInitial ==
  ASSUME DeviceInit
  PROVE  StoreOK
<1>1. \A n \in UsedNames : store[n] = NoObject
  BY DEF DeviceInit, DavInit
<1>2. Listed = {}
  BY <1>1 DEF Listed
<1> QED
  BY <1>1, <1>2, FS_EmptySet DEF StoreOK

LEMMA StoreKept ==
  ASSUME DeviceInv, StoreOK, [DeviceNext]_deviceVars
  PROVE  StoreOK'
<1>1. DavTypeOK /\ db.outbox \subseteq db'.outbox
  BY OutboxGrows DEF DeviceInv, ServerInv, OutboxExtended
<1>2. CASE UNCHANGED store
  <2>1. Listed' = Listed
    BY <1>2 DEF Listed
  <2> QED
    BY <1>1, <1>2, <2>1 DEF StoreOK
<1>3. ASSUME NEW ev, IsNext(ev, call.left),
             store' = [store EXCEPT ![Key(ev)] = ObjectOf(ev)]
      PROVE  StoreOK'
  <2>1. ev \in db.outbox /\ ev \in Log
    BY <1>3 DEF IsNext, IsFirst, DeviceInv, ServerInv, CallOK, DavTypeOK
  <2>2. Key(ev) \in UsedNames
    BY <2>1 DEF UsedNames
  <2> QED
    BY <1>1, <1>3, <2>1, <2>2, StorePut
<1>4. ASSUME NEW o \in Strangers, Stranger(o) PROVE StoreOK'
  <2>1. o.name \in UsedNames
    BY DEF UsedNames
  <2>2. store' = [store EXCEPT ![o.name] = o] \/ store' = [store EXCEPT ![o.name] = NoObject]
    BY <1>4 DEF Stranger, LeaveObject, RemoveObject
  <2> QED
    BY <1>1, <2>1, <2>2, StorePut
<1>5. \/ UNCHANGED store
      \/ \E ev : /\ IsNext(ev, call.left)
                 /\ store' = [store EXCEPT ![Key(ev)] = ObjectOf(ev)]
      \/ \E o \in Strangers : Stranger(o)
  <2>1. ASSUME NEW ev, PutObject(ev) \/ PutFails(ev)
        PROVE  \/ UNCHANGED store
               \/ /\ IsNext(ev, call.left)
                  /\ store' = [store EXCEPT ![Key(ev)] = ObjectOf(ev)]
    BY <2>1 DEF PutObject, PutFails
  <2>2. (\E n \in 1 .. MaxChanges : Put(n)) => \E ev : PutObject(ev)
    BY DEF Put
  <2>3. (\E ev \in Plan : FailPut(ev)) => \E ev : PutFails(ev)
    BY DEF FailPut
  <2>4. ASSUME \/ \E ev \in Plan : MakeChange(ev)
               \/ LocalStep \/ PutPending \/ Crash
               \/ \E secret \in Secrets : EnterSecret(secret)
               \/ PullPage \/ FoldNext \/ UNCHANGED deviceVars
        PROVE  UNCHANGED store
    BY <2>4 DEF MakeChange, LocalStep, PutPending, BeginPut, Crash, Restart, EnterSecret,
                TypeSecret, PullPage, FoldNext, deviceVars, davVars
  <2> QED
    BY <2>1, <2>2, <2>3, <2>4 DEF DeviceNext
<1> QED
  BY <1>2, <1>3, <1>4, <1>5

(* The published events are those of readable objects under their names.   *)
LEMMA PublishedIsObject ==
  ASSUME DeviceInv, StoreOK, NEW ev \in Published
  PROVE  \E o \in EventObjects : o.event = ev
<1>1. ev \in Plan /\ ev \in Log /\ Key(ev) \in UsedNames /\ store[Key(ev)] # NoObject
  BY PlanAssumption DEF Published, UsedNames
<1>2. PICK p \in db.outbox : Key(ev) = Key(p) /\ store[Key(ev)] = ObjectOf(p)
  BY <1>1, NamesAssumption DEF StoreOK
<1>3. p = ev
  <2>1. p \in Log
    BY EventOfPlan DEF DeviceInv, TablesInv, TablesOK
  <2> QED
    BY <1>1, <1>2, <2>1, KeyUnique
<1> QED
  BY <1>1, <1>2, <1>3 DEF EventObjects, Listed, ObjectOf

LEMMA OpenedIsPublished ==
  ASSUME DeviceInv, StoreOK, NEW o \in EventObjects, ~Unreadable(o), Opens(o, masterKey)
  PROVE  o.event \in Published
<1>1. PICK n \in UsedNames : o = store[n]
  BY DEF EventObjects, Listed
<1>2. o # NoObject /\ o \in Object
  BY <1>1 DEF EventObjects, Listed, DeviceInv, ServerInv, DavTypeOK
<1>3. o.payload.key \in {MasterKey, "another key"} /\ o.payload.key = masterKey
  BY <1>2 DEF Object, Opens
<1>4. masterKey = MasterKey
  BY <1>3, NoKeyAssumption DEF DeviceInv, ServerInv, DavTypeOK
<1>5. o \notin Strangers
  BY <1>4, SealAssumption
<1>6. PICK ev \in db.outbox : n = Key(ev) /\ store[n] = ObjectOf(ev)
  BY <1>1, <1>2, <1>5 DEF StoreOK
<1>7. ev \in Plan /\ ev \in Log
  BY EventOfPlan DEF DeviceInv, TablesInv, TablesOK
<1>8. o.event = ev
  BY <1>1, <1>6 DEF ObjectOf
<1> QED
  BY <1>1, <1>3, <1>4, <1>6, <1>7, <1>8, <1>2 DEF Published

(* A pull that succeeds gives a page of published events, without a gap.   *)
LEMMA PulledIsPrefix ==
  ASSUME DeviceInv, StoreOK, NEW cursor \in Keys, PullSucceeds(cursor, PageSize),
         NEW events, events = PulledEvents(cursor, PageSize)
  PROVE  /\ events \in SUBSET EventsAfter(Published, cursor)
         /\ \A ev \in events, o \in EventsAfter(Published, cursor) :
              KeyLess(Key(o), Key(ev)) => o \in events
<1> DEFINE told == {o.event : o \in EventObjects}
<1>1. EventObjects \subseteq Listed /\ IsFiniteSet(Listed)
  BY DEF EventObjects, StoreOK
<1>2. IsFiniteSet(told)
  <2>1. IsFiniteSet(EventObjects)
    BY <1>1, FS_Subset
  <2> DEFINE EventOf == [o \in EventObjects |-> o.event]
  <2>2. told = {EventOf[o] : o \in EventObjects}
    OBVIOUS
  <2>3. EventOf \in Surjection(EventObjects, told)
    BY DEF Surjection
  <2> QED
    BY <2>1, <2>3, FS_Surjection
<1>3. told \in SUBSET Log
  <2>1. \A n \in UsedNames : store[n] \in Object \cup {NoObject}
    BY DEF DeviceInv, ServerInv, DavTypeOK
  <2>2. \A o \in Listed : o \in Object
    BY <2>1 DEF Listed
  <2>3. \A o \in Object : o.event \in Log
    BY DEF Object
  <2> QED
    BY <1>1, <2>2, <2>3
<1>4. Published \subseteq told
  BY PublishedIsObject
<1>5. events = Package(told, cursor, PageSize).events /\ PageSize \in Nat
  BY DeviceAssumption DEF PulledEvents
<1>6. ASSUME NEW ev \in events PROVE ev \in told => ev \in Published
  <2>1. ASSUME ev \in told PROVE ev \in Published
    <3>1. PICK o \in EventObjects : ev = o.event
      BY <2>1
    <3> QED
      BY <1>6, <3>1, OpenedIsPublished DEF PullSucceeds
  <2> QED
    BY <2>1
<1> HIDE DEF told
<1>7. /\ events \subseteq EventsAfter(told, cursor)
      /\ \A ev \in events, o \in EventsAfter(told, cursor) :
           KeyLess(Key(o), Key(ev)) => o \in events
  BY <1>2, <1>3, <1>5, PackageIsPrefix
<1> QED
  BY <1>4, <1>6, <1>7 DEF EventsAfter

(* A newest event decides the columns it writes and no other.              *)
LEMMA RecordedOfNewest ==
  ASSUME NEW events, events \subseteq Plan, NEW ev \in Plan,
         \A o \in events : KeyLess(Key(o), Key(ev)),
         NEW e \in Entities, NEW f \in Fields
  PROVE  /\ ev.target = e /\ f \in ChangedFields(ev) =>
              Recorded(events \cup {ev}, e, f) = ev.fields[f]
         /\ ~(ev.target = e /\ f \in ChangedFields(ev)) =>
              Recorded(events \cup {ev}, e, f) = Recorded(events, e, f)
<1> DEFINE Writers(s) == {o \in s : o.target = e /\ o.fields[f] # Absent}
           Newest(s)  == CHOOSE o \in Writers(s) : \A p \in Writers(s) : KeyLeq(Key(p), Key(o))
<1>1. ASSUME ev.target = e, f \in ChangedFields(ev)
      PROVE  Recorded(events \cup {ev}, e, f) = ev.fields[f]
  <2> DEFINE All == Writers(events \cup {ev})
  <2>1. ev \in All
    BY <1>1 DEF ChangedFields
  <2>2. \A o \in All : KeyLeq(Key(o), Key(ev))
    BY DEF KeyLeq
  <2>3. \A o \in All : KeyLeq(Key(ev), Key(o)) => o = ev
    <3> SUFFICES ASSUME NEW o \in All, KeyLeq(Key(ev), Key(o)), o # ev
                 PROVE  FALSE
      OBVIOUS
    <3>1. o \in events /\ KeyLess(Key(o), Key(ev))
      OBVIOUS
    <3>2. Key(ev) \in Keys /\ Key(o) \in Keys
      BY <3>1, EventOfPlan
    <3> QED
      BY <3>1, <3>2, KeyTotal DEF KeyLeq
  <2>4. Newest(events \cup {ev}) = ev
    <3> HIDE DEF All
    <3>1. \E o \in All : \A p \in All : KeyLeq(Key(p), Key(o))
      BY <2>1, <2>2
    <3>2. Newest(events \cup {ev}) = CHOOSE o \in All : \A p \in All : KeyLeq(Key(p), Key(o))
      BY DEF All
    <3> DEFINE c == CHOOSE o \in All : \A p \in All : KeyLeq(Key(p), Key(o))
    <3>3. c \in All /\ \A p \in All : KeyLeq(Key(p), Key(c))
      BY <3>1
    <3>4. c = ev
      <4> HIDE DEF c
      <4> QED
        BY <3>3, <2>1, <2>3
    <3> QED
      BY <3>2, <3>4
  <2> QED
    BY <2>1, <2>4 DEF Recorded
<1>2. ASSUME ~(ev.target = e /\ f \in ChangedFields(ev))
      PROVE  Recorded(events \cup {ev}, e, f) = Recorded(events, e, f)
  <2> DEFINE ValueOf(writers) ==
        IF writers = {} THEN Absent
        ELSE (CHOOSE o \in writers : \A p \in writers : KeyLeq(Key(p), Key(o))).fields[f]
  <2>1. Writers(events \cup {ev}) = Writers(events)
    BY <1>2 DEF ChangedFields
  <2>2. /\ Recorded(events \cup {ev}, e, f) = ValueOf(Writers(events \cup {ev}))
        /\ Recorded(events, e, f) = ValueOf(Writers(events))
    BY DEF Recorded
  <2> HIDE DEF Writers, ValueOf
  <2> QED
    BY <2>1, <2>2
<1> QED
  BY <1>1, <1>2

(* The reader's cursor is at the newest event it folded; behind it are the *)
(* folded events, and those committed after a newer one of them.           *)
ReaderCursorOK ==
  LET cursor == copy[Reader].cursor
  IN  /\ cursor \in Keys
      /\ cursor = NoKey \/ \E ev \in Folded : cursor = Key(ev)
      /\ Folded \subseteq db.outbox
      /\ \A ev \in Folded : KeyLeq(Key(ev), cursor)
      /\ \A o \in db.outbox \ Folded : KeyLeq(Key(o), cursor) => Overtaken(o, Folded)

(* The page leaves out, between the cursor and one of its own events, only *)
(* what was committed after that one.                                      *)
ReaderPageOK ==
  LET cursor == copy[Reader].cursor
      waiting == page[Reader]
  IN  /\ waiting \subseteq db.outbox
      /\ \A ev \in waiting : KeyLess(cursor, Key(ev))
      /\ \A ev \in waiting, o \in db.outbox \ waiting :
           KeyLess(cursor, Key(o)) /\ KeyLess(Key(o), Key(ev)) => <<ev, o>> \in before

ReaderShowsOK ==
  /\ \A e \in Entities, f \in Fields : copy[Reader].fields[e][f] = Recorded(Folded, e, f)
  /\ copy[Reader].members \subseteq db.links

ReaderOK == ReaderCursorOK /\ ReaderPageOK /\ ReaderShowsOK

LEMMA OutboxOfPlan ==
  ASSUME DeviceInv
  PROVE  /\ db.outbox \subseteq Plan /\ db.outbox \subseteq Log
         /\ \A o \in db.outbox : Key(o) \in Keys
         /\ before \subseteq db.outbox \X db.outbox
         /\ \A o, ev \in db.outbox : o = ev \/ <<o, ev>> \in before \/ <<ev, o>> \in before
         /\ db.links = {p \in Relations : \E ev \in db.outbox : ev.target = p}
<1>1. TablesOK /\ OutboxTellsOfTables
  BY DEF DeviceInv, TablesInv
<1> QED
  BY <1>1, PlanAssumption, KeyOfEvent DEF TablesOK, OutboxTellsOfTables, OutboxTellsTables

(* An event that is committed while the reader waits comes after all that  *)
(* the reader has.                                                         *)
LEMMA ReaderWaits ==
  ASSUME DeviceInv, DeviceInv', ReaderOK, UNCHANGED <<copy, page>>, [DeviceNext]_deviceVars
  PROVE  ReaderOK'
<1> DEFINE cursor  == copy[Reader].cursor
           waiting == page[Reader]
<1>1. /\ Folded' = Folded /\ cursor' = cursor /\ waiting' = waiting
      /\ copy[Reader]' = copy[Reader]
  BY DEF Folded
<1>2. /\ db.outbox \subseteq db'.outbox
      /\ before' = before \cup (db.outbox \X (db'.outbox \ db.outbox))
  BY OutboxGrows DEF DeviceInv, OutboxExtended
<1>3. db'.outbox \subseteq Log /\ \A o \in db'.outbox : Key(o) \in Keys
  BY OutboxOfPlan, PlanAssumption, KeyOfEvent DEF DeviceInv, TablesInv, TablesOK
<1>4. /\ cursor \in Keys
      /\ cursor = NoKey \/ \E ev \in Folded : cursor = Key(ev)
      /\ Folded \subseteq db.outbox
      /\ \A ev \in Folded : KeyLeq(Key(ev), cursor)
      /\ \A o \in db.outbox \ Folded : KeyLeq(Key(o), cursor) => Overtaken(o, Folded)
  BY DEF ReaderOK, ReaderCursorOK
<1>5. ASSUME NEW o \in db'.outbox \ Folded, KeyLeq(Key(o), cursor)
      PROVE  \E ev \in Folded : KeyLess(Key(o), Key(ev)) /\ <<ev, o>> \in before'
  <2>1. CASE o \in db.outbox
    BY <1>2, <1>4, <1>5, <2>1 DEF Overtaken
  <2>2. CASE o \notin db.outbox
    <3>1. cursor # NoKey
      BY <1>3, <1>5, KeyOfEvent, KeyTotal, NoKeyInKeys DEF KeyLeq
    <3>2. PICK ev \in Folded : cursor = Key(ev)
      BY <1>4, <3>1
    <3>3. ev \in db.outbox /\ ev # o /\ ev \in Log /\ o \in Log
      BY <1>2, <1>3, <1>4, <2>2
    <3>4. KeyLess(Key(o), Key(ev))
      BY <1>5, <3>2, <3>3, KeyUnique DEF KeyLeq
    <3> QED
      BY <1>2, <2>2, <3>3, <3>4
  <2> QED
    BY <2>1, <2>2
<1>6. ReaderCursorOK'
  BY <1>1, <1>2, <1>4, <1>5 DEF ReaderCursorOK, Overtaken
<1>7. ReaderPageOK'
  <2>1. /\ waiting \subseteq db.outbox
        /\ \A ev \in waiting : KeyLess(cursor, Key(ev))
        /\ \A ev \in waiting, o \in db.outbox \ waiting :
             KeyLess(cursor, Key(o)) /\ KeyLess(Key(o), Key(ev)) => <<ev, o>> \in before
    BY DEF ReaderOK, ReaderPageOK
  <2>2. \A ev \in waiting, o \in db'.outbox \ waiting :
          KeyLess(cursor, Key(o)) /\ KeyLess(Key(o), Key(ev)) => <<ev, o>> \in before'
    BY <1>2, <2>1
  <2> QED
    BY <1>1, <1>2, <2>1, <2>2 DEF ReaderPageOK
<1>8. ReaderShowsOK'
  <2>1. db.links \subseteq db'.links
    BY <1>2, OutboxOfPlan
    DEF DeviceInv, TablesInv, OutboxTellsOfTables, OutboxTellsTables
  <2> QED
    BY <1>1, <2>1 DEF ReaderOK, ReaderShowsOK
<1> QED
  BY <1>6, <1>7, <1>8 DEF ReaderOK

(* Of what the server has, a page leaves out nothing before one of its     *)
(* events; what the server does not have yet was committed later.          *)
LEMMA ReaderPulls ==
  ASSUME DeviceInv, StoreOK, ReplayTypeOK, ReaderOK, PullPage
  PROVE  ReaderOK'
<1> DEFINE cursor == copy[Reader].cursor
           pulled == PulledEvents(cursor, PageSize)
<1>1. /\ PullSucceeds(cursor, PageSize)
      /\ DeliverPage(Reader, pulled)
      /\ UNCHANGED <<db, before>>
  BY DEF PullPage, outboxVars
<1>2. Reader \in Replayers /\ cursor \in Keys
  BY DeviceAssumption DEF ReaderOK, ReaderCursorOK
<1>3. /\ pulled \in SUBSET EventsAfter(Published, cursor)
      /\ \A ev \in pulled, o \in EventsAfter(Published, cursor) :
           KeyLess(Key(o), Key(ev)) => o \in pulled
  BY <1>1, <1>2, PulledIsPrefix
<1> HIDE DEF pulled
<1>4. page'[Reader] = pulled /\ copy' = copy /\ Folded' = Folded
  BY <1>1, <1>2 DEF DeliverPage, ReplayTypeOK, Folded
<1>5. /\ Published \subseteq db.outbox
      /\ \A ev \in Published, o \in db.outbox :
           KeyLess(Key(o), Key(ev)) /\ <<o, ev>> \in before => o \in Published
  BY DEF DeviceInv, ServerInv, PublishedIsPrefix
<1>6. ASSUME NEW ev \in pulled, NEW o \in db.outbox \ pulled,
             KeyLess(cursor, Key(o)), KeyLess(Key(o), Key(ev))
      PROVE  <<ev, o>> \in before
  <2>1. ev \in Published /\ ev \in db.outbox
    BY <1>3, <1>5 DEF EventsAfter
  <2>2. o \notin Published
    BY <1>3, <1>6 DEF EventsAfter
  <2>3. <<o, ev>> \notin before
    BY <1>5, <1>6, <2>1, <2>2
  <2> QED
    BY <1>6, <2>1, <2>3, OutboxOfPlan
<1>7. pulled \subseteq db.outbox /\ \A ev \in pulled : KeyLess(cursor, Key(ev))
  BY <1>3, <1>5 DEF EventsAfter
<1>8. ReaderCursorOK' /\ ReaderShowsOK'
  BY <1>1, <1>4 DEF ReaderOK, ReaderCursorOK, ReaderShowsOK, Overtaken
<1>9. ReaderPageOK'
  BY <1>1, <1>4, <1>6, <1>7 DEF ReaderPageOK
<1> QED
  BY <1>8, <1>9 DEF ReaderOK

(* The next event is newer than all the reader has folded.                 *)
LEMMA ReaderFolds ==
  ASSUME DeviceInv, ReplayTypeOK, ReaderOK, FoldNext
  PROVE  ReaderOK'
<1>1. PICK ev \in page[Reader] : ReplayNext(Reader, ev) /\ UNCHANGED <<db, before>>
  BY DEF FoldNext, outboxVars
<1> DEFINE s == copy[Reader]
           t == copy'[Reader]
           waiting == page[Reader]
<1>2. /\ s.cursor \in Keys
      /\ Folded \subseteq db.outbox
      /\ \A o \in Folded : KeyLeq(Key(o), s.cursor)
      /\ \A o \in db.outbox \ Folded : KeyLeq(Key(o), s.cursor) => Overtaken(o, Folded)
  BY DEF ReaderOK, ReaderCursorOK
<1>3. /\ waiting \subseteq db.outbox
      /\ \A o \in waiting : KeyLess(s.cursor, Key(o))
      /\ \A p \in waiting, o \in db.outbox \ waiting :
           KeyLess(s.cursor, Key(o)) /\ KeyLess(Key(o), Key(p)) => <<p, o>> \in before
  BY DEF ReaderOK, ReaderPageOK
<1>4. /\ ev \in Plan /\ ev \in Log /\ ev \in db.outbox /\ ev.change \in {"upsert", "attach"}
      /\ KeyLess(s.cursor, Key(ev)) /\ Key(ev) \in Keys
  BY <1>3, OutboxOfPlan, PlanAssumption
<1>5. ev \notin Folded /\ ev.id \notin s.applied
  BY <1>2, <1>4, KeyTotal DEF KeyLeq, Folded
<1>6. /\ s \in ReplayState
      /\ t = ReplayEvent(s, ev) /\ ~ReplayFails(ev) /\ IsFirst(ev, waiting)
      /\ page'[Reader] = waiting \ {ev}
  BY <1>1, <1>4, DeviceAssumption DEF ReplayNext, ReplayTypeOK, ReplayFails
<1>7. /\ t.cursor = Key(ev)
      /\ Folded' = Folded \cup {ev}
  <2>1. Folded = Replayed(s) /\ Folded' = Replayed(t)
    BY DEF Folded, Replayed
  <2>2. t.cursor = AdvanceTo(s.cursor, ev) /\ Replayed(t) = Replayed(s) \cup {ev}
    BY <1>4, <1>5, <1>6, ReplayEffect, ReplayedAfter
  <2> QED
    BY <1>4, <2>1, <2>2 DEF AdvanceTo
<1>8. \A o \in waiting : KeyLeq(Key(ev), Key(o))
  BY <1>6 DEF IsFirst
<1>9. \A o \in Folded : KeyLess(Key(o), Key(ev))
  BY <1>2, <1>4, OutboxOfPlan, KeyTransitive
<1>10. ReaderShowsOK'
  <2>1. ASSUME NEW e \in Entities, NEW f \in Fields
        PROVE  t.fields[e][f] = Recorded(Folded', e, f)
    <3>1. s.fields[e][f] = Recorded(Folded, e, f) /\ Folded \subseteq Plan
      BY <1>2, OutboxOfPlan DEF ReaderOK, ReaderShowsOK
    <3> HIDE DEF s, t, waiting
    <3>2. /\ ev.target = e /\ f \in ChangedFields(ev) =>
               Recorded(Folded \cup {ev}, e, f) = ev.fields[f]
          /\ ~(ev.target = e /\ f \in ChangedFields(ev)) =>
               Recorded(Folded \cup {ev}, e, f) = Recorded(Folded, e, f)
      BY <1>4, <1>9, <3>1, RecordedOfNewest
    <3>3. CASE ev.change = "upsert"
      <4>1. t.fields[e][f] = IF e = ev.target /\ ev.fields[f] # Absent
                               THEN ev.fields[f] ELSE s.fields[e][f]
        BY <1>4, <1>5, <1>6, <3>3, ReplayEffect
      <4> QED
        BY <1>7, <3>1, <3>2, <4>1 DEF ChangedFields
    <3>4. CASE ev.change = "attach"
      <4>1. t.fields = s.fields /\ ev.target # e
        BY <1>4, <1>5, <1>6, <3>4, ReplayEffect, TargetOfEvent, EntityAssumption
      <4> QED
        BY <1>7, <3>1, <3>2, <4>1
    <3> QED
      BY <1>4, <3>3, <3>4
  <2>2. t.members \subseteq db.links
    <3>1. s.members \subseteq db.links
      BY DEF ReaderOK, ReaderShowsOK
    <3> HIDE DEF s, t, waiting
    <3>2. CASE ev.change = "upsert"
      BY <1>4, <1>5, <1>6, <3>1, <3>2, ReplayEffect
    <3>3. CASE ev.change = "attach"
      <4>1. t.members = s.members \cup {ev.target} /\ ev.target \in Relations
        BY <1>4, <1>5, <1>6, <3>3, ReplayEffect, TargetOfEvent
      <4>2. ev.target \in db.links
        BY <1>4, <4>1, OutboxOfPlan
      <4> QED
        BY <3>1, <4>1, <4>2
    <3> QED
      BY <1>4, <3>2, <3>3
  <2> QED
    BY <1>1, <2>1, <2>2 DEF ReaderShowsOK
<1>11. ASSUME NEW o \in db.outbox \ Folded', KeyLeq(Key(o), Key(ev))
       PROVE  \E p \in Folded' : KeyLess(Key(o), Key(p)) /\ <<p, o>> \in before
  <2>1. o \in db.outbox \ Folded /\ o # ev /\ Key(o) \in Keys /\ o \in Log
    BY <1>7, OutboxOfPlan
  <2>2. CASE KeyLeq(Key(o), s.cursor)
    BY <1>2, <1>7, <2>1, <2>2 DEF Overtaken
  <2>3. CASE ~KeyLeq(Key(o), s.cursor)
    <3>1. KeyLess(s.cursor, Key(o)) /\ KeyLess(Key(o), Key(ev))
      BY <1>2, <1>4, <1>11, <2>1, <2>3, KeyTotal, KeyUnique DEF KeyLeq
    <3>2. o \notin waiting
      BY <1>4, <1>8, <2>1, <3>1, KeyTotal DEF KeyLeq
    <3>3. <<ev, o>> \in before
      BY <1>3, <2>1, <3>1, <3>2
    <3> QED
      BY <1>7, <3>1, <3>3
  <2> QED
    BY <2>2, <2>3
<1>12. ReaderCursorOK'
  <2>1. \A o \in Folded' : KeyLeq(Key(o), Key(ev))
    BY <1>7, <1>9 DEF KeyLeq
  <2> QED
    BY <1>1, <1>2, <1>4, <1>7, <1>11, <2>1 DEF ReaderCursorOK, Overtaken
<1>13. ReaderPageOK'
  <2>1. \A o \in waiting \ {ev} : KeyLess(Key(ev), Key(o))
    BY <1>3, <1>4, <1>8, OutboxOfPlan, KeyUnique DEF KeyLeq
  <2>2. \A p \in waiting \ {ev}, o \in db.outbox \ (waiting \ {ev}) :
          KeyLess(Key(ev), Key(o)) /\ KeyLess(Key(o), Key(p)) => <<p, o>> \in before
    <3> SUFFICES ASSUME NEW p \in waiting \ {ev}, NEW o \in db.outbox \ (waiting \ {ev}),
                        KeyLess(Key(ev), Key(o)), KeyLess(Key(o), Key(p))
                 PROVE  <<p, o>> \in before
      OBVIOUS
    <3>1. o # ev /\ Key(o) \in Keys
      BY <1>4, OutboxOfPlan, KeyTotal
    <3>2. KeyLess(s.cursor, Key(o))
      BY <1>2, <1>4, <3>1, KeyTransitive
    <3> QED
      BY <1>3, <3>1, <3>2
  <2> QED
    BY <1>1, <1>3, <1>6, <1>7, <2>1, <2>2 DEF ReaderPageOK
<1> QED
  BY <1>10, <1>12, <1>13 DEF ReaderOK

ReaderInv == DeviceInv /\ ReplayTypeOK /\ plan \in Plans /\ StoreOK /\ ReaderOK

LEMMA ReaderInitial == DeviceInit => ReaderInv
<1> SUFFICES ASSUME DeviceInit PROVE ReaderInv
  OBVIOUS
<1>1. DeviceInv /\ StoreOK
  BY TablesInitial, ServerInitial, StoreInitial DEF DeviceInv
<1>2. EmptyReplayState \in ReplayState
  BY NoKeyInKeys DEF EmptyReplayState, ReplayState, Values
<1>3. ReplayTypeOK /\ plan \in Plans
  BY <1>2 DEF DeviceInit, ReplayInit, ReplayTypeOK
<1>4. copy[Reader] = EmptyReplayState /\ page[Reader] = {}
  BY DeviceAssumption DEF DeviceInit, ReplayInit
<1>5. Folded = {} /\ db.outbox = {}
  BY <1>4 DEF Folded, EmptyReplayState, DeviceInit, OutboxInit, FirstDatabase
<1>6. \A e \in Entities, f \in Fields : Recorded({}, e, f) = Absent
  BY DEF Recorded
<1>7. ReaderOK
  BY <1>4, <1>5, <1>6, NoKeyInKeys
  DEF ReaderOK, ReaderCursorOK, ReaderPageOK, ReaderShowsOK, EmptyReplayState
<1> QED
  BY <1>1, <1>3, <1>7 DEF ReaderInv

LEMMA ReaderStep == ReaderInv /\ [DeviceNext]_deviceVars => ReaderInv'
<1> SUFFICES ASSUME ReaderInv, [DeviceNext]_deviceVars PROVE ReaderInv'
  OBVIOUS
<1>1. DeviceInv /\ ReplayTypeOK /\ plan \in Plans /\ StoreOK /\ ReaderOK /\ DavTypeOK
  BY DEF ReaderInv, DeviceInv, ServerInv
<1>2. DeviceInv' /\ ReplayTypeOK' /\ plan' \in Plans /\ StoreOK'
  BY <1>1, TablesKept, ServerKept, ReaderTypeKept, StoreKept DEF DeviceInv
<1>3. PullPage \/ FoldNext \/ UNCHANGED <<copy, page>>
  BY DEF DeviceNext, MakeChange, LocalStep, Crash, FailPut, Put, PutPending,
         EnterSecret, Stranger, deviceVars, replayVars
<1>4. ReaderOK'
  BY <1>1, <1>2, <1>3, ReaderWaits, ReaderPulls, ReaderFolds
<1> QED
  BY <1>2, <1>4 DEF ReaderInv

(* Through crashes, failed puts, lost answers and whatever others leave on *)
(* the server, the reader shows what the newest of its events tell, and of *)
(* the outbox up to its cursor it misses only what was committed after a   *)
(* newer event it has (pull_webdav_event_batch, replay_event_batch).       *)
THEOREM ReaderShowsThePast == DeviceSpec => []ReaderShowsPast
<1>1. ReaderInv => ReaderShowsPast
  <2> SUFFICES ASSUME ReaderInv PROVE ReaderShowsPast
    OBVIOUS
  <2>1. ReaderCursorOK /\ ReaderShowsOK /\ DeviceInv
    BY DEF ReaderInv, ReaderOK
  <2>2. ASSUME NEW ev \in Folded, NEW o \in db.outbox \ Folded, KeyLess(Key(o), Key(ev))
        PROVE  Overtaken(o, Folded)
    <3>1. KeyLeq(Key(ev), copy[Reader].cursor) /\ ev \in db.outbox /\ copy[Reader].cursor \in Keys
      BY <2>1 DEF ReaderCursorOK
    <3>2. KeyLeq(Key(o), copy[Reader].cursor)
      BY <2>1, <2>2, <3>1, OutboxOfPlan, KeyTransitive DEF KeyLeq
    <3> QED
      BY <2>1, <3>2 DEF ReaderCursorOK
  <2> QED
    BY <2>1, <2>2 DEF ReaderCursorOK, ReaderShowsOK, ReaderShowsPast
<1> QED
  BY <1>1, ReaderInitial, ReaderStep, PTL DEF DeviceSpec
===============================================================================
