------------------------------ MODULE LocalOutbox -----------------------------
(***************************************************************************)
(* crates/core-domain/src/sqlite/sync_event_store.rs: a change the user    *)
(* makes is written to the device's tables and, in the same transaction,   *)
(* to the SyncEvent table other devices learn of it from.                  *)
(*                                                                         *)
(* A column at its default is Absent.  SQLite's transaction is a draft of  *)
(* the database: it replaces the database when it commits, and a constraint*)
(* that fails, a disk error or a crash leaves nothing of it.               *)
(***************************************************************************)
EXTENDS SyncEvents

CONSTANTS
  Annotations,  \* the entities that are annotations; those left are feeds
  Plan,         \* the changes the user of this device may make
  None          \* no transaction is open

ASSUME PlanAssumption ==
  /\ Annotations \subseteq Entities \ UserStates
  /\ Plan \subseteq Log
  /\ \A ev \in Plan : ev.change \in {"upsert", "attach"}

VARIABLES
  db,      \* the committed tables and outbox
  draft,   \* the open transaction, or None
  view,    \* the UserState rows as the caller last read them
  stale,   \* the columns some caller wrote back as they were before
  before   \* history: <<o, ev>> when o was in the outbox as ev was committed

outboxVars == <<db, draft, view, stale, before>>

Feeds    == Entities \ (UserStates \cup Annotations)
Row      == [Fields -> Values]
EmptyRow == [f \in Fields |-> Absent]
Database == [existing : SUBSET Entities, rows : [Entities -> Row],
             links : SUBSET Relations, outbox : SUBSET Log]

(* What classify_change calls the change's payload_fields.                 *)
ChangedFields(ev) == {f \in Fields : ev.fields[f] # Absent}

(* Slip: the payload carries the row as it was before the change.          *)
SelectOldFields(ev, old, new) ==
  [f \in Fields |-> IF f \in ChangedFields(ev) THEN old[f] ELSE Absent]

(* select_changed_fields                                                   *)
SelectChangedFields(ev, old, new) ==
  [f \in Fields |-> IF f \in ChangedFields(ev) THEN new[f] ELSE Absent]

WithRow(d, e, row) == [d EXCEPT !.existing = @ \cup {e}, !.rows[e] = row]
Overlay(row, ev)   == [f \in Fields |-> IF f \in ChangedFields(ev) THEN ev.fields[f] ELSE row[f]]

(* update_user_state writes every column of the row it is given, which is  *)
(* the row the caller read with its changes applied.                       *)
UpdateUserState(d, ev, seen) == WithRow(d, ev.target, Overlay(seen[ev.target], ev))

(* move_feed_to_folder                                                     *)
MoveFeed(d, ev) == WithRow(d, ev.target, Overlay(d.rows[ev.target], ev))

(* The tables after the statement of the operation.                        *)
Written(d, ev, seen) ==
  CASE ev.target \in UserStates  -> UpdateUserState(d, ev, seen)
    [] ev.target \in Annotations -> WithRow(d, ev.target, ev.fields)
    [] ev.target \in Feeds       -> MoveFeed(d, ev)
    [] ev.target \in Relations   -> [d EXCEPT !.links = @ \cup {ev.target}]

(* The statement touches no row: the operation commits without an event.   *)
NoRows(d, ev) == \/ ev.target \in Feeds /\ ev.target \notin d.existing
                 \/ ev.target \in d.links

(* The primary key of Annotation, or of SyncEvent, is taken.               *)
Conflicts(d, ev) == \/ ev.target \in Annotations \cap d.existing
                    \/ \E o \in d.outbox : o.id = ev.id

OutboxInit(db0) ==
  /\ db = db0 /\ draft = None /\ stale = {} /\ before = {}
  /\ view = [e \in UserStates |-> EmptyRow]

(* A caller reads the UserState row it is going to change.                 *)
ReadRow(e) ==
  /\ view' = [view EXCEPT ![e] = db.rows[e]]
  /\ UNCHANGED <<db, draft, stale, before>>

(* The transaction begins with the statement on the tables.                *)
BeginChange(ev) ==
  /\ draft = None
  /\ draft' = [event |-> ev, noted |-> NoRows(db, ev),
               after |-> IF NoRows(db, ev) THEN db ELSE Written(db, ev, view)]
  /\ UNCHANGED <<db, view, stale, before>>

(* insert_sync_event, unless the statement touched no row.                 *)
NoteChange ==
  /\ draft # None
  /\ ~draft.noted /\ ~Conflicts(db, draft.event)
  /\ LET ev == draft.event
         payload == IF ev.target \in Entities
                      THEN SelectChangedFields(ev, db.rows[ev.target], draft.after.rows[ev.target])
                      ELSE ev.fields
     IN  draft' = [draft EXCEPT !.noted = TRUE,
                                !.after.outbox = @ \cup {[ev EXCEPT !.fields = payload]}]
  /\ UNCHANGED <<db, view, stale, before>>

(* Slip: the tables are written before the event is.                       *)
CommittableEarly == draft # None

Committable == draft # None /\ draft.noted

(* Columns of the event's row the commit takes back to an earlier value.   *)
Reverted ==
  {c \in Entities \X Fields :
     /\ c[1] = draft.event.target /\ c[2] \notin ChangedFields(draft.event)
     /\ draft.after.rows[c[1]][c[2]] # db.rows[c[1]][c[2]]}

CommitChange ==
  /\ Committable
  /\ db' = draft.after
  /\ draft' = None
  /\ stale' = (stale \cup Reverted)
              \ ({draft.event.target} \X ChangedFields(draft.event))
  /\ before' = before \cup (db.outbox \X (draft.after.outbox \ db.outbox))
  /\ UNCHANGED view

(* A constraint fails, or the disk, or the program ends.                   *)
RollBack ==
  /\ draft # None
  /\ draft' = None
  /\ UNCHANGED <<db, view, stale, before>>

OutboxTypeOK ==
  /\ db \in Database
  /\ draft = None \/ draft \in [event : Plan, noted : BOOLEAN, after : Database]
  /\ view \in [UserStates -> Row]
  /\ stale \subseteq Entities \X Fields
  /\ before \subseteq Log \X Log

-------------------------------------------------------------------------------
(* The value the event committed last of those that write a column gives   *)
(* it.                                                                     *)
LastTold(events, order, e, f) ==
  LET writers == {ev \in events : ev.target = e /\ ev.fields[f] # Absent}
  IN  IF writers = {} THEN Absent
      ELSE (CHOOSE ev \in writers :
              \A o \in writers : o = ev \/ <<o, ev>> \in order).fields[f]

(* The value the newest of some events, by key, sets a column to.          *)
Recorded(events, e, f) ==
  LET writers == {ev \in events : ev.target = e /\ ev.fields[f] # Absent}
  IN  IF writers = {} THEN Absent
      ELSE (CHOOSE ev \in writers : \A o \in writers : KeyLeq(Key(o), Key(ev))).fields[f]

(* The outbox tells of everything in the tables, and of nothing else, but  *)
(* for the columns a caller with an old row wrote back: update_user_state  *)
(* writes the whole row and tells of the changed fields.  What it tells of *)
(* a column is what the event committed last says, which need not be the   *)
(* one of the greatest key: keys are the callers'.                         *)
OutboxTellsTables(db0) ==
  /\ \A e \in Entities, f \in Fields :
       \/ <<e, f>> \in stale
       \/ db.rows[e][f] = LastTold(db.outbox, before, e, f)
  /\ db.links = {p \in Relations : \E ev \in db.outbox : ev.target = p}
  /\ db.existing = db0.existing \cup {e \in Entities : \E ev \in db.outbox : ev.target = e}
===============================================================================
