------------------------------- MODULE DeviceSync ------------------------------
(***************************************************************************)
(* One device's tables on their way to another: the outbox of LocalOutbox, *)
(* put on a WebDAV server and pulled from it by WebDavSync, replayed by    *)
(* SyncReplay.  The programs that call these parts are not in the          *)
(* repository: the loop is that of the tests of sync_event_store.rs and    *)
(* webdav.rs, with crashes, failed calls and lost answers between steps.   *)
(***************************************************************************)
EXTENDS LocalOutbox, WebDavSync, SyncReplay

CONSTANTS
  Reader,     \* the device that pulls
  PageSize,   \* max_events of its pulls
  FirstRows,  \* the feeds both devices have
  Plans,      \* what the user may be about to change: a behaviour has one
  MaxChanges  \* the most changes of a plan

ASSUME DeviceAssumption ==
  /\ Reader \in Replayers /\ PageSize \in Nat \ {0}
  /\ Plan = UNION Plans /\ FirstRows \subseteq Entities
ASSUME ChangesAssumption ==
  MaxChanges \in Nat /\ \A p \in Plans : Cardinality(p) <= MaxChanges
(* Event ids are drawn at random: what others leave has other names.       *)
ASSUME NamesAssumption == \A o \in Strangers, ev \in Plan : o.name # Key(ev)
(* Others do not have the master key: what they seal or copy under a       *)
(* readable event's name does not open.                                    *)
ASSUME SealAssumption == \A o \in Strangers : ~Unreadable(o) => ~Opens(o, MasterKey)

VARIABLE plan

deviceVars == <<outboxVars, davVars, replayVars, plan>>

FirstDatabase ==
  [existing |-> FirstRows, rows |-> [e \in Entities |-> EmptyRow],
   links |-> {}, outbox |-> {}]

DeviceInit == OutboxInit(FirstDatabase) /\ DavInit /\ ReplayInit /\ plan \in Plans

(* The user changes something.  A change that was committed may be made    *)
(* once more, by a caller whose answer was lost.  A new one may sort before*)
(* those that are there: its time is in seconds, of a clock that may go    *)
(* back, and its id is random.                                             *)
MakeChange(ev) ==
  /\ ev \in plan
  /\ BeginChange(ev)
  /\ UNCHANGED <<davVars, replayVars, plan>>

LocalStep ==
  /\ \/ \E e \in UserStates : ReadRow(e)
     \/ NoteChange
     \/ CommitChange
     \/ RollBack
  /\ UNCHANGED <<davVars, replayVars, plan>>

(* The events of list_sync_events that no call confirmed are put.          *)
PutPending ==
  /\ BeginPut(db.outbox \ confirmed)
  /\ UNCHANGED <<outboxVars, replayVars, plan>>

(* The n-th event of the outbox is put.                                    *)
Put(n) ==
  /\ \E ev \in db.outbox : /\ Cardinality({o \in db.outbox : KeyLeq(Key(o), Key(ev))}) = n
                           /\ PutObject(ev)
  /\ UNCHANGED <<outboxVars, replayVars, plan>>

FailPut(ev) == PutFails(ev) /\ UNCHANGED <<outboxVars, replayVars, plan>>

(* The writing device restarts, perhaps in the middle of a transaction.    *)
Crash ==
  /\ Restart
  /\ draft' = None
  /\ view' = [e \in UserStates |-> db.rows[e]]
  /\ UNCHANGED <<db, stale, before, replayVars, plan>>

EnterSecret(secret) == TypeSecret(secret) /\ UNCHANGED <<outboxVars, replayVars, plan>>

PullPage ==
  LET cursor == copy[Reader].cursor
  IN  /\ PullSucceeds(cursor, PageSize)
      /\ PulledEvents(cursor, PageSize) # {}
      /\ DeliverPage(Reader, PulledEvents(cursor, PageSize))
      /\ UNCHANGED <<outboxVars, davVars, plan>>

FoldNext ==
  /\ \E ev \in page[Reader] : ReplayNext(Reader, ev)
  /\ UNCHANGED <<outboxVars, davVars, plan>>

(* One at a time.                                                          *)
Stranger(o) ==
  /\ \/ LeaveObject(o) /\ \A other \in Strangers : store[other.name] # other
     \/ RemoveObject(o)
  /\ UNCHANGED <<outboxVars, replayVars, plan>>

DeviceNext ==
  \/ \E ev \in Plan : MakeChange(ev) \/ FailPut(ev)
  \/ \E n \in 1 .. MaxChanges : Put(n)
  \/ LocalStep \/ PutPending \/ Crash
  \/ \E secret \in Secrets : EnterSecret(secret)
  \/ PullPage \/ FoldNext
  \/ \E o \in Strangers : Stranger(o)

(* Both devices keep trying, and the network lets a put through now and    *)
(* then; nobody has to change anything, and the store may stay dirty.      *)
DeviceFairness ==
  /\ SF_deviceVars(PutPending)
  /\ \A n \in 1 .. MaxChanges : SF_deviceVars(Put(n))
  /\ WF_deviceVars(EnterSecret(KitSecret))
  /\ SF_deviceVars(PullPage) /\ WF_deviceVars(FoldNext)

DeviceSpec == DeviceInit /\ [][DeviceNext]_deviceVars /\ DeviceFairness

-------------------------------------------------------------------------------
(* The tables, the outbox and the open transaction, the objects and the    *)
(* calls, the keys, and what the reader shows, are of their types: no      *)
(* wrong secret ever gives the reader a key.                               *)
DeviceTypeOK == OutboxTypeOK /\ DavTypeOK /\ ReplayTypeOK /\ plan \in Plans

Published == {ev \in Plan : store[Key(ev)] # NoObject /\ store[Key(ev)].payload.key = MasterKey}
Folded    == {ev \in Log : ev.id \in copy[Reader].applied}

(* update_user_state, create_annotation, move_feed_to_folder and           *)
(* attach_article_tag keep the tables and the outbox together, whatever    *)
(* crashes, failed constraints and repeated calls come between.            *)
OutboxTellsOfTables == OutboxTellsTables(FirstDatabase)

(* Nothing is on the server of a change that was rolled back, and an event *)
(* that was committed before one that is there, and sorts before it, is    *)
(* there too: a reader whose cursor has passed an event can miss only what *)
(* was committed after it.                                                 *)
PublishedIsPrefix ==
  /\ Published \subseteq db.outbox
  /\ \A ev \in Published, o \in db.outbox :
       KeyLess(Key(o), Key(ev)) /\ <<o, ev>> \in before => o \in Published

(* An event the writer will not put again is on the server, and a call     *)
(* that is given up at its last attempt confirms nothing.                  *)
ConfirmedIsPublished == confirmed \subseteq Published

(* One of the events sorts after o and was committed before it.            *)
Overtaken(o, events) ==
  \E ev \in events : KeyLess(Key(o), Key(ev)) /\ <<ev, o>> \in before

(* The reader shows what the events it folded tell, all of the outbox's    *)
(* beginning in key order, but for those that were committed after a newer *)
(* one it had folded: every column has the value the newest of them gives. *)
ReaderShowsPast ==
  /\ Folded \subseteq db.outbox
  /\ \A ev \in Folded, o \in db.outbox \ Folded :
       KeyLess(Key(o), Key(ev)) => Overtaken(o, Folded)
  /\ \A e \in Entities, f \in Fields : copy[Reader].fields[e][f] = Recorded(Folded, e, f)
  /\ copy[Reader].members \subseteq db.links

(* Nothing on the server fails a pull.                                     *)
Clean == \A o \in EventObjects : ~Unreadable(o) /\ Opens(o, MasterKey)

(* When nothing unreadable stays on the server and the writer does not     *)
(* give up for good, the reader catches up with the outbox: again and      *)
(* again, for the outbox may grow.  Only what was committed after a newer  *)
(* event the reader has may stay behind its cursor.                        *)
ReaderCatchesUp ==
  []<>~retry.exhausted /\ <>[]Clean
    => []<>(\A o \in db.outbox \ Folded : Overtaken(o, Folded))
===============================================================================
