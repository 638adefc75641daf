------------------------------ MODULE WebDavSync ------------------------------
(***************************************************************************)
(* crates/sync-engine/src/webdav.rs with encryption.rs and retry.rs: sync  *)
(* over a plain object store.  A device puts one object per event, one     *)
(* after the other; a device lists them all and packages those after its   *)
(* cursor.  Every payload is sealed with the user's master key, bound to   *)
(* the event's clear metadata; a new device gets the key from a recovery   *)
(* kit.                                                                    *)
(*                                                                         *)
(* The store is outside: whoever may write to the folder may leave objects *)
(* there, and may remove them again.                                       *)
(***************************************************************************)
EXTENDS SyncEvents

CONSTANTS
  MasterKey,     \* the key of the user's devices
  Secrets,       \* the recovery secrets a user may type in
  KitSecret,     \* the one the kit was exported with
  Strangers,     \* the objects others may leave under events/
  MaxAttempts,   \* RetryPolicy::max_attempts
  NoKeyYet,      \* a device that has no master key
  NoObject       \* no object has this name

VARIABLES
  store,      \* store[n]: the object of name n under events/
  call,       \* the running put_webdav_event_objects: its events, those left
  confirmed,  \* the events of calls that returned Ok
  retry,      \* the RetryState of the uploading device
  masterKey   \* the key of the reading device

davVars == <<store, call, confirmed, retry, masterKey>>

(* event_aad: what of an event is in the clear, and is bound to what is    *)
(* not.                                                                    *)
Metadata(ev) ==
  [id |-> ev.id, created_at |-> ev.created_at, target |-> ev.target, change |-> ev.change]

(* encrypt_bytes: a ciphertext tells which key and which clear text it was *)
(* made with, and lets itself be opened with these only.                   *)
EncryptBytes(key, aad) == [key |-> key, aad |-> aad]

DecryptBytes(sealed, key, aad) == sealed = EncryptBytes(key, aad)

(* An object's name is its event's key, escaped.                           *)
Names  == Keys
Object == [content_type : {"event", "other"}, name : Names, event : Log,
           payload : [key : {MasterKey, "another key"}, aad : {Metadata(ev) : ev \in Log}]]

ASSUME StoreAssumption ==
  /\ KitSecret \in Secrets
  /\ MaxAttempts \in Nat \ {0}
  /\ Strangers \subseteq Object
  /\ MasterKey # NoKeyYet /\ NoObject \notin Object
ASSUME NoKeyAssumption == NoKeyYet # "another key"

NoCall   == [events |-> {}, left |-> {}]
NoRetry  == [attempts |-> 0, exhausted |-> FALSE]
UsedNames == {Key(ev) : ev \in Log} \cup {o.name : o \in Strangers}

(* encrypt_sync_event                                                      *)
Encrypt(ev) == EncryptBytes(MasterKey, Metadata(ev))

(* event_object_key and json_object                                        *)
ObjectOf(ev) ==
  [content_type |-> "event", name |-> Key(ev), event |-> ev, payload |-> Encrypt(ev)]

(* decrypt_sync_event: the key's id, then the key and the metadata, fit.   *)
Opens(object, key) ==
  /\ object.payload.key = key
  /\ DecryptBytes(object.payload, key, Metadata(object.event))

(* record_sync_failure                                                     *)
RecordSyncFailure(state) ==
  [attempts |-> state.attempts + 1, exhausted |-> state.attempts + 1 >= MaxAttempts]

DavInit ==
  /\ store = [n \in UsedNames |-> NoObject]
  /\ call = NoCall /\ confirmed = {} /\ retry = NoRetry
  /\ masterKey = NoKeyYet

(* The device lists its events and puts those it has no answer for.        *)
BeginPut(events) ==
  /\ call = NoCall /\ ~retry.exhausted
  /\ events # {}
  /\ call' = [events |-> events, left |-> events]
  /\ UNCHANGED <<store, confirmed, retry, masterKey>>

(* Slip: the events are put in no order.                                   *)
IsAny(ev, events) == ev \in events

(* put_webdav_event_objects puts them in the order it is given, which is   *)
(* that of list_sync_events.                                               *)
IsNext(ev, events) == IsFirst(ev, events)

PutObject(ev) ==
  /\ IsNext(ev, call.left)
  /\ store' = [store EXCEPT ![Key(ev)] = ObjectOf(ev)]
  /\ IF call.left = {ev}
       THEN /\ confirmed' = confirmed \cup call.events
            /\ retry' = NoRetry
            /\ call' = NoCall
       ELSE /\ call' = [call EXCEPT !.left = @ \ {ev}]
            /\ UNCHANGED <<confirmed, retry>>
  /\ UNCHANGED masterKey

(* Slip: the call goes on after an object that was not put.                *)
SkipObject(ev) ==
  IF call.left = {ev} THEN NoCall ELSE [call EXCEPT !.left = @ \ {ev}]

(* The first error ends the call.                                          *)
AbandonCall(ev) == NoCall

(* A put fails, or its answer is lost: what was put stays.                 *)
PutFails(ev) ==
  /\ IsNext(ev, call.left)
  /\ store' \in {store, [store EXCEPT ![Key(ev)] = ObjectOf(ev)]}
  /\ call' = AbandonCall(ev)
  /\ retry' = RecordSyncFailure(retry)
  /\ UNCHANGED <<confirmed, masterKey>>

(* The uploading program ends: what it knew of its calls is gone.          *)
Restart ==
  /\ call' = NoCall /\ confirmed' = {} /\ retry' = NoRetry
  /\ UNCHANGED <<store, masterKey>>

(* derive_recovery_key: other secrets give other keys.                     *)
DeriveRecoveryKey(secret) == <<"derived from", secret>>

(* export_master_key_recovery_kit                                          *)
RecoveryKit == EncryptBytes(DeriveRecoveryKey(KitSecret), "master key id")

(* Slip: any secret unwraps some key.                                      *)
RestoreWithoutCheck(secret) == IF secret = KitSecret THEN MasterKey ELSE "another key"

(* restore_master_key_from_recovery_kit                                    *)
RestoreMasterKey(secret) ==
  IF DecryptBytes(RecoveryKit, DeriveRecoveryKey(secret), "master key id") THEN MasterKey
                                                                           ELSE NoKeyYet

TypeSecret(secret) ==
  /\ masterKey = NoKeyYet
  /\ masterKey' = RestoreMasterKey(secret)
  /\ UNCHANGED <<store, call, confirmed, retry>>

Listed == {store[n] : n \in UsedNames} \ {NoObject}

(* An object of another content type is passed over.                       *)
EventObjects == {o \in Listed : o.content_type = "event"}

(* event_from_webdav_object or the comparison of the names fails.          *)
Unreadable(o) == o.name # Key(o.event)

(* package_encrypted_event_batch                                           *)
PulledEvents(cursor, max) ==
  Package({o.event : o \in EventObjects}, cursor, max).events

(* pull_webdav_event_batch, and decrypt_sync_event on each event of the    *)
(* batch: one object that fails fails the pull.                            *)
PullSucceeds(cursor, max) ==
  /\ \A o \in EventObjects : ~Unreadable(o)
  /\ \A o \in EventObjects : o.event \in PulledEvents(cursor, max) => Opens(o, masterKey)

(* Somebody leaves an object under events/, or removes one of those.       *)
LeaveObject(o) ==
  /\ store[o.name] = NoObject
  /\ store' = [store EXCEPT ![o.name] = o]
  /\ UNCHANGED <<call, confirmed, retry, masterKey>>

RemoveObject(o) ==
  /\ store[o.name] = o
  /\ store' = [store EXCEPT ![o.name] = NoObject]
  /\ UNCHANGED <<call, confirmed, retry, masterKey>>

DavTypeOK ==
  /\ store \in [UsedNames -> Object \cup {NoObject}]
  /\ call \in [events : SUBSET Log, left : SUBSET Log]
  /\ confirmed \subseteq Log
  /\ retry \in [attempts : 0 .. MaxAttempts, exhausted : BOOLEAN]
  /\ masterKey \in {NoKeyYet, MasterKey}
===============================================================================
