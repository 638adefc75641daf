------------------------------- MODULE SyncPull -------------------------------
(***************************************************************************)
(* The sync loop of several devices over one remote log, as              *)
(* sync-engine/tests/concurrency.rs and sync-server/src/routes.rs run it:  *)
(* devices upload events, and each device pulls pages of at most a few     *)
(* events after its own cursor (pull_events -> package_event_batch) and    *)
(* folds them, some with merge.rs, some with replay.rs.                    *)
(*                                                                         *)
(* A page may be folded twice: its request is repeated when the answer is  *)
(* lost, and folding it again must change nothing.                         *)
(***************************************************************************)
EXTENDS SyncMerge, SyncReplay

CONSTANTS
  PageSizes,      \* the limits of pull requests
  UploadsInOrder  \* FALSE: a device may upload an event made before others
                  \* that are uploaded already (it was offline, or its clock
                  \* is behind)

ASSUME PullAssumption == PageSizes \subseteq Nat \ {0} /\ UploadsInOrder \in BOOLEAN

VARIABLE uploaded   \* the events of the user at the server

pullVars == <<state, batch, failed, copy, page, refused, uploaded>>

PullInit == Init /\ ReplayInit /\ uploaded = {}

(* A device's upload reaches the server (SyncServerState::upload_events).  *)
Upload(ev) ==
  /\ ev \notin uploaded
  /\ UploadsInOrder => \A o \in uploaded : KeyLess(Key(o), Key(ev))
  /\ uploaded' = uploaded \cup {ev}
  /\ UNCHANGED <<vars, replayVars>>

(* A merging device gets its next page.                                    *)
PullToMerge(r, n) ==
  LET next == Package(uploaded, state[r].cursor, n)
  IN  /\ next.events # {}
      /\ Deliver(r, next.events)
      /\ UNCHANGED <<replayVars, uploaded>>

(* A replaying device gets its next page.                                  *)
PullToReplay(x, n) ==
  LET next == Package(uploaded, copy[x].cursor, n)
  IN  /\ next.events # {}
      /\ DeliverPage(x, next.events)
      /\ UNCHANGED <<vars, uploaded>>

(* A page that was folded before is delivered once more, perhaps with what *)
(* was not yet folded when the request was made first.                     *)
Redeliver(r, n) ==
  \E ev \in uploaded :
    /\ ev.id \in state[r].applied
    /\ Deliver(r, {ev} \cup Package(uploaded, Key(ev), n).events)
    /\ UNCHANGED <<replayVars, uploaded>>

RedeliverPage(x, n) ==
  \E ev \in uploaded :
    /\ ev.id \in copy[x].applied
    /\ DeliverPage(x, {ev} \cup Package(uploaded, Key(ev), n).events)
    /\ UNCHANGED <<vars, uploaded>>

MergeStep(r) ==
  /\ \E ev \in batch[r] : MergeNext(r, ev) \/ MergeFails(r, ev)
  /\ UNCHANGED <<replayVars, uploaded>>

ReplayStep(x) ==
  /\ \E ev \in page[x] : ReplayNext(x, ev)
  /\ UNCHANGED <<vars, uploaded>>

PullNext ==
  \/ \E ev \in Log : Upload(ev)
  \/ \E r \in Replicas : \/ MergeStep(r)
                         \/ \E n \in PageSizes : PullToMerge(r, n) \/ Redeliver(r, n)
  \/ \E x \in Replayers : \/ ReplayStep(x)
                          \/ \E n \in PageSizes : PullToReplay(x, n) \/ RedeliverPage(x, n)

(* A device keeps pulling, and a call it made returns.                     *)
PullFairness ==
  /\ \A r \in Replicas : /\ WF_pullVars(MergeStep(r))
                         /\ SF_pullVars(\E n \in PageSizes : PullToMerge(r, n))
  /\ \A x \in Replayers : /\ WF_pullVars(ReplayStep(x))
                          /\ SF_pullVars(\E n \in PageSizes : PullToReplay(x, n))

PullSpec == PullInit /\ [][PullNext]_pullVars /\ PullFairness

-------------------------------------------------------------------------------
PullTypeOK == TypeOK /\ ReplayTypeOK /\ uploaded \in SUBSET Log

ReplayApplied(x) == {ev \in Log : ev.id \in copy[x].applied}

(* What a set of events means when they are taken in key order: the        *)
(* upserts of an entity that no delete follows, the newest of them that    *)
(* sets a field, the newest event of a link.                               *)
Standing(events, e) ==
  {ev \in events : /\ ev.target = e /\ ev.change = "upsert"
                   /\ \A o \in events : o.target = e /\ o.change = "delete"
                                          => KeyLess(Key(o), Key(ev))}

IsHistory(events, s, f) ==
  /\ s.members = {p \in Relations :
                    \E ev \in events : /\ ev.target = p /\ ev.change = "attach"
                                       /\ \A o \in events : o.target = p => KeyLeq(Key(o), Key(ev))}
  /\ s.present = {e \in Entities : Standing(events, e) # {}}
  /\ \A e \in Entities :
       LET writers == {ev \in Standing(events, e) : ev.fields[f] # Absent}
       IN  IF writers = {} THEN s.fields[e][f] = Absent
           ELSE \E ev \in writers : /\ \A o \in writers : KeyLeq(Key(o), Key(ev))
                                    /\ s.fields[e][f] = ev.fields[f]

(* Pulled by cursor from a log that grows in key order, replay.rs          *)
(* reconstructs every field of the history, whatever the page sizes and    *)
(* the pages that are folded twice.                                        *)
ReplayIsHistory ==
  \A x \in Replayers, f \in Fields : IsHistory(ReplayApplied(x), copy[x], f)

(* So does merge.rs, all its versions and tombstones notwithstanding, for  *)
(* every field but reading_progress, until it meets an event it refuses    *)
(* half-way.                                                               *)
MergeIsHistory ==
  \A r \in Replicas, f \in Fields \ {Progress} :
    failed[r] = {} => IsHistory(Applied(r), state[r], f)

(* A cursor never passes an event it has not applied: what is at or before *)
(* the cursor and on the server has been folded, also when a page ended in *)
(* an error or came twice.                                                 *)
NothingSkipped ==
  /\ \A r \in Replicas : \A ev \in uploaded :
       KeyLeq(Key(ev), state[r].cursor) => ev.id \in state[r].applied
  /\ \A x \in Replayers : \A ev \in uploaded :
       KeyLeq(Key(ev), copy[x].cursor) => ev.id \in copy[x].applied

(* Devices that keep pulling fold, in the end, whatever was uploaded up to *)
(* the first event they refuse; an event they refuse stops them for good,  *)
(* because merge_event_batch drops the rest of its page.                   *)
MergeRefuses(ev)  == ev.change = "malformed" \/ ev.fields[Progress] = Invalid
Reachable(Refuses(_)) ==
  {ev \in uploaded : \A o \in uploaded : Refuses(o) => KeyLess(Key(ev), Key(o))}

EventuallyFolded ==
  []<>(/\ \A r \in Replicas : Reachable(MergeRefuses) \subseteq Applied(r)
       /\ \A x \in Replayers : Reachable(ReplayFails) \subseteq ReplayApplied(x))

(* "merge and replay projections drifted"                                  *)
(* (crates/sync-engine/tests/concurrency.rs:94-98): a merging and a        *)
(* replaying device that pulled the same events show the same entities.    *)
ProjectionsAgree ==
  \A r \in Replicas, x \in Replayers :
    state[r].applied = copy[x].applied => state[r].fields = copy[x].fields

(* "Devices converge by replaying events and merging by field"             *)
(* (memory-bank/RSS-design-document.md:647): devices with nothing left to  *)
(* pull have applied the same events.                                      *)
CaughtUp(r) == batch[r] = {} /\ EventsAfter(uploaded, state[r].cursor) = {}

CaughtUpDevicesAgree ==
  \A q, r \in Replicas :
    CaughtUp(q) /\ CaughtUp(r) => state[q].applied = state[r].applied
===============================================================================
