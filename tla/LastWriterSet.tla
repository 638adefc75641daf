---------------------------- MODULE LastWriterSet -----------------------------
(***************************************************************************)
(* What merge_relation (crates/sync-engine/src/merge.rs) promises of the   *)
(* feed-tag and article-tag links: at each replica a set of pairs that is  *)
(* a function of the set of link events seen, and of nothing else.         *)
(***************************************************************************)
EXTENDS SyncEvents

CONSTANT Replicas

VARIABLES
  seen,    \* seen[r]: the link events replica r has learnt of
  links    \* links[r]: the pairs attached at replica r

lwVars == <<seen, links>>

Writes == {ev \in Log : ev.change \in {"attach", "detach"}}

(* The pairs whose newest event in events is an attach.                    *)
View(events) ==
  {p \in Relations :
     \E ev \in events : /\ ev.target = p /\ ev.change = "attach"
                        /\ \A o \in events : o.target = p => KeyLeq(Key(o), Key(ev))}

LWInit == /\ seen  = [r \in Replicas |-> {}]
          /\ links = [r \in Replicas |-> {}]

(* Learning an event twice changes nothing: it is the stuttering step.     *)
Learn(r, ev) ==
  /\ ev \notin seen[r]
  /\ seen'  = [seen EXCEPT ![r] = @ \cup {ev}]
  /\ links' = [links EXCEPT ![r] = View(seen[r] \cup {ev})]

LWNext == \E r \in Replicas, ev \in Writes : Learn(r, ev)

LWSpec == LWInit /\ [][LWNext]_lwVars
===============================================================================
