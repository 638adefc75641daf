----------------------------- MODULE MCDeviceSync ------------------------------
(***************************************************************************)
(* A small instance of DeviceSync: a few changes of one device, in all     *)
(* kinds of tables, and three objects others leave on the server.          *)
(***************************************************************************)
EXTENDS DeviceSync

CONSTANTS art, feed, lost, note, tag, early, late, progress, absent, invalid, key

MCEntities    == {art, feed, lost, note}
MCUserStates  == {art}
MCAnnotations == {note}
MCFirst       == {feed}
MCRelations   == {tag}
MCEarly       == {early}
MCLate        == {late}
MCReplayers   == {"reader"}
MCSecrets     == {"right", "wrong"}

Payload(x, p, y) ==
  [f \in Fields |-> CASE f = early -> x [] f = progress -> p [] f = late -> y]
Empty == Payload(absent, absent, absent)

Ev(id, at, target, change, payload) ==
  [id |-> id, created_at |-> at, target |-> target, change |-> change, fields |-> payload]

(* An article is opened and read in one second; it is tagged twice, with a *)
(* second event, a feed moved that is gone, and a note written; a feed is  *)
(* moved to two folders in one second.  The changes of a plan are made in  *)
(* any order, so a newer key may be committed first.                       *)
Open == Ev(1, 1, art, "upsert", Payload(1, absent, absent))
Read == Ev(2, 1, art, "upsert", Payload(absent, 1, absent))
Attach(id, at)  == Ev(id, at, tag, "attach", Empty)
Move(id, at, f, folder) == Ev(id, at, f, "upsert", Payload(absent, absent, folder))
Write(id, at)   == Ev(id, at, note, "upsert", Payload(1, absent, 1))

MCPlans == {{Open, Read}, {Attach(4, 1), Move(5, 2, lost, 1), Attach(6, 3), Write(7, 0)},
            {Move(8, 3, feed, 1), Move(10, 3, feed, 2)}}
MCPlan  == UNION MCPlans

(* An event of a device with another master key; it is not in the plan.    *)
Foreign == Ev(9, 2, note, "upsert", Payload(absent, absent, 1))
MCLog   == MCPlan \cup {Foreign}

(* Others may leave an event object under a wrong name (one that cannot be *)
(* parsed is treated alike), the foreign event, and that event with the    *)
(* payload of another.                                                     *)
Left(at, key_of, aad) ==
  [content_type |-> "event", name |-> [created_at |-> at, event_id |-> 9],
   event |-> Foreign, payload |-> EncryptBytes(key_of, Metadata(aad))]
MCStrangers ==
  {Left(8, key, Foreign), Left(2, "another key", Foreign), Left(2, key, Read)}
===============================================================================
