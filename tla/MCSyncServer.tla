----------------------------- MODULE MCSyncServer -----------------------------
(***************************************************************************)
(* A small instance of SyncServer: one account by email and anonymous      *)
(* ones, two devices, two connections.                                     *)
(***************************************************************************)
EXTENDS SyncServer

Item(id, at, d, body, supported, encrypted) ==
  [id |-> id, created_at |-> at, device |-> d, body |-> body,
   supported |-> supported, encrypted |-> encrypted]

(* A good request and one with an event of an unsupported type in its      *)
(* middle; a second version of a stored event; an event of the other       *)
(* device; a repeated id with a plaintext payload, which is a duplicate,   *)
(* before a new plaintext event, which is refused.                         *)
MCRequests ==
  {<<Item(1, 2, 1, 0, TRUE, TRUE)>>,
   <<Item(2, 1, 1, 0, TRUE, TRUE), Item(3, 3, 1, 0, FALSE, TRUE), Item(4, 3, 1, 0, TRUE, TRUE)>>,
   <<Item(1, 3, 2, 1, TRUE, TRUE), Item(2, 1, 1, 0, TRUE, TRUE)>>,
   <<Item(1, 3, 2, 1, TRUE, FALSE), Item(4, 4, 2, 0, TRUE, TRUE),
     Item(4, 5, 2, 1, TRUE, TRUE), Item(3, 5, 2, 0, TRUE, FALSE)>>}
===============================================================================
