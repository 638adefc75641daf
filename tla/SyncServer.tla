------------------------------ MODULE SyncServer ------------------------------
(***************************************************************************)
(* apps/sync-server: the handlers of routes.rs over the one store of       *)
(* state.rs.  A handler authenticates under the read lock, lets it go, and *)
(* does its work under a second lock: the two steps of a request, between  *)
(* which requests of other connections run.                                *)
(*                                                                         *)
(* Ids the server hands out are counters: user n, device n and token n are *)
(* the n-th elements of their sequences.  What the server only passes on   *)
(* (names, keys, ciphertext, checksums) is left out; body tells two events *)
(* with one id apart.                                                      *)
(***************************************************************************)
EXTENDS SyncEvents, Sequences

CONSTANTS
  Emails,        \* primary_email_hash values
  NoEmail,       \* a login without one: a new account each time
  Connections,
  Requests,      \* the event lists clients upload
  MaxUsers, MaxTokens, MaxDevices,  \* bounds on what is handed out
  BlobIds,       \* ids clients choose; the server's own are 1, 2, ...
  MaxBlobs       \* bound on the blob ids the server chooses

VARIABLES
  users,     \* users[n]: the email of user n, or NoEmail
  by_email,  \* user_ids_by_email_hash: 0, or the user of an email
  tokens,    \* tokens[n]: the user of token n
  devices,   \* devices[n]: the user of device n
  events,    \* events_by_user[u]: the stored events of user u
  blobs,     \* blobs_by_user[u]: the blobs of user u
  next_blob_id,
  conn,      \* conn[c]: the user authenticated for the request at c, or 0
  acked      \* acked[u]: the ids uploads of user u were told are stored

store == <<users, by_email, tokens, devices, events, blobs, next_blob_id>>
serverVars == <<store, conn, acked>>

Users == 1 .. MaxUsers

(* An uploaded event: supported says whether its two types are in the      *)
(* lists at the end of state.rs, encrypted whether its payload has the     *)
(* algorithm and a key id, nonce and ciphertext.                           *)
Upload == [id : Nat \ {0}, created_at : Nat, device : Nat, body : Nat,
           supported : BOOLEAN, encrypted : BOOLEAN]

Blob == [id : Nat \ {0}, device : Nat]

ASSUME ServerAssumption ==
  /\ NoEmail \notin Emails
  /\ Requests \subseteq Seq(Upload)
  /\ BlobIds \subseteq Nat \ {0}
  /\ MaxUsers \in Nat /\ MaxTokens \in Nat /\ MaxDevices \in Nat /\ MaxBlobs \in Nat

ServerInit ==
  /\ users = <<>> /\ tokens = <<>> /\ devices = <<>>
  /\ by_email = [m \in Emails |-> 0]
  /\ events = [u \in Users |-> {}]
  /\ blobs = [u \in Users |-> {}]
  /\ next_blob_id = 0
  /\ conn = [c \in Connections |-> 0]
  /\ acked = [u \in Users |-> {}]

-------------------------------------------------------------------------------
(* login: an email that has logged in before gets its user back, any other *)
(* login makes a user; a token is handed out in both cases.                *)
(* Slips: the index of emails is never asked; it is taken to know them all.*)
KnownUserNever(m)  == FALSE
KnownUserAlways(m) == m \in Emails

KnownUser(m) == m \in Emails /\ by_email[m] # 0

Login(m) ==
  /\ Len(tokens) < MaxTokens
  /\ \/ /\ KnownUser(m)
        /\ tokens' = Append(tokens, by_email[m])
        /\ UNCHANGED <<users, by_email>>
     \/ /\ ~KnownUser(m)
        /\ Len(users) < MaxUsers
        /\ users' = Append(users, m)
        /\ by_email' = IF m \in Emails
                         THEN [by_email EXCEPT ![m] = Len(users) + 1] ELSE by_email
        /\ tokens' = Append(tokens, Len(users) + 1)
  /\ UNCHANGED <<devices, events, blobs, next_blob_id, conn, acked>>

(* authenticate: the first lock of every other request.                    *)
Authenticate(c, t) ==
  /\ conn[c] = 0
  /\ t \in DOMAIN tokens
  /\ conn' = [conn EXCEPT ![c] = tokens[t]]
  /\ UNCHANGED <<store, acked>>

Answer(c) == conn' = [conn EXCEPT ![c] = 0]

RegisterDevice(c) ==
  /\ conn[c] # 0
  /\ Len(devices) < MaxDevices
  /\ devices' = Append(devices, conn[c])
  /\ Answer(c)
  /\ UNCHANGED <<users, by_email, tokens, events, blobs, next_blob_id, acked>>

OwnsDevice(u, d) == d \in DOMAIN devices /\ devices[d] = u

(* Every request of an unregistered or a foreign device is refused.        *)
RefuseDevice(c, d) ==
  /\ conn[c] # 0
  /\ ~OwnsDevice(conn[c], d)
  /\ Answer(c)
  /\ UNCHANGED <<store, acked>>

-------------------------------------------------------------------------------
(* upload_events: the loop takes the events in the order of the request    *)
(* and returns at the first bad one; what it has stored until then stays.  *)
Stored(u) == {ev.id : ev \in events[u]}

(* Slips: the events of the same request are not looked at; an event older *)
(* than the log's newest is taken for one the log has.                     *)
DuplicateOfLog(u, request, i) == request[i].id \in Stored(u)
DuplicateByAge(u, request, i) ==
  \E o \in events[u] : KeyLeq(Key(request[i]), Key(o))

(* Event i repeats an id that is stored by the time the loop gets to it.   *)
Duplicate(u, request, i) ==
  \/ request[i].id \in Stored(u)
  \/ \E j \in 1 .. i - 1 : request[j].id = request[i].id

(* Slip: the events of a request may be of any device.                     *)
BadTypes(u, d, request, i) ==
  \/ ~request[i].supported
  \/ ~Duplicate(u, request, i) /\ ~request[i].encrypted

Bad(u, d, request, i) ==
  \/ ~request[i].supported
  \/ request[i].device # d
  \/ ~Duplicate(u, request, i) /\ ~request[i].encrypted

(* The events the loop gets through.                                       *)
Taken(u, d, request) ==
  {i \in DOMAIN request : \A j \in 1 .. i : ~Bad(u, d, request, j)}

(* Slip: duplicates are stored again.                                      *)
AcceptedAgain(u, d, request) == {request[i] : i \in Taken(u, d, request)}

Accepted(u, d, request) ==
  {request[i] : i \in {i \in Taken(u, d, request) : ~Duplicate(u, request, i)}}

(* Slip: an event replaces the stored event with its id.                   *)
UploadEventsReplacing(c, d, request) ==
  LET u    == conn[c]
      next == {request[i] : i \in Taken(u, d, request)}
  IN  /\ u # 0
      /\ OwnsDevice(u, d)
      /\ events' = [events EXCEPT ![u] =
           {ev \in @ : \A o \in next : o.id # ev.id} \cup next]
      /\ Answer(c)
      /\ UNCHANGED <<users, by_email, tokens, devices, blobs, next_blob_id, acked>>

UploadEvents(c, d, request) ==
  LET u == conn[c]
  IN  /\ u # 0
      /\ OwnsDevice(u, d)
      /\ events' = [events EXCEPT ![u] = @ \cup Accepted(u, d, request)]
      /\ acked' = IF Taken(u, d, request) = DOMAIN request
                    THEN [acked EXCEPT ![u] = @ \cup {request[i].id : i \in DOMAIN request}]
                    ELSE acked
      /\ Answer(c)
      /\ UNCHANGED <<users, by_email, tokens, devices, blobs, next_blob_id>>

(* pull_events, list_devices and list_blobs only read, and a request that  *)
(* is refused for its own content (an empty name or key, an unknown kind   *)
(* of blob, a limit of 0) changes nothing.                                 *)
Read(c) ==
  /\ conn[c] # 0
  /\ Answer(c)
  /\ UNCHANGED <<store, acked>>

(* register_blob: id 0 in the request stands for none; the server then     *)
(* takes the next of its own.  A blob replaces the blob with its id.       *)
RegisterBlob(c, d, id) ==
  LET u    == conn[c]
      next == next_blob_id + 1
      blob == [id |-> IF id = 0 THEN next ELSE id, device |-> d]
  IN  /\ u # 0
      /\ OwnsDevice(u, d)
      /\ id = 0 => next_blob_id < MaxBlobs
      /\ blobs' = [blobs EXCEPT ![u] = {b \in @ : b.id # blob.id} \cup {blob}]
      /\ next_blob_id' = IF id = 0 THEN next ELSE next_blob_id
      /\ Answer(c)
      /\ UNCHANGED <<users, by_email, tokens, devices, events, acked>>

ServerNext ==
  \/ \E m \in Emails \cup {NoEmail} : Login(m)
  \/ \E c \in Connections :
       \/ \E t \in 1 .. MaxTokens : Authenticate(c, t)
       \/ RegisterDevice(c)
       \/ Read(c)
       \/ \E d \in 1 .. MaxDevices :
            \/ RefuseDevice(c, d)
            \/ \E request \in Requests : UploadEvents(c, d, request)
            \/ \E id \in BlobIds \cup {0} : RegisterBlob(c, d, id)

ServerSpec == ServerInit /\ [][ServerNext]_serverVars

-------------------------------------------------------------------------------
ServerTypeOK ==
  /\ users \in Seq(Emails \cup {NoEmail}) /\ Len(users) <= MaxUsers
  /\ by_email \in [Emails -> 0 .. MaxUsers]
  /\ tokens \in Seq(Users) /\ Len(tokens) <= MaxTokens
  /\ devices \in Seq(Users) /\ Len(devices) <= MaxDevices
  /\ events \in [Users -> SUBSET Upload]
  /\ blobs \in [Users -> SUBSET Blob]
  /\ next_blob_id \in 0 .. MaxBlobs
  /\ conn \in [Connections -> 0 .. MaxUsers]
  /\ acked \in [Users -> SUBSET (Nat \ {0})]

(* However logins interleave, an email has one account, and the index of   *)
(* emails finds it; every token, device and request is of a user that      *)
(* exists (login, authenticate, ensure_user_exists).                       *)
OneAccountPerEmail ==
  /\ \A m \in Emails : {n \in DOMAIN users : users[n] = m} =
                         IF by_email[m] = 0 THEN {} ELSE {by_email[m]}
  /\ \A t \in DOMAIN tokens : tokens[t] \in DOMAIN users
  /\ \A d \in DOMAIN devices : devices[d] \in DOMAIN users
  /\ \A c \in Connections : conn[c] \in {0} \cup DOMAIN users

(* What a user's log and blobs hold comes from that user's devices: the    *)
(* owner check of the request and the device check of each event together  *)
(* keep accounts apart (upload_events, register_blob).                     *)
ContentOfOwnDevices ==
  \A u \in Users : /\ \A ev \in events[u] : OwnsDevice(u, ev.device)
                   /\ \A b \in blobs[u] : OwnsDevice(u, b.device)

(* Accounts do not mix, in what finds them and in what they hold.          *)
AccountsAreApart == OneAccountPerEmail /\ ContentOfOwnDevices

(* A log never holds two events with one id, nor an event that is not      *)
(* encrypted or not of a synchronised type, though a request may hold      *)
(* several of each next to good ones.                                      *)
StoredEventsAreSound ==
  \A u \in Users : \A ev \in events[u] :
    /\ ev.supported /\ ev.encrypted
    /\ \A o \in events[u] : o.id = ev.id => o = ev

(* Every id an upload was answered as accepted or duplicate is stored, and *)
(* stays so: a device may forget an event it got an answer for.            *)
AckedIsStored == \A u \in Users : acked[u] \subseteq Stored(u)

(* A stored event never leaves its log and never changes, and a log grows  *)
(* only in the answer to a request authenticated as its user.              *)
LogsOnlyGrow ==
  [][\A u \in Users :
       /\ events[u] \subseteq events'[u]
       /\ events'[u] # events[u] =>
            \E c \in Connections : conn[c] = u /\ conn'[c] = 0]_serverVars

(* An upload repeated, because its answer was lost or was an error that    *)
(* came after some of its events were stored, stores nothing more: neither *)
(* a second copy nor an event beyond the one that was refused.             *)
RepeatedUploadStoresNothing ==
  [][\A c \in Connections, u \in Users, d \in 1 .. MaxDevices, request \in Requests :
       conn[c] = u /\ UploadEvents(c, d, request)
         => Accepted(u, d, request)' = {}]_serverVars
===============================================================================
