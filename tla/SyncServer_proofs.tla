--------------------------- MODULE SyncServer_proofs --------------------------
(***************************************************************************)
(* Proofs about SyncServer, for any users, devices, connections, uploads   *)
(* and bounds.                                                             *)
(*                                                                         *)
(* What the loop of upload_events does with a request is stated first, as  *)
(* lemmas about Taken and Accepted; the invariants follow action by action.*)
(***************************************************************************)
EXTENDS SyncServer, WellFoundedInduction, TLAPS

-------------------------------------------------------------------------------
LEMMA SmallestOf ==
  ASSUME NEW S, S \subseteq Nat, S # {}
  PROVE  \E m \in S : \A n \in S : m <= n
<1>1. PICK m \in S : \A n \in S : <<n, m>> \notin OpToRel(<, Nat)
  BY WFMin, NatLessThanWellFounded
<1>2. \A n \in S : <<n, m>> \in Nat \X Nat
  OBVIOUS
<1>3. \A n \in S : ~(n < m)
  BY <1>1, <1>2 DEF OpToRel
<1> QED
  BY <1>3

LEMMA EventOfRequest ==
  ASSUME NEW request \in Requests, NEW i \in DOMAIN request
  PROVE  request[i] \in Upload /\ i \in Nat /\ i \in 1 .. i
<1>1. request \in Seq(Upload)
  BY ServerAssumption
<1> QED
  BY <1>1

(* What the loop gets through is of the request's device, of a known type, *)
(* and encrypted unless it is a duplicate.                                 *)
LEMMA TakenIsGood ==
  ASSUME NEW u, NEW d, NEW request \in Requests, NEW i \in Taken(u, d, request)
  PROVE  /\ i \in DOMAIN request
         /\ request[i].supported
         /\ request[i].device = d
         /\ Duplicate(u, request, i) \/ request[i].encrypted
<1>1. i \in DOMAIN request /\ i \in 1 .. i
  BY EventOfRequest DEF Taken
<1>2. ~Bad(u, d, request, i)
  BY <1>1 DEF Taken
<1> QED
  BY <1>1, <1>2 DEF Bad

LEMMA AcceptedIsSound ==
  ASSUME NEW u, NEW d, NEW request \in Requests, NEW ev \in Accepted(u, d, request)
  PROVE  /\ ev \in Upload
         /\ ev.supported
         /\ ev.encrypted
         /\ ev.device = d
         /\ ev.id \notin Stored(u)
<1>1. PICK i \in Taken(u, d, request) : ev = request[i] /\ ~Duplicate(u, request, i)
  BY DEF Accepted
<1>2. request[i] \in Upload
  BY TakenIsGood, EventOfRequest
<1>3. ev.supported /\ ev.encrypted /\ ev.device = d
  BY <1>1, TakenIsGood
<1>4. ev.id \notin Stored(u)
  BY <1>1 DEF Duplicate
<1> QED
  BY <1>1, <1>2, <1>3, <1>4

LEMMA AcceptedIdsDiffer ==
  ASSUME NEW u, NEW d, NEW request \in Requests,
         NEW ev \in Accepted(u, d, request), NEW o \in Accepted(u, d, request),
         ev.id = o.id
  PROVE  ev = o
<1>1. PICK i \in Taken(u, d, request) : ev = request[i] /\ ~Duplicate(u, request, i)
  BY DEF Accepted
<1>2. PICK j \in Taken(u, d, request) : o = request[j] /\ ~Duplicate(u, request, j)
  BY DEF Accepted
<1>3. i \in Nat \ {0} /\ j \in Nat \ {0}
  <2>1. i \in DOMAIN request /\ j \in DOMAIN request /\ request \in Seq(Upload)
    BY TakenIsGood, ServerAssumption
  <2> QED
    BY <2>1
<1>4. CASE i < j
  <2>1. i \in 1 .. j - 1
    BY <1>3, <1>4
  <2> QED
    BY <1>1, <1>2, <2>1 DEF Duplicate
<1>5. CASE j < i
  <2>1. j \in 1 .. i - 1
    BY <1>3, <1>5
  <2> QED
    BY <1>1, <1>2, <2>1 DEF Duplicate
<1>6. CASE i = j
  BY <1>1, <1>2, <1>6
<1> QED
  BY <1>3, <1>4, <1>5, <1>6

(* Of the events with one id that the loop gets through, the first is      *)
(* stored, unless the log has the id already.                              *)
LEMMA TakenIsStored ==
  ASSUME NEW u, NEW d, NEW request \in Requests, NEW i \in Taken(u, d, request)
  PROVE  request[i].id \in Stored(u) \cup {ev.id : ev \in Accepted(u, d, request)}
<1> DEFINE Same == {j \in Taken(u, d, request) : request[j].id = request[i].id}
<1>1. Same \subseteq Nat /\ Same # {}
  <2>1. \A j \in Taken(u, d, request) : j \in Nat
    BY TakenIsGood, EventOfRequest
  <2> QED
    BY <2>1
<1>2. PICK m \in Same : \A n \in Same : m <= n
  <2> HIDE DEF Same
  <2> QED
    BY <1>1, SmallestOf
<1>3. m \in Taken(u, d, request) /\ request[m].id = request[i].id /\ m \in DOMAIN request
  BY TakenIsGood
<1>4. CASE Duplicate(u, request, m)
  <2>1. CASE request[m].id \in Stored(u)
    BY <1>3, <2>1
  <2>2. CASE \E j \in 1 .. m - 1 : request[j].id = request[m].id
    <3>1. PICK j \in 1 .. m - 1 : request[j].id = request[m].id
      BY <2>2
    <3>2. request \in Seq(Upload) /\ m \in Nat
      BY <1>1, ServerAssumption
    <3>3. j \in DOMAIN request /\ 1 .. j \subseteq 1 .. m /\ j < m
      BY <1>3, <3>1, <3>2
    <3>4. j \in Taken(u, d, request)
      BY <1>3, <3>3 DEF Taken
    <3>5. j \in Same
      BY <1>3, <3>1, <3>4
    <3>6. m <= j
      BY <1>2, <3>5
    <3> QED
      BY <3>2, <3>3, <3>6, <1>1, <3>5
  <2> QED
    BY <1>4, <2>1, <2>2 DEF Duplicate
<1>5. CASE ~Duplicate(u, request, m)
  <2>1. request[m] \in Accepted(u, d, request)
    BY <1>3, <1>5 DEF Accepted
  <2> QED
    BY <1>3, <2>1
<1> QED
  BY <1>4, <1>5

-------------------------------------------------------------------------------
(* A request is of a user, and a token and a device are of one.            *)
LEMMA UserOfRequest ==
  ASSUME ServerTypeOK, NEW c \in Connections, conn[c] # 0
  PROVE  conn[c] \in Users
  BY ServerAssumption DEF ServerTypeOK, Users

LEMMA TypeInitial ==
  ASSUME ServerInit
  PROVE  ServerTypeOK
<1>1. /\ users = <<>> /\ tokens = <<>> /\ devices = <<>>
  BY DEF ServerInit
<1>2. /\ users \in Seq(Emails \cup {NoEmail}) /\ Len(users) <= MaxUsers
      /\ tokens \in Seq(Users) /\ Len(tokens) <= MaxTokens
      /\ devices \in Seq(Users) /\ Len(devices) <= MaxDevices
  BY <1>1, ServerAssumption
<1> QED
  BY <1>2, ServerAssumption DEF ServerInit, ServerTypeOK

LEMMA TypeOfLogin ==
  ASSUME ServerTypeOK, NEW m \in Emails \cup {NoEmail}, Login(m)
  PROVE  ServerTypeOK'
<1>1. CASE KnownUser(m) /\ tokens' = Append(tokens, by_email[m]) /\ UNCHANGED <<users, by_email>>
  <2>1. by_email[m] \in Users
    BY <1>1, ServerAssumption DEF ServerTypeOK, KnownUser, Users
  <2>2. tokens' \in Seq(Users) /\ Len(tokens') <= MaxTokens
    BY <1>1, <2>1, ServerAssumption DEF ServerTypeOK, Login
  <2> QED
    BY <1>1, <2>2 DEF ServerTypeOK, Login
<1>2. CASE /\ ~KnownUser(m)
           /\ Len(users) < MaxUsers
           /\ users' = Append(users, m)
           /\ by_email' = IF m \in Emails
                            THEN [by_email EXCEPT ![m] = Len(users) + 1] ELSE by_email
           /\ tokens' = Append(tokens, Len(users) + 1)
  <2>1. Len(users) + 1 \in Users
    BY <1>2, ServerAssumption DEF ServerTypeOK, Users
  <2>2. tokens' \in Seq(Users) /\ Len(tokens') <= MaxTokens
    BY <1>2, <2>1, ServerAssumption DEF ServerTypeOK, Login
  <2>3. users' \in Seq(Emails \cup {NoEmail}) /\ Len(users') <= MaxUsers
    BY <1>2, ServerAssumption DEF ServerTypeOK
  <2>4. by_email' \in [Emails -> 0 .. MaxUsers]
    BY <1>2, <2>1, ServerAssumption DEF ServerTypeOK, Users
  <2> QED
    BY <2>2, <2>3, <2>4 DEF ServerTypeOK, Login
<1> QED
  BY <1>1, <1>2 DEF Login

LEMMA TypeOfUpload ==
  ASSUME ServerTypeOK, NEW c \in Connections, NEW d \in 1 .. MaxDevices,
         NEW request \in Requests, UploadEvents(c, d, request)
  PROVE  ServerTypeOK'
<1> DEFINE u == conn[c]
<1>1. u \in Users
  BY UserOfRequest DEF UploadEvents
<1>2. Accepted(u, d, request) \subseteq Upload
  BY AcceptedIsSound
<1>3. {request[i].id : i \in DOMAIN request} \subseteq Nat \ {0}
  BY EventOfRequest DEF Upload
<1>4. events' \in [Users -> SUBSET Upload]
  BY <1>1, <1>2 DEF ServerTypeOK, UploadEvents
<1>5. acked' \in [Users -> SUBSET (Nat \ {0})]
  BY <1>1, <1>3 DEF ServerTypeOK, UploadEvents
<1>6. conn' \in [Connections -> 0 .. MaxUsers]
  BY ServerAssumption DEF ServerTypeOK, UploadEvents, Answer
<1> QED
  BY <1>4, <1>5, <1>6 DEF ServerTypeOK, UploadEvents

LEMMA TypeOfRegisterBlob ==
  ASSUME ServerTypeOK, NEW c \in Connections, NEW d \in 1 .. MaxDevices,
         NEW id \in BlobIds \cup {0}, RegisterBlob(c, d, id)
  PROVE  ServerTypeOK'
<1> DEFINE u    == conn[c]
           blob == [id |-> IF id = 0 THEN next_blob_id + 1 ELSE id, device |-> d]
<1>1. u \in Users
  BY UserOfRequest DEF RegisterBlob
<1>2. blob \in Blob
  BY ServerAssumption DEF ServerTypeOK, Blob
<1>3. blobs' = [blobs EXCEPT ![u] = {b \in @ : b.id # blob.id} \cup {blob}]
  BY DEF RegisterBlob
<1>4. blobs' \in [Users -> SUBSET Blob]
  <2> HIDE DEF u, blob
  <2> QED
    BY <1>1, <1>2, <1>3 DEF ServerTypeOK
<1>5. next_blob_id' \in 0 .. MaxBlobs
  BY ServerAssumption DEF ServerTypeOK, RegisterBlob
<1>6. conn' \in [Connections -> 0 .. MaxUsers]
  BY ServerAssumption DEF ServerTypeOK, RegisterBlob, Answer
<1> QED
  BY <1>4, <1>5, <1>6 DEF ServerTypeOK, RegisterBlob

(* Whatever clients ask, the store keeps its types and its bounds.         *)
LEMMA TypeKept ==
  ASSUME ServerTypeOK, [ServerNext]_serverVars
  PROVE  ServerTypeOK'
<1>1. CASE UNCHANGED serverVars
  BY <1>1 DEF ServerTypeOK, serverVars, store
<1>2. ASSUME NEW m \in Emails \cup {NoEmail}, Login(m)
      PROVE  ServerTypeOK'
  BY <1>2, TypeOfLogin
<1>3. ASSUME NEW c \in Connections, NEW t \in 1 .. MaxTokens, Authenticate(c, t)
      PROVE  ServerTypeOK'
  <2>1. tokens[t] \in 0 .. MaxUsers
    BY <1>3, ServerAssumption DEF ServerTypeOK, Authenticate, Users
  <2> QED
    BY <1>3, <2>1 DEF ServerTypeOK, Authenticate, store
<1>4. ASSUME NEW c \in Connections, RegisterDevice(c)
      PROVE  ServerTypeOK'
  <2>1. conn[c] \in Users
    BY <1>4, UserOfRequest DEF RegisterDevice
  <2>2. devices' \in Seq(Users) /\ Len(devices') <= MaxDevices
    BY <1>4, <2>1, ServerAssumption DEF ServerTypeOK, RegisterDevice
  <2>3. conn' \in [Connections -> 0 .. MaxUsers]
    BY <1>4, ServerAssumption DEF ServerTypeOK, RegisterDevice, Answer
  <2> QED
    BY <1>4, <2>2, <2>3 DEF ServerTypeOK, RegisterDevice
<1>5. ASSUME NEW c \in Connections, Answer(c), UNCHANGED <<store, acked>>
      PROVE  ServerTypeOK'
  <2>1. conn' \in [Connections -> 0 .. MaxUsers]
    BY <1>5, ServerAssumption DEF ServerTypeOK, Answer
  <2> QED
    BY <1>5, <2>1 DEF ServerTypeOK, store
<1>6. ASSUME NEW c \in Connections, Read(c)
      PROVE  ServerTypeOK'
  BY <1>5, <1>6 DEF Read
<1>7. ASSUME NEW c \in Connections, NEW d \in 1 .. MaxDevices, RefuseDevice(c, d)
      PROVE  ServerTypeOK'
  BY <1>5, <1>7 DEF RefuseDevice
<1>8. ASSUME NEW c \in Connections, NEW d \in 1 .. MaxDevices,
             NEW request \in Requests, UploadEvents(c, d, request)
      PROVE  ServerTypeOK'
  BY <1>8, TypeOfUpload
<1>9. ASSUME NEW c \in Connections, NEW d \in 1 .. MaxDevices,
             NEW id \in BlobIds \cup {0}, RegisterBlob(c, d, id)
      PROVE  ServerTypeOK'
  BY <1>9, TypeOfRegisterBlob
<1> QED
  BY <1>1, <1>2, <1>3, <1>4, <1>6, <1>7, <1>8, <1>9 DEF ServerNext

(* The server's state always has its types, and stays within what may be   *)
(* handed out.                                                             *)
THEOREM ServerIsTyped == ServerSpec => []ServerTypeOK
<1>1. ServerInit => ServerTypeOK
  BY TypeInitial
<1>2. ServerTypeOK /\ [ServerNext]_serverVars => ServerTypeOK'
  BY TypeKept
<1> QED
  BY <1>1, <1>2, PTL DEF ServerSpec

-------------------------------------------------------------------------------
(* Of the rest of the state, each action changes little.  What an action   *)
(* leaves alone is stated once.                                            *)
LEMMA OnlyLoginsMakeAccounts ==
  ASSUME [ServerNext]_serverVars
  PROVE  \/ \E m \in Emails \cup {NoEmail} : Login(m)
         \/ UNCHANGED <<users, by_email, tokens>>
<1>1. UNCHANGED serverVars => UNCHANGED <<users, by_email, tokens>>
  BY DEF serverVars, store
<1>2. ASSUME NEW c \in Connections,
             \/ \E t \in 1 .. MaxTokens : Authenticate(c, t)
             \/ RegisterDevice(c)
             \/ Read(c)
             \/ \E d \in 1 .. MaxDevices :
                  \/ RefuseDevice(c, d)
                  \/ \E request \in Requests : UploadEvents(c, d, request)
                  \/ \E id \in BlobIds \cup {0} : RegisterBlob(c, d, id)
      PROVE  UNCHANGED <<users, by_email, tokens>>
  BY <1>2 DEF Authenticate, RegisterDevice, Read, RefuseDevice, UploadEvents,
              RegisterBlob, store
<1> QED
  BY <1>1, <1>2 DEF ServerNext

LEMMA OnlyUploadsWriteLogs ==
  ASSUME [ServerNext]_serverVars
  PROVE  \/ \E c \in Connections, d \in 1 .. MaxDevices, request \in Requests :
              UploadEvents(c, d, request)
         \/ UNCHANGED <<events, acked>>
<1>1. UNCHANGED serverVars => UNCHANGED <<events, acked>>
  BY DEF serverVars, store
<1>2. ASSUME NEW m \in Emails \cup {NoEmail}, Login(m)
      PROVE  UNCHANGED <<events, acked>>
  BY <1>2 DEF Login
<1>3. ASSUME NEW c \in Connections,
             \/ \E t \in 1 .. MaxTokens : Authenticate(c, t)
             \/ RegisterDevice(c)
             \/ Read(c)
             \/ \E d \in 1 .. MaxDevices :
                  \/ RefuseDevice(c, d)
                  \/ \E id \in BlobIds \cup {0} : RegisterBlob(c, d, id)
      PROVE  UNCHANGED <<events, acked>>
  BY <1>3 DEF Authenticate, RegisterDevice, Read, RefuseDevice, RegisterBlob, store
<1> QED
  BY <1>1, <1>2, <1>3 DEF ServerNext

LEMMA OnlyBlobsAreReplaced ==
  ASSUME [ServerNext]_serverVars
  PROVE  \/ \E c \in Connections, d \in 1 .. MaxDevices, id \in BlobIds \cup {0} :
              RegisterBlob(c, d, id)
         \/ UNCHANGED blobs
<1>1. UNCHANGED serverVars => UNCHANGED blobs
  BY DEF serverVars, store
<1>2. ASSUME NEW m \in Emails \cup {NoEmail}, Login(m)
      PROVE  UNCHANGED blobs
  BY <1>2 DEF Login
<1>3. ASSUME NEW c \in Connections,
             \/ \E t \in 1 .. MaxTokens : Authenticate(c, t)
             \/ RegisterDevice(c)
             \/ Read(c)
             \/ \E d \in 1 .. MaxDevices :
                  \/ RefuseDevice(c, d)
                  \/ \E request \in Requests : UploadEvents(c, d, request)
      PROVE  UNCHANGED blobs
  BY <1>3 DEF Authenticate, RegisterDevice, Read, RefuseDevice, UploadEvents, store
<1> QED
  BY <1>1, <1>2, <1>3 DEF ServerNext

LEMMA DevicesStay ==
  ASSUME ServerTypeOK, [ServerNext]_serverVars
  PROVE  /\ \A u \in Users, d \in Nat : OwnsDevice(u, d) => OwnsDevice(u, d)'
         /\ \/ UNCHANGED devices
            \/ \E c \in Connections : conn[c] # 0 /\ devices' = Append(devices, conn[c])
<1>1. ASSUME NEW c \in Connections, RegisterDevice(c)
      PROVE  conn[c] # 0 /\ devices' = Append(devices, conn[c])
  BY <1>1 DEF RegisterDevice
<1>2. ASSUME UNCHANGED serverVars
      PROVE  UNCHANGED devices
  BY <1>2 DEF serverVars, store
<1>3. ASSUME NEW m \in Emails \cup {NoEmail}, Login(m)
      PROVE  UNCHANGED devices
  BY <1>3 DEF Login
<1>4. ASSUME NEW c \in Connections,
             \/ \E t \in 1 .. MaxTokens : Authenticate(c, t)
             \/ Read(c)
             \/ \E d \in 1 .. MaxDevices :
                  \/ RefuseDevice(c, d)
                  \/ \E request \in Requests : UploadEvents(c, d, request)
                  \/ \E id \in BlobIds \cup {0} : RegisterBlob(c, d, id)
      PROVE  UNCHANGED devices
  BY <1>4 DEF Authenticate, Read, RefuseDevice, UploadEvents, RegisterBlob, store
<1>5. \/ UNCHANGED devices
      \/ \E c \in Connections : conn[c] # 0 /\ devices' = Append(devices, conn[c])
  BY <1>1, <1>2, <1>3, <1>4 DEF ServerNext
<1>6. \A u \in Users, d \in Nat : OwnsDevice(u, d) => OwnsDevice(u, d)'
  <2>1. CASE UNCHANGED devices
    BY <2>1 DEF OwnsDevice
  <2>2. ASSUME NEW c \in Connections, conn[c] # 0, devices' = Append(devices, conn[c])
        PROVE  \A u \in Users, d \in Nat : OwnsDevice(u, d) => OwnsDevice(u, d)'
    <3>1. devices \in Seq(Users) /\ conn[c] \in Users
      BY <2>2, UserOfRequest DEF ServerTypeOK
    <3>2. \A d \in DOMAIN devices : d \in DOMAIN devices' /\ devices'[d] = devices[d]
      BY <2>2, <3>1
    <3> QED
      BY <3>2 DEF OwnsDevice
  <2> QED
    BY <1>5, <2>1, <2>2
<1> QED
  BY <1>5, <1>6

LEMMA ConnectionsOfUsers ==
  ASSUME ServerTypeOK, [ServerNext]_serverVars, NEW c \in Connections
  PROVE  \/ conn'[c] = conn[c] \/ conn'[c] = 0
         \/ \E t \in DOMAIN tokens : conn'[c] = tokens[t]
<1>1. UNCHANGED serverVars => conn'[c] = conn[c]
  BY DEF serverVars
<1>2. ASSUME NEW m \in Emails \cup {NoEmail}, Login(m)
      PROVE  conn'[c] = conn[c]
  BY <1>2 DEF Login
<1>3. ASSUME NEW a \in Connections, NEW t \in 1 .. MaxTokens, Authenticate(a, t)
      PROVE  conn'[c] = conn[c] \/ \E n \in DOMAIN tokens : conn'[c] = tokens[n]
  BY <1>3 DEF Authenticate, ServerTypeOK
<1>4. ASSUME NEW a \in Connections, Answer(a)
      PROVE  conn'[c] = conn[c] \/ conn'[c] = 0
  BY <1>4 DEF Answer, ServerTypeOK
<1>5. ASSUME NEW a \in Connections,
             \/ RegisterDevice(a)
             \/ Read(a)
             \/ \E d \in 1 .. MaxDevices :
                  \/ RefuseDevice(a, d)
                  \/ \E request \in Requests : UploadEvents(a, d, request)
                  \/ \E id \in BlobIds \cup {0} : RegisterBlob(a, d, id)
      PROVE  Answer(a)
  BY <1>5 DEF RegisterDevice, Read, RefuseDevice, UploadEvents, RegisterBlob
<1> QED
  BY <1>1, <1>2, <1>3, <1>4, <1>5 DEF ServerNext

-------------------------------------------------------------------------------
LEMMA AccountsInitial ==
  ASSUME ServerInit
  PROVE  OneAccountPerEmail
<1>1. DOMAIN users = {} /\ DOMAIN tokens = {} /\ DOMAIN devices = {}
  BY DEF ServerInit
<1> QED
  BY <1>1 DEF ServerInit, OneAccountPerEmail

(* A login keeps the index of emails and the users in step.                *)
LEMMA AccountsOfLogin ==
  ASSUME ServerTypeOK, OneAccountPerEmail, NEW m \in Emails \cup {NoEmail}, Login(m)
  PROVE  /\ \A e \in Emails : {n \in DOMAIN users : users[n] = e}' =
                                IF by_email'[e] = 0 THEN {} ELSE {by_email'[e]}
         /\ \A t \in DOMAIN tokens' : tokens'[t] \in DOMAIN users'
         /\ DOMAIN users \subseteq DOMAIN users'
<1>1. CASE KnownUser(m) /\ tokens' = Append(tokens, by_email[m]) /\ UNCHANGED <<users, by_email>>
  <2>1. by_email[m] \in DOMAIN users
    BY <1>1 DEF KnownUser, OneAccountPerEmail
  <2>2. \A t \in DOMAIN tokens' : tokens'[t] \in DOMAIN users'
    BY <1>1, <2>1 DEF ServerTypeOK, OneAccountPerEmail
  <2> QED
    BY <1>1, <2>2 DEF OneAccountPerEmail
<1>2. CASE /\ ~KnownUser(m)
           /\ Len(users) < MaxUsers
           /\ users' = Append(users, m)
           /\ by_email' = IF m \in Emails
                            THEN [by_email EXCEPT ![m] = Len(users) + 1] ELSE by_email
           /\ tokens' = Append(tokens, Len(users) + 1)
  <2>1. users \in Seq(Emails \cup {NoEmail}) /\ tokens \in Seq(Users)
    BY DEF ServerTypeOK
  <2>2. /\ DOMAIN users' = DOMAIN users \cup {Len(users) + 1}
        /\ Len(users) + 1 \notin DOMAIN users
        /\ \A n \in DOMAIN users : users'[n] = users[n]
        /\ users'[Len(users) + 1] = m
    BY <1>2, <2>1
  <2>3. /\ DOMAIN tokens' = DOMAIN tokens \cup {Len(tokens) + 1}
        /\ \A t \in DOMAIN tokens : tokens'[t] = tokens[t]
        /\ tokens'[Len(tokens) + 1] = Len(users) + 1
    BY <1>2, <2>1
  <2>4. ASSUME NEW e \in Emails
        PROVE  {n \in DOMAIN users' : users'[n] = e} =
                 IF by_email'[e] = 0 THEN {} ELSE {by_email'[e]}
    <3>1. CASE e = m
      <4>1. {n \in DOMAIN users : users[n] = e} = {}
        BY <1>2, <3>1, <2>4 DEF KnownUser, OneAccountPerEmail
      <4>2. {n \in DOMAIN users' : users'[n] = e} = {Len(users) + 1}
        BY <2>2, <3>1, <4>1
      <4>3. by_email'[e] = Len(users) + 1 /\ by_email'[e] # 0
        BY <1>2, <2>1, <2>4, <3>1 DEF ServerTypeOK
      <4> QED
        BY <4>2, <4>3
    <3>2. CASE e # m
      <4>1. by_email'[e] = by_email[e]
        BY <1>2, <3>2 DEF ServerTypeOK
      <4>2. {n \in DOMAIN users' : users'[n] = e} = {n \in DOMAIN users : users[n] = e}
        BY <2>2, <3>2
      <4> QED
        BY <4>1, <4>2, <2>4 DEF OneAccountPerEmail
    <3> QED
      BY <3>1, <3>2
  <2> QED
    BY <2>2, <2>3, <2>4 DEF OneAccountPerEmail
<1> QED
  BY <1>1, <1>2 DEF Login

LEMMA AccountsKept ==
  ASSUME ServerTypeOK, OneAccountPerEmail, [ServerNext]_serverVars
  PROVE  OneAccountPerEmail'
<1>1. /\ \A e \in Emails : {n \in DOMAIN users : users[n] = e}' =
                             IF by_email'[e] = 0 THEN {} ELSE {by_email'[e]}
      /\ \A t \in DOMAIN tokens' : tokens'[t] \in DOMAIN users'
      /\ DOMAIN users \subseteq DOMAIN users'
  BY AccountsOfLogin, OnlyLoginsMakeAccounts DEF OneAccountPerEmail
<1>2. \A c \in Connections : conn'[c] \in {0} \cup DOMAIN users'
  BY <1>1, ConnectionsOfUsers DEF OneAccountPerEmail
<1>3. \A d \in DOMAIN devices' : devices'[d] \in DOMAIN users'
  <2>1. CASE UNCHANGED devices
    BY <1>1, <2>1 DEF OneAccountPerEmail
  <2>2. ASSUME NEW c \in Connections, conn[c] # 0, devices' = Append(devices, conn[c])
        PROVE  \A d \in DOMAIN devices' : devices'[d] \in DOMAIN users'
    <3>1. conn[c] \in DOMAIN users
      BY <2>2 DEF OneAccountPerEmail
    <3> QED
      BY <1>1, <2>2, <3>1 DEF ServerTypeOK, OneAccountPerEmail
  <2> QED
    BY <2>1, <2>2, DevicesStay
<1> QED
  BY <1>1, <1>2, <1>3 DEF OneAccountPerEmail

-------------------------------------------------------------------------------
LEMMA ContentKept ==
  ASSUME ServerTypeOK, ContentOfOwnDevices, [ServerNext]_serverVars
  PROVE  ContentOfOwnDevices'
<1>1. ASSUME NEW u \in Users, NEW ev \in events'[u]
      PROVE  OwnsDevice(u, ev.device)'
  <2>1. ASSUME NEW c \in Connections, NEW d \in 1 .. MaxDevices, NEW request \in Requests,
               UploadEvents(c, d, request)
        PROVE  OwnsDevice(u, ev.device) /\ ev.device \in Nat
    <3>1. OwnsDevice(conn[c], d) /\ conn[c] \in Users
      BY <2>1, UserOfRequest DEF UploadEvents
    <3>2. ev \in events[u] \/ (u = conn[c] /\ ev \in Accepted(conn[c], d, request))
      BY <2>1, <3>1 DEF UploadEvents, ServerTypeOK
    <3>3. CASE ev \in events[u]
      BY <3>3 DEF ContentOfOwnDevices, ServerTypeOK, Upload
    <3>4. CASE u = conn[c] /\ ev \in Accepted(conn[c], d, request)
      <4>1. ev.device = d
        BY <3>4, AcceptedIsSound
      <4> QED
        BY <3>1, <3>4, <4>1
    <3> QED
      BY <3>2, <3>3, <3>4
  <2>2. CASE UNCHANGED events
    BY <1>1, <2>2, DevicesStay DEF ContentOfOwnDevices, ServerTypeOK, Upload
  <2> QED
    BY <2>1, <2>2, OnlyUploadsWriteLogs, DevicesStay
<1>2. ASSUME NEW u \in Users, NEW b \in blobs'[u]
      PROVE  OwnsDevice(u, b.device)'
  <2>1. ASSUME NEW c \in Connections, NEW d \in 1 .. MaxDevices,
               NEW id \in BlobIds \cup {0}, RegisterBlob(c, d, id)
        PROVE  OwnsDevice(u, b.device) /\ b.device \in Nat
    <3> DEFINE blob == [id |-> IF id = 0 THEN next_blob_id + 1 ELSE id, device |-> d]
    <3>1. OwnsDevice(conn[c], d) /\ conn[c] \in Users
      BY <2>1, UserOfRequest DEF RegisterBlob
    <3>2. blobs' = [blobs EXCEPT ![conn[c]] = {o \in @ : o.id # blob.id} \cup {blob}]
      BY <2>1 DEF RegisterBlob
    <3>3. blob.device = d
      OBVIOUS
    <3>4. b \in blobs[u] \/ (u = conn[c] /\ b = blob)
      <4> HIDE DEF blob
      <4> QED
        BY <1>2, <3>1, <3>2 DEF ServerTypeOK
    <3>5. CASE b \in blobs[u]
      BY <3>5 DEF ContentOfOwnDevices, ServerTypeOK, Blob
    <3>6. CASE u = conn[c] /\ b = blob
      BY <3>1, <3>3, <3>6
    <3> QED
      BY <3>4, <3>5, <3>6
  <2>2. CASE UNCHANGED blobs
    BY <1>2, <2>2, DevicesStay DEF ContentOfOwnDevices, ServerTypeOK, Blob
  <2> QED
    BY <2>1, <2>2, OnlyBlobsAreReplaced, DevicesStay
<1> QED
  BY <1>1, <1>2 DEF ContentOfOwnDevices

(* However requests of several connections interleave between their two    *)
(* lock sections, an email has one account, and what an account holds      *)
(* comes from its own devices (login, authenticate, upload_events,         *)
(* register_blob).                                                         *)
THEOREM AccountsStayApart == ServerSpec => []AccountsAreApart
<1> DEFINE Inv == ServerTypeOK /\ AccountsAreApart
<1>1. ServerInit => Inv
  <2>1. ServerInit => ContentOfOwnDevices
    BY DEF ServerInit, ContentOfOwnDevices
  <2> QED
    BY <2>1, TypeInitial, AccountsInitial DEF AccountsAreApart
<1>2. Inv /\ [ServerNext]_serverVars => Inv'
  BY TypeKept, AccountsKept, ContentKept DEF AccountsAreApart
<1>3. Inv => AccountsAreApart
  OBVIOUS
<1> QED
  BY <1>1, <1>2, <1>3, PTL DEF ServerSpec

-------------------------------------------------------------------------------
(* What an upload makes of the log of its user, and of the other logs.     *)
LEMMA LogsOfUpload ==
  ASSUME ServerTypeOK, NEW c \in Connections, NEW d \in 1 .. MaxDevices,
         NEW request \in Requests, UploadEvents(c, d, request)
  PROVE  /\ conn[c] \in Users
         /\ events'[conn[c]] = events[conn[c]] \cup Accepted(conn[c], d, request)
         /\ \A u \in Users : u # conn[c] => events'[u] = events[u]
<1>1. conn[c] \in Users
  BY UserOfRequest DEF UploadEvents
<1> QED
  BY <1>1 DEF UploadEvents, ServerTypeOK

LEMMA SoundnessKept ==
  ASSUME ServerTypeOK, StoredEventsAreSound, [ServerNext]_serverVars
  PROVE  StoredEventsAreSound'
<1>1. ASSUME NEW c \in Connections, NEW d \in 1 .. MaxDevices, NEW request \in Requests,
             UploadEvents(c, d, request)
      PROVE  StoredEventsAreSound'
  <2> DEFINE New == Accepted(conn[c], d, request)
  <2>1. ASSUME NEW ev \in events[conn[c]] \cup New,
               NEW o \in events[conn[c]] \cup New
        PROVE  ev.supported /\ ev.encrypted /\ (o.id = ev.id => o = ev)
    <3>1. conn[c] \in Users
      BY <1>1, LogsOfUpload
    <3>2. CASE ev \in events[conn[c]] /\ o \in events[conn[c]]
      BY <3>1, <3>2 DEF StoredEventsAreSound
    <3>3. CASE ev \in New /\ o \in New
      BY <3>3, AcceptedIsSound, AcceptedIdsDiffer
    <3>4. CASE ev \in New /\ o \in events[conn[c]]
      <4>1. o.id \in Stored(conn[c])
        BY <3>4 DEF Stored
      <4>2. ev.supported /\ ev.encrypted /\ ev.id \notin Stored(conn[c])
        BY <3>4, AcceptedIsSound
      <4> QED
        BY <4>1, <4>2
    <3>5. CASE ev \in events[conn[c]] /\ o \in New
      <4>1. ev.id \in Stored(conn[c])
        BY <3>5 DEF Stored
      <4>2. o.id \notin Stored(conn[c])
        BY <3>5, AcceptedIsSound
      <4>3. ev.supported /\ ev.encrypted
        BY <3>1, <3>5 DEF StoredEventsAreSound
      <4> QED
        BY <4>1, <4>2, <4>3
    <3> QED
      BY <2>1, <3>2, <3>3, <3>4, <3>5
  <2>2. /\ events'[conn[c]] = events[conn[c]] \cup New
        /\ \A u \in Users : u # conn[c] => events'[u] = events[u]
    BY <1>1, LogsOfUpload
  <2> HIDE DEF New
  <2> QED
    BY <2>1, <2>2 DEF StoredEventsAreSound
<1>2. CASE UNCHANGED events
  BY <1>2 DEF StoredEventsAreSound
<1> QED
  BY <1>1, <1>2, OnlyUploadsWriteLogs

(* A log holds one event of an id, encrypted and of a synchronised type,   *)
(* whatever else the requests hold (upload_events).                        *)
THEOREM LogsAreSound == ServerSpec => []StoredEventsAreSound
<1> DEFINE Inv == ServerTypeOK /\ StoredEventsAreSound
<1>1. ServerInit => Inv
  BY TypeInitial DEF ServerInit, StoredEventsAreSound
<1>2. Inv /\ [ServerNext]_serverVars => Inv'
  BY TypeKept, SoundnessKept
<1>3. Inv => StoredEventsAreSound
  OBVIOUS
<1> QED
  BY <1>1, <1>2, <1>3, PTL DEF ServerSpec

-------------------------------------------------------------------------------
(* After an upload, the log has every id the loop got through.             *)
LEMMA TakenIsStoredAfter ==
  ASSUME ServerTypeOK, NEW c \in Connections, NEW d \in 1 .. MaxDevices,
         NEW request \in Requests, UploadEvents(c, d, request), NEW u \in Users
  PROVE  /\ Stored(u) \subseteq Stored(u)'
         /\ u = conn[c] =>
              /\ Stored(u)' = Stored(u) \cup {ev.id : ev \in Accepted(u, d, request)}
              /\ \A i \in Taken(u, d, request) : request[i].id \in Stored(u)'
<1>1. CASE u # conn[c]
  BY <1>1, LogsOfUpload DEF Stored
<1>2. CASE u = conn[c]
  <2>1. events'[u] = events[u] \cup Accepted(u, d, request)
    BY <1>2, LogsOfUpload
  <2>2. Stored(u)' = Stored(u) \cup {ev.id : ev \in Accepted(u, d, request)}
    BY <2>1 DEF Stored
  <2> QED
    BY <2>2, TakenIsStored
<1> QED
  BY <1>1, <1>2

LEMMA AckedKept ==
  ASSUME ServerTypeOK, AckedIsStored, [ServerNext]_serverVars
  PROVE  AckedIsStored'
<1>1. ASSUME NEW c \in Connections, NEW d \in 1 .. MaxDevices, NEW request \in Requests,
             UploadEvents(c, d, request), NEW u \in Users
      PROVE  acked'[u] \subseteq Stored(u)'
  <2>1. acked[u] \subseteq Stored(u)'
    BY <1>1, TakenIsStoredAfter DEF AckedIsStored
  <2>2. CASE acked'[u] = acked[u]
    BY <2>1, <2>2
  <2>3. CASE acked'[u] # acked[u]
    <3>1. /\ u = conn[c]
          /\ Taken(u, d, request) = DOMAIN request
          /\ acked'[u] = acked[u] \cup {request[i].id : i \in DOMAIN request}
      BY <1>1, <2>3 DEF UploadEvents, ServerTypeOK
    <3>2. {request[i].id : i \in DOMAIN request} \subseteq Stored(u)'
      BY <1>1, <3>1, TakenIsStoredAfter
    <3> QED
      BY <2>1, <3>1, <3>2
  <2> QED
    BY <2>2, <2>3
<1>2. CASE UNCHANGED <<events, acked>>
  BY <1>2 DEF AckedIsStored, Stored
<1> QED
  BY <1>1, <1>2, OnlyUploadsWriteLogs DEF AckedIsStored

(* What a client was told is stored, as new or as a duplicate, is stored:  *)
(* also when the event it duplicates came earlier in the same request      *)
(* (upload_events).                                                        *)
THEOREM AckedStaysStored == ServerSpec => []AckedIsStored
<1> DEFINE Inv == ServerTypeOK /\ AckedIsStored
<1>1. ServerInit => Inv
  BY TypeInitial DEF ServerInit, AckedIsStored
<1>2. Inv /\ [ServerNext]_serverVars => Inv'
  BY TypeKept, AckedKept
<1>3. Inv => AckedIsStored
  OBVIOUS
<1> QED
  BY <1>1, <1>2, <1>3, PTL DEF ServerSpec

-------------------------------------------------------------------------------
(* No request of anybody removes or changes an event of a log, and only    *)
(* one that was authenticated as its user adds to it.                      *)
THEOREM LogsGrow == ServerSpec => LogsOnlyGrow
<1> DEFINE Grow ==
      \A u \in Users :
        /\ events[u] \subseteq events'[u]
        /\ events'[u] # events[u] => \E c \in Connections : conn[c] = u /\ conn'[c] = 0
<1>1. ServerTypeOK /\ [ServerNext]_serverVars => [Grow]_serverVars
  <2> SUFFICES ASSUME ServerTypeOK, [ServerNext]_serverVars
               PROVE  Grow
    OBVIOUS
  <2>1. ASSUME NEW c \in Connections, NEW d \in 1 .. MaxDevices, NEW request \in Requests,
               UploadEvents(c, d, request), NEW u \in Users
        PROVE  /\ events[u] \subseteq events'[u]
               /\ events'[u] # events[u] => conn[c] = u /\ conn'[c] = 0
    <3>1. conn'[c] = 0
      BY <2>1 DEF UploadEvents, Answer, ServerTypeOK
    <3> QED
      BY <2>1, <3>1, LogsOfUpload
  <2>2. CASE UNCHANGED events
    BY <2>2
  <2> QED
    BY <2>1, <2>2, OnlyUploadsWriteLogs
<1> QED
  BY <1>1, ServerIsTyped, PTL DEF ServerSpec, LogsOnlyGrow

(* Once an upload is done, the loop gets through the same events again: a  *)
(* first event that was refused is refused again, for being a duplicate    *)
(* would need an event that was taken before it.                           *)
LEMMA TakenAgain ==
  ASSUME ServerTypeOK, NEW c \in Connections, NEW d \in 1 .. MaxDevices,
         NEW request \in Requests, UploadEvents(c, d, request),
         NEW u \in Users, u = conn[c], NEW k \in Taken(u, d, request)'
  PROVE  k \in Taken(u, d, request)
<1>1. k \in DOMAIN request /\ k \in Nat /\ \A j \in 1 .. k : ~Bad(u, d, request, j)'
  BY EventOfRequest DEF Taken
<1>2. SUFFICES ASSUME NEW j \in 1 .. k, Bad(u, d, request, j)
               PROVE  FALSE
  BY <1>1 DEF Taken
<1>3. request[j].supported /\ request[j].device = d
  BY <1>1 DEF Bad
<1>4. ~Duplicate(u, request, j) /\ ~request[j].encrypted
  BY <1>2, <1>3 DEF Bad
<1>5. Duplicate(u, request, j)'
  BY <1>1, <1>4 DEF Bad
<1>6. request[j].id \in Stored(u)' /\ request[j].id \notin Stored(u)
  BY <1>4, <1>5 DEF Duplicate
<1>7. PICK ev \in Accepted(u, d, request) : ev.id = request[j].id
  BY <1>6, TakenIsStoredAfter
<1>8. PICK i \in Taken(u, d, request) : ev = request[i]
  BY DEF Accepted
<1>9. request \in Seq(Upload) /\ i \in DOMAIN request
  BY TakenIsGood, ServerAssumption
<1>10. i \notin 1 .. j - 1
  BY <1>4, <1>7, <1>8 DEF Duplicate
<1>11. j \in 1 .. i
  BY <1>1, <1>9, <1>10
<1> QED
  BY <1>2, <1>8, <1>11 DEF Taken

(* A client that lost the answer, or got an error after some of its events *)
(* were stored, may repeat the upload: nothing more is stored.             *)
THEOREM RepeatsStoreNothing == ServerSpec => RepeatedUploadStoresNothing
<1> DEFINE Repeat ==
      \A c \in Connections, u \in Users, d \in 1 .. MaxDevices, request \in Requests :
        conn[c] = u /\ UploadEvents(c, d, request) => Accepted(u, d, request)' = {}
<1>1. ServerTypeOK => Repeat
  <2> SUFFICES ASSUME ServerTypeOK, NEW c \in Connections, NEW u \in Users,
                      NEW d \in 1 .. MaxDevices, NEW request \in Requests,
                      conn[c] = u, UploadEvents(c, d, request),
                      NEW ev \in Accepted(u, d, request)'
               PROVE  FALSE
    OBVIOUS
  <2>1. PICK i \in Taken(u, d, request)' : ~Duplicate(u, request, i)'
    BY DEF Accepted
  <2>2. i \in Taken(u, d, request)
    BY <2>1, TakenAgain
  <2>3. request[i].id \in Stored(u)'
    BY <2>2, TakenIsStoredAfter
  <2> QED
    BY <2>1, <2>3 DEF Duplicate
<1>2. ServerTypeOK /\ [ServerNext]_serverVars => [Repeat]_serverVars
  BY <1>1
<1> QED
  BY <1>2, ServerIsTyped, PTL DEF ServerSpec, RepeatedUploadStoresNothing
==============================================================================
