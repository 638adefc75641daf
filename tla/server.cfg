SPECIFICATION ServerSpec
CONSTANTS
  Entities = {}
  UserStates = {}
  Relations = {}
  EarlyFields = {}
  LateFields = {}
  Progress = progress
  Absent = absent
  Invalid = invalid
  Log = {}
  Emails = {m1}
  NoEmail = none
  Connections = {c1, c2}
  Requests <- MCRequests
  MaxUsers = 2
  MaxTokens = 2
  MaxDevices = 2
  BlobIds = {1}
  MaxBlobs = 1
INVARIANTS
  ServerTypeOK
  AccountsAreApart
  StoredEventsAreSound
  AckedIsStored
PROPERTIES
  LogsOnlyGrow
  RepeatedUploadStoresNothing
