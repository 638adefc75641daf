SPECIFICATION DeviceSpec
CONSTANTS
  Entities <- MCEntities
  UserStates <- MCUserStates
  Annotations <- MCAnnotations
  Relations <- MCRelations
  EarlyFields <- MCEarly
  LateFields <- MCLate
  Progress = progress
  Absent = absent
  Invalid = invalid
  None = none
  art = art
  feed = feed
  lost = lost
  note = note
  tag = tag
  early = early
  late = late
  progress = progress
  absent = absent
  invalid = invalid
  key = key
  MasterKey = key
  NoKeyYet = no_key
  NoObject = no_object
  Log <- MCLog
  Plan <- MCPlan
  Plans <- MCPlans
  Secrets <- MCSecrets
  KitSecret = "right"
  Strangers <- MCStrangers
  MaxAttempts = 2
  Replayers <- MCReplayers
  Reader = "reader"
  PageSize = 1
  MaxChanges = 4
  FirstRows <- MCFirst
INVARIANTS
  DeviceTypeOK
  OutboxTellsOfTables
  PublishedIsPrefix
  ConfirmedIsPublished
  ReaderShowsPast
PROPERTIES
  ReaderCatchesUp
