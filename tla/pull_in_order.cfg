SPECIFICATION PullSpec
CONSTANTS
  Entities <- MCEntities
  UserStates <- MCUserStates
  Relations <- MCRelations
  EarlyFields <- MCEarly
  LateFields <- MCLate
  Progress = progress
  Absent = absent
  Invalid = invalid
  Batches <- NoBatches
  PageSizes <- MCPageSizes
  art = art
  tag = tag
  early = early
  late = late
  progress = progress
  absent = absent
  invalid = invalid
  Log <- MCLog
  UploadsInOrder = TRUE
  Replicas = {r1}
  Replayers = {x1}
INVARIANTS
  PullTypeOK
  ReplayIsHistory
  MergeIsHistory
  NothingSkipped
PROPERTIES
  EventuallyFolded
