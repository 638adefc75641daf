SPECIFICATION PullSpec
CONSTANTS
  Entities <- MCEntities
  UserStates <- MCUserStates
  Relations <- MCRelations
  EarlyFields <- MCEarly
  LateFields <- MCLate
  Progress = progress
  Absent = absent
  Invalid = invalid
  Batches <- NoBatches
  PageSizes <- MCPageSizes
  art = art
  tag = tag
  early = early
  late = late
  progress = progress
  absent = absent
  invalid = invalid
  Log <- ValidLog
  UploadsInOrder = FALSE
  Replicas = {r1, r2}
  Replayers = {}
INVARIANTS
  CaughtUpDevicesAgree
