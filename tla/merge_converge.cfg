SPECIFICATION Spec
CONSTANTS
  Entities <- MCEntities
  UserStates <- MCUserStates
  Relations <- MCRelations
  EarlyFields <- MCEarly
  LateFields <- MCLate
  Progress = progress
  Absent = absent
  Invalid = invalid
  art = art
  feed = feed
  tag = tag
  early = early
  late = late
  progress = progress
  absent = absent
  invalid = invalid
  Log <- TwoReplicaLog
  Batches <- SinglesAndAll
  Replicas = {r1, r2}
INVARIANTS
  Converged
