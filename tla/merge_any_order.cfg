SPECIFICATION Spec
CONSTANTS
  Entities <- MCEntities
  UserStates <- MCUserStates
  Relations <- MCRelations
  EarlyFields <- MCEarly
  LateFields <- MCLate
  Progress = progress
  Absent = absent
  Invalid = invalid
  art = art
  feed = feed
  tag = tag
  early = early
  late = late
  progress = progress
  absent = absent
  invalid = invalid
  Log <- EntityLog
  Batches <- PairsAndAll
  Replicas = {r1}
INVARIANTS
  TypeOK
  CursorIsNewestApplied
  UndeletedFieldsConverge
  ValueMatchesVersion
  TombstoneExcludesEntity
  PresenceIsLastWriter
  RelationsAreLastWriter
PROPERTIES
  ImplementsLastWriterSet
