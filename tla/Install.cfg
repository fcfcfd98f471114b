SPECIFICATION Spec
CONSTANTS
  skill = skill support = support hooks = hooks policy = policy
  Absent = Absent Partial = Partial
  Order <- MCOrder
  Kind <- MCKind
  Bundles = {1, 2}
  Ships <- MCShips
  Options <- Several
  MaxTx = 2
  MaxEdits = 1
  Nested = TRUE
  InitialLive <- NewOrLegacy
  LegacySkills = {skill}
INVARIANTS OneTransaction RuntimeRecorded
PROPERTIES RollbackExact AtomicSpec
CHECK_DEADLOCK FALSE
