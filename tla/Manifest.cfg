SPECIFICATION Spec
CONSTANTS
  Procs = {p, q}
  OpTx = {t}
  AutoTx = {x, y}
  Authorizations = {a, b}
  Disks <- MCDisks
  Settings <- MCSettings
  MaxBuilds = 2
  None = None
SYMMETRY Symmetric
INVARIANTS GenerationChain TerminalTruth AnswerIsReviewed ServedUnchanged
PROPERTY NoWidening
CHECK_DEADLOCK FALSE
