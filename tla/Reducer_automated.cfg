SPECIFICATION Spec
CONSTANTS
  n1 = n1 n2 = n2 n3 = n3 a1 = a1 a2 = a2 h1 = h1 h2 = h2 f1 = f1 f2 = f2 o1 = o1 o2 = o2
  None = None
  Nodes <- OneNode
  Dependencies <- NoDependencies
  Actors = {a1}
  Heads = {h1, h2}
  FindingIds = {f1}
  Ops = {o1, o2}
  Mode = "AUTOMATED"
  Rank = 12
  BudgetLimit <- CorrectionBudget
  AllowedEffects <- PushMerge
  DeclaredEffects <- PushMerge
  AutomatedPublication = TRUE
  HostedChecks = TRUE
  CohortSize = 1
  CommandCount = 1
  MaxFence = 2
  MaxAuthority = 0
SYMMETRY Symmetry
INVARIANTS PublicationCleared EffectOnce PublicationSequence BudgetConservation
PROPERTY CorrectionReservesDelivery
CHECK_DEADLOCK FALSE
