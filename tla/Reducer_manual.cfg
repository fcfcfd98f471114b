SPECIFICATION Spec
CONSTANTS
  n1 = n1 n2 = n2 n3 = n3 a1 = a1 a2 = a2 h1 = h1 h2 = h2 f1 = f1 f2 = f2 o1 = o1 o2 = o2
  None = None
  Nodes <- ThreeNodes
  Dependencies <- Join
  Actors = {a1}
  Heads = {h1}
  FindingIds = {f1}
  Ops = {o1}
  Mode = "MANUAL"
  Rank = 0
  BudgetLimit <- NoBudget
  AllowedEffects <- PushOnly
  DeclaredEffects <- Omitted
  AutomatedPublication = FALSE
  HostedChecks = FALSE
  CohortSize = 1
  CommandCount = 1
  MaxFence = 1
  MaxAuthority = 1
SYMMETRY SwapNodes
INVARIANTS OneActiveNode DependencyOrder
CHECK_DEADLOCK FALSE
