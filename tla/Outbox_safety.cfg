SPECIFICATION Spec
CONSTANTS
  r1 = r1 r2 = r2
  None = None
  Runners = {r1, r2}
  EffectCount = 2
  ReconcileBudget = 1
  MaxAuthority = 1
  OutsideWrites = TRUE
SYMMETRY Symmetry
INVARIANTS AtMostOneMutation CleanMeansUnsent DeliveredInOrder
PROPERTY AmbiguousOnlyConfirms
CHECK_DEADLOCK FALSE
