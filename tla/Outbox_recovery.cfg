SPECIFICATION FairSpec
CONSTANTS
  r1 = r1 r2 = r2
  None = None
  Runners = {r1, r2}
  EffectCount = 1
  ReconcileBudget = 1
  MaxAuthority = 1
  OutsideWrites = FALSE
PROPERTY InterruptedSettles
CHECK_DEADLOCK FALSE
