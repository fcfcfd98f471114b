SPECIFICATION Spec
CONSTANTS
  p = p
  q = q
  Runners = {p, q}
  Setups <- Safety
INVARIANTS OneTurn AttestedProgress CorrectionAffordable
SYMMETRY Symmetric
CHECK_DEADLOCK FALSE
