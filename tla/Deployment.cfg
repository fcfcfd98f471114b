SPECIFICATION Spec
CONSTANTS
  p1 = p1 p2 = p2 NoProc = NoProc
  Procs = {p1, p2}
  Transactions = {1, 2}
  Settings <- MCSettings
  Foreign = 9
  Reviewed <- MCReviewed
  Rebased <- MCRebased
  Overlay <- MCOverlay
SYMMETRY Perms
INVARIANT RollbackExact
PROPERTY DeployedWhole
