SPECIFICATION FairSpec
CONSTANTS
  c1 = c1 c2 = c2 n1 = n1 n2 = n2 w1 = w1
  a1 = a1 a2 = a2 a3 = a3
  None = None
  Campaigns = {c1, c2}
  Nodes = {n1, n2}
  Worktrees = {w1}
  CampaignOf <- MCCampaignOf
  WorktreeOf <- MCWorktreeOf
  Actors = {a1, a2}
  Mode = "AUTOMATED"
  MaxAuthority = 1
INVARIANTS OneWriter FenceOrder NodeExclusive LockMatchesLease StopRevokes
PROPERTY UnrecognisedEnds
CHECK_DEADLOCK FALSE
