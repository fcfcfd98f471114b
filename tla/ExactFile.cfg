SPECIFICATION DriverFairSpec
CONSTANTS
  first = first second = second a = a b = b c = c d = d
  None = None Torn = Torn
  Bytes = {a, b, c, d}
  Initial = a
  Requests <- Reused
  MaxWrites = 3
  MaxCrashes = 3
INVARIANT Undoable
PROPERTIES OnlyApproved Finishes
