\* Diffs of up to two kinds of files, two alterations after the decision.
SPECIFICATION Spec
CONSTANTS
  Policies <- MCPolicies
  Declared = {"low", "medium", "junk"}
  Diffs <- MCDiffs
  MaxTampers = 2
INVARIANTS
  StopsHold
  SensitiveIsConfirmed
  ReportsCarryNoCode
CHECK_DEADLOCK FALSE
