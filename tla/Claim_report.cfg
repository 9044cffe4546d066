\* A failing step in the tail of a malformed investigation, and a second run.
SPECIFICATION Spec
CONSTANTS
  MaxRetries = 1
  Backoff <- MCBackoff
  Buffer = 1
  MaxWait = 3
  Resets <- MCResets
  MaxRuns = 2
  MaxKills = 0
  MaxFaults = 1
  MaxDirector = 0
INVARIANT EmptyNeverAutoMerged
CHECK_DEADLOCK FALSE
