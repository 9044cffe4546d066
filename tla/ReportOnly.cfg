\* One kill, one failing step, two doings of the Director; an agent that fails
\* twice in a row is malformed, two waits exhaust the budget.
SPECIFICATION Spec
CONSTANTS
  MaxRetries = 1
  Backoff <- MCBackoff
  Buffer = 1
  MaxWait = 5
  Resets <- MCResets
  MaxRuns = 2
  MaxKills = 1
  MaxFaults = 1
  MaxDirector = 2
INVARIANTS
  AutoMergeVerified
  SuccessIsGuarded
  CallsSound
PROPERTIES
  RunEnds
CHECK_DEADLOCK FALSE
