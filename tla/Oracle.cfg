SPECIFICATION Spec
CONSTANTS
  Workers = {v1}
  Directors = {d1, d2}
  Task = Task
  Other = Other
  WorkerJobs = 1
  DirectorJobs = 2
  TaskBuckets = {"L1"}
  OtherBuckets = {"L3", "none"}
  MaxKills = 1
  MaxResets = 1
  MaxPlants = 1
  MaxMerges = 2
  MaxRuns = 2
  L1_SAMPLE_EVERY = 2
  TRIGGER_TASK_COUNT = 2
CONSTRAINT MCPlantsOrRuns
SYMMETRY MCSymmetry
INVARIANTS
  FlagLogSound
  LedgerCountsFindings
  WatermarkCovers
  FindingsOnce
  BlindSpotIsDue
CHECK_DEADLOCK FALSE
