\* Two tasks of two versions, an advisory or dry or --local run, one kill, one
\* tampering with the hub's main.
SPECIFICATION MergeSpec
CONSTANTS
  taskA = taskA
  taskB = taskB
  Own = Own
  None = None
  Task <- MCTask
  MaxTip = 2
  Refused <- MCRefused
  Flagged <- MCFlagged
  Conflict <- MCConflict
  BlastOf <- MCBlastOf
  Stopped <- MCStopped
  Red <- MCRed
  Infra <- MCInfra
  Forged <- MCForged
  ArtifactOnly <- MCArtifactOnly
  Textual <- MCTextual
  Fixes <- MCFixes
  Versions <- MCVersions
  MaxMain = 2
  MaxTodo = 2
  MaxCrashes = 1
  MaxTampers = 1
INVARIANTS
  MainTrusted
  NothingHalfMerged
PROPERTIES
  KeepsPromise
  TripHolds
CHECK_DEADLOCK FALSE
