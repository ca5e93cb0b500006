SPECIFICATION Spec
CONSTANTS
  MaxJobs = 3
  MaxAttempts = 2
  MaxCalls = 1
  MaxDrops = 1
  TimeoutThreshold = 2
  OrphanThreshold = 2
  Retries <- MCRetries
  RetryLimit = 0
  MaxTimeouts = 1
  Libraries <- MCLibraries
  Errors = {"error"}
INVARIANTS NoStrayLink TeardownsCounted SlotIsWatched
CHECK_DEADLOCK FALSE
