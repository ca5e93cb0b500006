SPECIFICATION Spec
CONSTANTS
  MaxJobs = 3
  MaxClients = 2
  OrphanThreshold = 2
INVARIANTS
    HungProbesContained
    PassMeansAnswer
CHECK_DEADLOCK FALSE
