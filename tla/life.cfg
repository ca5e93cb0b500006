SPECIFICATION FairSpec
CONSTANTS
  Configs <- MCConfigs
  MaxConnects = 2
  MaxSyncs = 2
INVARIANTS ReadyMeansReady EndIsClean ZeroMeansAsked
PROPERTIES StopEnds BecomesReady
CHECK_DEADLOCK FALSE
