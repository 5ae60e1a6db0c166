\* Review rounds, every route out of a phase, deaths, handoffs under a ceiling, unpushed branches,
\* claims the driver did not see.
SPECIFICATION Spec
CONSTANTS
  Configs <- MCConfigs
  t1 = t1
  t2 = t2
  NoTask = none
  DrainNum = 1
  MaxRetries = 1
  HandoffChainCap = 1
  PerTaskDeadBound = 4
  FleetDeadBound = 5
  ReviewRoundCap = 3
  UnclassifiedBound = 1
  ZeroSpendBound = 2
INVARIANTS LeasesAreSettled RoundsConverge RespawnsAreBounded
PROPERTY AdvancesAreEarned
