\* Two targets, one of which may always be failing: the other is driven, and
\* so is the failing one when its sit-outs elapse.
CONSTANTS
  NumTargets = 2
  Tasks = {}
  Wired = TRUE
  MaxIterations = 0
  StartupFailBound = 2
  FleetDeadBound = 1
  PerTaskDeadBound = 2
  QuietTokens = 1
  Spends <- Zero
  DrainEnds <- NoStops
  PollFaults <- NoFaults
  Moves <- QueueOnly
  Dormant = {}
  BackoffCap = 1
  FailTop = 1
  MaxSettled = 0
  MaxAsked = 0
  MaxFiled = 1
SPECIFICATION FairSpec
PROPERTY ProjectsAreServed
CHECK_DEADLOCK FALSE
