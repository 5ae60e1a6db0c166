\* A target whose phases die beside an idle one: the per-task bound, the fleet and the startup
\* pause, the ladders, every fault, a ceiling of drains. No temporal property: tasks are symmetric.
CONSTANTS
  NumTargets = 2
  Tasks = {t1, t2}
  Wired = TRUE
  MaxIterations = 3
  StartupFailBound = 2
  FleetDeadBound = 3
  PerTaskDeadBound = 2
  QuietTokens = 2
  Spends <- ZeroTwo
  DrainEnds <- AllEnds
  PollFaults <- AllFaults
  Moves <- AllMoves
  Dormant = {1}
  BackoffCap = 4
  FailTop = 3
  MaxSettled = 1
  MaxAsked = 1
  MaxFiled = 1
SPECIFICATION Spec
SYMMETRY TaskSymmetry
INVARIANTS HeldBackIsEarned CountsHold
PROPERTIES BooksAreHonest
CHECK_DEADLOCK FALSE
