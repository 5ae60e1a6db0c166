\* Rolls of two children while others restart them, one entry under edits, flips and deaths,
\* two under a stop of the fleet and a replacement.
CONSTANTS
  None = None
  Names <- MCNames
  Configs <- RollConfigs
SPECIFICATION FleetSpec
PROPERTIES RollIsCareful StartsAreSound StopsAreSound
CHECK_DEADLOCK FALSE
