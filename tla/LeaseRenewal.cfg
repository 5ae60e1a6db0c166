\* Changes of the claim, beats that fail for a while or for good, handbacks, failed writes and deaths.
SPECIFICATION TickSpec
CONSTANTS
  t1 = t1
  t2 = t2
  Tasks = {t1, t2}
  NoTask = none
  QueueCap = 2
  GiveUp = 2
  WireCap = 2
  Configs <- RenewalConfigs
INVARIANT RecordKeepsTheWork
PROPERTIES RenewerIsCurrent RenewalGoesOn
CHECK_DEADLOCK FALSE
