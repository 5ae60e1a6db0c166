\* Every component around the sessions, each on instances of its own.
CONSTANTS
  Blank = Blank
  t1 = t1
  t2 = t2
  r1 = r1
  r2 = r2
  b1 = b1
  b2 = b2
SPECIFICATION Spec
PROPERTIES PanelKeepsTheRound DigestsAreCurrent DeliveriesAreTrue SalvageKeepsTheWork ReportsAreTrue LogIsKept
CHECK_DEADLOCK FALSE
