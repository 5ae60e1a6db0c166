\* Completing a task fails after its pull request was merged.
CONSTANTS
  s1 = s1
  s2 = s2
  t1 = t1
  t2 = t2
SPECIFICATION StrandSpec
INVARIANT NotStranded
CHECK_DEADLOCK FALSE
