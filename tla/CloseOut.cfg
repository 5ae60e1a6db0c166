\* One supervisor, two, or two tasks, against authors, agents, failures and crashes.
CONSTANTS
  s1 = s1
  s2 = s2
  t1 = t1
  t2 = t2
SPECIFICATION Spec
PROPERTIES MergesAreJudged NothingIsStranded SessionsAreBounded
CHECK_DEADLOCK FALSE
