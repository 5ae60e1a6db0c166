\* A request each; one entry flipped, edited and stopped; one task; two children.
CONSTANTS
  Blank = Blank
  s1 = s1
  p1 = p1
  t1 = t1
  t2 = t2
  r1 = r1
  r2 = r2
  b1 = b1
  b2 = b2
SPECIFICATION Spec
PROPERTIES DrainsEnd RunsEnd FleetConverges DeliverableIsClosed WorkEnds RunConfigConverges
CHECK_DEADLOCK FALSE
