SPECIFICATION Spec
CONSTANTS
  p1 = p1
  p2 = p2
  backend = backend
  frontend = frontend
  s0 = s0
  s1 = s1
  s2 = s2
  r1 = r1
  r2 = r2
  r3 = r3
  Runs = {r1, r2, r3}
  Projects = {p1, p2}
  Roles = {backend, frontend}
  Allowed <- MCAllowed
  Shas = {s1, s2}
  Stale = s0
  MaxDecisions = 1
SYMMETRY MCSymmetry
INVARIANTS
  SupersededByWider
  SupersedingEnds
PROPERTIES
  LeavesOneRequest
CHECK_DEADLOCK FALSE
