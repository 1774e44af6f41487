SPECIFICATION PlannedSpec
CONSTANTS
  Stages = {s1, s2}
  Gates = {g1}
  Cars = {c1}
  Overall = {s1}
  Roles = {"combined"}
  Marshals = {m1, m2}
  MaxCrashes = 0
  Interleaved = TRUE
  s1 = s1
  s2 = s2
  g1 = g1
  g2 = g2
  c1 = c1
  c2 = c2
  m1 = m1
  m2 = m2
INVARIANTS
  RallyGovernsStages
SYMMETRY AnyOne
