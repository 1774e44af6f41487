SPECIFICATION Spec
CONSTANTS
  Cars = {c1, c2}
  Window = 2
  ReadLag = 2
  AcceptedLag = 10
  Lockout = 2
  Lag = 1
  MaxEdges = 3
  MaxTime = 13
  c1 = c1
  c2 = c2
  c3 = c3
INVARIANTS
  SettledVerdictsStand
  EveryItemGoesOutOnce
SYMMETRY AnyCar
CHECK_DEADLOCK FALSE
