SPECIFICATION RunningSpec
CONSTANTS
  Entries = {e1}
  Shakedown = FALSE
  StartMode = "GATE"
  Combined = FALSE
  SplitGates = {}
  Posted <- NoList
  StartNumber <- Numbers
  Countdown = 1
  Gap = 1
  Interval = 1
  Before = 1
  After = 1
  MinDuration = 1
  FirstStart = 1
  MaxTime = 4
  MaxAttempts = 2
  Passings <- OneRun
  Workers = {w1, w2}
  Marshals = {}
  MaxFailures = 1
  GateRestarts = FALSE
  DeskFails = FALSE
  Interleaved = TRUE
  e1 = e1
  e2 = e2
  g1 = g1
  w1 = w1
  w2 = w2
  m1 = m1
  m2 = m2
INVARIANTS
  NoFinishMissed
SYMMETRY AnyWorker
CHECK_DEADLOCK FALSE
