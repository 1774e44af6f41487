SPECIFICATION Spec
CONSTANTS
  Entries = {a, b, c}
  NumStages = 3
  Scoring <- QualifyingFirst
  Times = {1, 4}
  NotionalPenalty = 1
  StartNumber <- Numbers
  ClassesOf <- Classes
  NumClasses = 2
  Catalogue <- Jump
  Repriced <- PerStage
  PenaltiesGiven <- Jury
  MaxPenalties = 2
  MaxRecords = 3
  a = a
  b = b
  c = c
PROPERTIES
  ClosedRallyKeepsTotals
