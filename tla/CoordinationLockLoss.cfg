SPECIFICATION Spec
CONSTANTS
  Tasks = {t1}
  Workers = {w1}
  Slots = {s1, s2}
  Sweeper = Sweeper
  Concurrency = 2
  MaxCopies = 3
  MaxCrashes = 0
  MaxErrors = 0
  Decisions = {}
  SlowRuns = FALSE
  LocksVanish = TRUE
  NoOne = NoOne
  Ghost = Ghost
  NoMsg = NoMsg
SYMMETRY Symmetry
INVARIANTS
  OneExecution
