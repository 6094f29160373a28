SPECIFICATION Spec
CONSTANTS
  Tasks = {t1}
  Workers = {w1, w2}
  Slots = {s1}
  Sweeper = Sweeper
  Concurrency = 1
  MaxCopies = 2
  MaxCrashes = 1
  MaxErrors = 0
  Decisions = {}
  SlowRuns = FALSE
  LocksVanish = FALSE
  NoOne = NoOne
  Ghost = Ghost
  NoMsg = NoMsg
PROPERTIES
  TasksStart
