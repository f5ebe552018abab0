SPECIFICATION TimersSpec
CONSTANTS
  Keys = {u1, u2, u3}
  MaxUpdateDepth = 3
  Rethrows = FALSE
  Partitions = {b1, b2}
  Texts = {t1}
  Absent = Absent
  Broken = Broken
  Options <- EveryOption
  MaxVersion = 3
INVARIANTS NothingLeftBehind NothingForgotten
PROPERTIES ImplementsScheduler EventuallyPaid DisposerReconcilesAtOnce EventuallyStored
CHECK_DEADLOCK FALSE
