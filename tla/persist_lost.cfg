SPECIFICATION PersistSpec
CONSTANTS
  Partitions = {b1, b2}
  Texts = {t1}
  Absent = Absent
  Broken = Broken
  Options <- Held
  MaxVersion = 3
PROPERTY DisposerReconciles
CHECK_DEADLOCK FALSE
