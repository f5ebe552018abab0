SPECIFICATION ResourcesSpec
CONSTANTS
  Keys = {k1, k2}
  NoKey = NoKey
  TTL = 1
  MaxEntries = 1
  MayThrow = TRUE
  MayLock = TRUE
  MaxOps = 3
  MaxRoot = 2
  MaxStack = 3
  MaxTime = 2
  MaxRequests = 2
  MaxRoots = 2
  MaxNesting = 1
  MaxEffort = 3
SYMMETRY Interchangeable
INVARIANTS ResourcesTypeOK ServedUnderItsKey PendingIsRequested EveryPromiseEnds InvalidatedStaysStale LedgerExact FreedIsReported
PROPERTIES LateAnswerIsIgnored NewestAnswerWins
CHECK_DEADLOCK FALSE
