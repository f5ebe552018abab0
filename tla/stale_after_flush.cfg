SPECIFICATION ComputedSpec
CONSTANTS
  x = x
  y = y
  a = a
  c = c
  d = d
  f = f
  p = p
  q = q
  Stores = {x, y}
  Subscribers <- MCSubscribers
  Home <- MCHome
  Paths = {p, q}
  Wildcard = Wildcard
  Overlaps <- MCOverlaps
  Deferred = {}
  Observed = {}
  ReadSets = {{q}}
  Extensions = {}
  WriteSets = {{p}, {q}}
  Mortal = {}
  NoOne = NoOne
  MaxVersion = 2
  MaxGeneration = 3
  MaxStack = 6
  MaxDepth = 1
  MaxSoon = 0
  Computeds = {c}
  Observers = {o1}
  Gate <- MCGate
  Then <- MCThen
  Else <- MCElse
  Failing = {}
  MaxObserve = 1
  MaxWrites = 2
INVARIANT AnnouncedCatchesUp
