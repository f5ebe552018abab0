SPECIFICATION ComputedSpec
CONSTANTS
  x = x
  y = y
  a = a
  c = c
  d = d
  f = f
  p = p
  q = q
  Stores = {x}
  Subscribers <- MCSubscribers
  Home <- MCHome
  Paths = {p, q}
  Wildcard = Wildcard
  Overlaps <- MCOverlaps
  Deferred = {}
  Observed = {}
  ReadSets = {}
  Extensions = {}
  WriteSets = {{p}, {q}}
  Mortal = {}
  NoOne = NoOne
  MaxVersion = 2
  MaxGeneration = 4
  MaxStack = 9
  MaxDepth = 1
  MaxSoon = 0
  Computeds = {c}
  Observers = {o1, o2}
  Gate <- MCGate
  Then <- MCThen
  Else <- MCElse
  Failing = {c}
  MaxObserve = 3
  MaxWrites = 4
INVARIANT AnnouncedCatchesUp
