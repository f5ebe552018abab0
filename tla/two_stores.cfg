SPECIFICATION BatchSpec
CONSTANTS
  x = x
  y = y
  a = a
  b = b
  p = p
  q = q
  Stores = {x, y}
  Subscribers = {a, b}
  Home <- MCHome
  Paths = {p, q}
  Wildcard = Wildcard
  Overlaps <- MCOverlaps
  Deferred = {y}
  Observed = {}
  ReadSets = {{p}}
  Extensions = {}
  WriteSets = {{q}}
  Mortal = {y}
  NoOne = NoOne
  MaxVersion = 2
  MaxGeneration = 2
  MaxStack = 5
  MaxDepth = 1
  MaxSoon = 0
  Publishers = {x, y}
  Listeners = {l1, l2}
  MaxEmitted = 3
  MaxOpen = 2
  MaxAnnounced = 2
  MaxCalls = 8
INVARIANTS NoLostUpdate DriftIsSoundOnceMatched QuiescentBatch NoEventIsForgotten
PROPERTIES CallsOnlyTheLiving EventsFollowTheirStates
