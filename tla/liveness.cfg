SPECIFICATION FairSpec
CONSTANTS
  x = x
  y = y
  a = a
  b = b
  p = p
  q = q
  Stores = {x}
  Subscribers = {a}
  Home <- MCHome
  Paths = {p, q}
  Wildcard = Wildcard
  Overlaps <- MCOverlaps
  Deferred = {x}
  Observed = {x}
  ReadSets = {{p}}
  Extensions = {q}
  WriteSets = {{}, {q}}
  Mortal = {x}
  NoOne = NoOne
  MaxVersion = 2
  MaxGeneration = 2
  MaxStack = 5
  MaxDepth = 1
  MaxSoon = 1
PROPERTIES EventuallyCalled SoonIsPublished
