SPECIFICATION Spec
CONSTANTS
  Histories = {h1, h2}
  Places = {x, y}
  Values = {0, 1}
  Policies <- EveryPolicy
  Initial <- Zero
  Roots <- Ones
  Unseen = {y}
  MayRefuse = TRUE
  Limit = 2
  MaxEffort = 5
INVARIANTS NothingEscapes FactsAreExact
PROPERTIES IsTimeline ReplaysAreReversible
SYMMETRY Interchangeable
