SPECIFICATION ReadersSpec
CONSTANTS
  doc = doc
  docA = docA
  docB = docB
  docAX = docAX
  Paths = {doc, docA, docB, docAX}
  Above <- MCAbove
  Wildcard = Wildcard
  Ids = {i1, i2, i3}
  Capacity = 3
  MaxWrites = 3
  direct = direct
  queuing = queuing
  directProps = directProps
  queuingProps = queuingProps
  Stores = {direct, queuing}
  Deferred = {queuing}
  Props = {directProps, queuingProps}
  Source <- MCSource
  Uses <- MCUses
  Connection = Connection
  None = None
  MaxPublished = 2
  root = root
  child = child
  formToken = formToken
  userToken = userToken
  Scopes = {root, child}
  Tokens = {formToken, userToken}
  Parent <- MCParent
  Local <- MCLocal
  NoScope = NoScope
  MaxInstances = 2
  MaxKept = 1
  MaxNesting = 2
SYMMETRY Interchangeable
INVARIANTS IndexTypeOK LookupsAreExact NeverDenies PathsSinceIsExact
INVARIANTS ScreenIsCurrent HeldForTheScreen OwnedDieOnce UsersGoFirst
CHECK_DEADLOCK FALSE
