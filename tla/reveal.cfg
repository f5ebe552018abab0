SPECIFICATION ComponentSpec
CONSTANTS
  direct = direct
  queuing = queuing
  directProps = directProps
  queuingProps = queuingProps
  Stores = {direct, queuing}
  Deferred = {queuing}
  Props = {directProps, queuingProps}
  Source <- MCSource
  Uses <- MCUses
  Connection = Connection
  None = None
  MaxPublished = 1
PROPERTY ReplayRestores
CHECK_DEADLOCK FALSE
