SPECIFICATION FairClientSpec
CONSTANTS
  Op = {o1, o2}
  Caller = {k1, k2}
  None = None
  MaxQueue = 1
  QueueEnabled = TRUE
  MaxOutages = 2
  MaxForced = 1
PROPERTIES
  KeepsOutboxPromise
  CallsReturn
  QueueDrains
  ReconnectsAfterOutages
CHECK_DEADLOCK FALSE
