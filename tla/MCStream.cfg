SPECIFICATION Spec
CONSTANTS
  MaxBytes = 4
  MaxLines = 5
  Streams <- MCStreams
  None = None
INVARIANTS
  CountedAsReceived
  BilledIsDelivered
PROPERTY ConnectionIsClosed
CHECK_DEADLOCK FALSE
