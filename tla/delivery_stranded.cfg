SPECIFICATION Spec
CONSTANTS
  Messages = {m1}
  Copies = {k1, k2}
  Requests = {r1, r2}
  Kinds = {"retry"}
  MaxEpochs = 2
  MaxSubs = 2
  MaxDeliveries = 2
  MaxAcquired = 1
  DeclareMayFail = TRUE
  DelayQueueExists = FALSE
  None = None
SYMMETRY Symmetric
INVARIANTS NotStranded
CHECK_DEADLOCK FALSE
