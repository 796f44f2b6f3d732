SPECIFICATION Spec
CONSTANTS
  Messages = {m1}
  Copies = {k1, k2, k3}
  Requests = {r1}
  Kinds = {"ack", "nack", "retry"}
  MaxEpochs = 2
  MaxSubs = 2
  MaxDeliveries = 4
  MaxAcquired = 1
  DeclareMayFail = FALSE
  DelayQueueExists = TRUE
  None = None
SYMMETRY Symmetric
INVARIANTS NoLoss SettledOnce
CHECK_DEADLOCK FALSE
