SPECIFICATION Spec
CONSTANTS
  Callers = {c1}
  Streams = {s1}
  Sessions = {b1, b2}
  MaxRetries = 1
  WithCleaner = TRUE
  WithTrim = FALSE
  Cleaner = Cleaner
  None = None
SYMMETRY Symmetric
INVARIANTS OneConnection LossNoticed NotHandedOut 
CHECK_DEADLOCK FALSE
