SPECIFICATION FairSpec
CONSTANTS
  Callers = {c1}
  Streams = {s1}
  Sessions = {b1}
  MaxRetries = 2
  WithCleaner = TRUE
  WithTrim = TRUE
  Cleaner = Cleaner
  None = None
PROPERTIES Recovers StaleEntryTrimmed CleanerKeepsRunning
CHECK_DEADLOCK FALSE
