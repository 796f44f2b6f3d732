SPECIFICATION FairSpec
CONSTANTS
  MaxMessages = 4
  MaxRounds = 2
  Confirms <- FirstConfirms
  BadAddress <- LastIsBad
  MayBreak = TRUE
  MayClose = TRUE
INVARIANT SuccessMeansPublished
PROPERTIES ImplementsLog EveryMessageAnswered StreamEnds
CHECK_DEADLOCK FALSE
