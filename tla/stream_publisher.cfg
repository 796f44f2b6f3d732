SPECIFICATION FairSpec
CONSTANTS
    Callers = {c1, c2}
    Confirm = TRUE
    Limit = 1
    MaxTries = 2
    MaxMessages = 3
    MaxPublishers = 2
    None = None
INVARIANTS PublisherExclusive OwnConfirmation
PROPERTIES OnePool PublishReturns
CHECK_DEADLOCK FALSE
