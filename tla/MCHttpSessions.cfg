SPECIFICATION MCSpec
CONSTANTS
    Posts <- SentPosts
    Notes <- SentNotes
    Tellings <- SentTellings
    NoPost = NoPost
    MaxDiscovers = 1
    MaxDeletes = 1
    RacingClients = FALSE
    Scenarios = {"distinct", "discover", "watching", "reporting", "levels"}
INVARIANTS NothingCarriesOver NoCallBeforeInitialize OwnAnswer
PROPERTIES  EveryPostAnswered
CHECK_DEADLOCK FALSE
