SPECIFICATION MCSafety
CONSTANTS
    Posts <- SentPosts
    Notes <- SentNotes
    Tellings <- SentTellings
    NoPost = NoPost
    MaxDiscovers = 1
    MaxDeletes = 1
    RacingClients = TRUE
    Scenarios = {"racing"}
INVARIANTS NextClientCanInitialize
CHECK_DEADLOCK FALSE
