SPECIFICATION MCSafety
CONSTANTS
    Posts <- SentPosts
    Notes <- SentNotes
    Tellings <- SentTellings
    NoPost = NoPost
    MaxDiscovers = 1
    MaxDeletes = 1
    RacingClients = FALSE
    Scenarios = {"shared"}
INVARIANTS CancelFindsHandler
CHECK_DEADLOCK FALSE
