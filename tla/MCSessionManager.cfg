SPECIFICATION MCSpec
CONSTANTS
    Sessions = {s1}
    Posts <- AllPosts
    NoPost = none
    NoSession = nosession
    Capacity = 2
    MaxNotes = 1
    MaxFlips = 1
INVARIANTS  NoSessionSurvivesClose RepliesOwned
PROPERTIES EndReleasesWaiter
CHECK_DEADLOCK FALSE
