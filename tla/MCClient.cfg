SPECIFICATION MCSpec
CONSTANTS
    Requests = {initialize, r1}
    Initialize = initialize
    Notes = {initialized}
    Initialized = initialized
    Incoming = {c1}
    Tools = {"t"}
    Listings = {1, 2, 3}
    ToolCalls = {1}
    Schemas <- SomeSchemas
    NoSchema = NoSchema
    UsableTexts = {"in", "out", "other"}
    MaxRoots = 3
INVARIANTS KeptStateAgrees
PROPERTIES AnswerSurvives  EveryRequestReturns
CHECK_DEADLOCK FALSE
