SPECIFICATION Spec
CONSTANTS
    MaxCode = 4
    LineTerminators = {0}
    WordChars = {2, 3}
    Hyphen = 1
    MaxNesting = 2
    MaxProgram = 12
    Unbounded = Unbounded
    SignedLimit = 4
    NonFinite = NonFinite
    MaxSchemaDepth = 4
    MaxDepth = 2
    BaseSteps = 3
    StepsPerByte = 1
    MaxViolations = 2
    MaxPort = 17
    HttpsPort = 1
    HttpPort = 8
    MaxMessage = 5
    MaxInt = 7
    Refused = Refused
    MaxPeerDepth = 2
    MaxSize = 7
INVARIANTS PatternsMatchTheirLanguage SchemasMeanTheirKeywords  
CHECK_DEADLOCK FALSE
