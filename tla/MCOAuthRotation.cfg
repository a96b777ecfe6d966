CONSTANTS
  Calls = {1, 2, 3, 4}
  Earlier = {1}
  Issuers = {as1}
  MaxCancels = 1
  NoCall = 0
  NoIssuer = NoIssuer
  Writers = {1}
  Reader = 0
  Sizes = {1}
  MaxRequests = 1
  MaxBytes = 1
  NoKey = NoKey
  Exchanges = {1}
  Authenticators = {1}
  MaxRedirects = 0
  MaxSwaps = 0
  None = 0
  Ours = Ours
  Other = Other
  Nobody = Nobody
  AuthServers = {Ours, Other}
  ScopeNames = {"read"}
  ResourceDocuments <- SomeResourceDocuments
  AuthDocuments <- SomeAuthDocuments
  Setups <- SomeSetups
SPECIFICATION MCSpec
INVARIANTS NoReplacedTokenSent
CHECK_DEADLOCK FALSE
