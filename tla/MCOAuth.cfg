CONSTANTS
  Calls = {1, 2, 3, 4}
  Earlier = {1}
  Issuers = {as1}
  MaxCancels = 1
  NoCall = 0
  NoIssuer = NoIssuer
  Writers = {1, 2, 3}
  Reader = 0
  Sizes = {1, 2}
  MaxRequests = 2
  MaxBytes = 3
  NoKey = NoKey
  Exchanges = {1, 2}
  Authenticators = {1, 2}
  MaxRedirects = 1
  MaxSwaps = 1
  None = 0
  Ours = Ours
  Other = Other
  Nobody = Nobody
  AuthServers = {Ours, Other}
  ScopeNames = {"read"}
  ResourceDocuments <- SomeResourceDocuments
  AuthDocuments <- SomeAuthDocuments
  Setups <- SomeSetups
SPECIFICATION MCSpec
INVARIANTS
  OneFlight
  NoReplacedTokenUncancelled
  ReportsItsFlight
  TransportInBounds
  
  
  ActsOnTheAccepted
PROPERTIES
  FailureKeepsOthers
  
CHECK_DEADLOCK FALSE
