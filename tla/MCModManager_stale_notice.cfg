SPECIFICATION Spec
CONSTANTS
  Names <- MCNames
  Framework = "dmf"
  Orders <- PairOrders
  DirectField = TRUE
  MaxRequests = 1
INVARIANTS
  CompletedReloadClearsFailures
