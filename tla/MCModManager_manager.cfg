SPECIFICATION FairSpec
CONSTANTS
  Names <- MCNames
  Framework = "dmf"
  Orders <- PairOrders
  DirectField = TRUE
  MaxRequests = 2
INVARIANTS
  NoCallAfterUnload
  NothingOwedAtRest
  OldGenerationUnloaded
  PassBracket
  OnlyAnErrorKeepsGlobals
  StoppedGenerationIsSilent
  ReverseOrder
  DataFromLastTeardown
  FinishedGenerationsForgotten
PROPERTIES
  DonePublication
  CleanReportIsHonest
  StepsImplementContract
  PassesSettle
  ImplementsContract
