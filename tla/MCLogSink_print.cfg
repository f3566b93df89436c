SPECIFICATION FairSpec
CONSTANTS
  InputBudget = 4
  LineBudget = 5
  MessageSize = 7
  MaxInput = 6
  WorkerLines <- MCWorkerLines
INVARIANTS
  LinesAreTheText
  LinesFit
  DropsAreMarked
  StreamsAgree
PROPERTIES
  PrintReturns
CHECK_DEADLOCK FALSE
