SPECIFICATION Spec
CONSTANTS
  InputBudget = 4
  LineBudget = 5
  MessageSize = 7
  MaxInput = 6
  WorkerLines <- MCWorkerLines
INVARIANTS
  LongInputIsMarked
CHECK_DEADLOCK FALSE
