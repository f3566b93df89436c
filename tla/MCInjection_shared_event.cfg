SPECIFICATION Spec
CONSTANTS
  first = first
  second = second
  Launches <- MCTwo
  CounterModulus = 3
INVARIANTS
  ResumedOnlyWhenReady
CHECK_DEADLOCK FALSE
