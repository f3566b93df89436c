SPECIFICATION Spec
CONSTANTS
  first = first
  second = second
  Launches <- MCOne
  CounterModulus = 3
INVARIANTS
  NeverManagerless
CHECK_DEADLOCK FALSE
