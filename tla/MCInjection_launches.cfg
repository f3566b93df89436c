SPECIFICATION FairSpec
CONSTANTS
  first = first
  second = second
  Launches <- MCTwo
  CounterModulus = 3
INVARIANTS
  UnreadyOnlyIfPreempted
  LoaderFirstAndOnce
  OutcomeIsTrue
  PathOutlivesLoad
PROPERTIES
  FailedShellEndsGame
  LauncherReturns
CHECK_DEADLOCK FALSE
