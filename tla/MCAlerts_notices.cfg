SPECIFICATION FairSpec
CONSTANTS
  Reminder = 3
  StateEnter = 2
  Steps <- MCSteps
  ModNames = {"a", "b"}
  Unsafe = "unsafe"
  None = None
  MaxEntries = 2
  MaxReloads = 2
INVARIANTS
  RemindersAreSpaced
  NeverSilentForLong
  CrashReportIsCurrent
PROPERTIES
  NoticesOutliveTheReload
  ToldInTheEnd
