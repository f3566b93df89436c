SPECIFICATION Spec
CHECK_DEADLOCK FALSE
CONSTANTS
  Launches <- MCLaunches
  SelfPaths <- MCSelfPaths
  PathSize = 6
  LevelSize = 5
  ShellLevelSize = 4
  ShellLogSize = 4
  EscapeSize = 12
  ChunkSize = 40
  TemplateSize = 10
  LineSize = 24
INVARIANTS
  EmptyManagerIsNone
