SPECIFICATION Spec
CONSTANTS
  Tokens <- MCTokens
  Env <- MCEnv
  Durations <- MCDurations
  Files <- MCFiles
  Paths <- MCPaths
  Escapes <- MCEscapes
  BadEscapes <- MCBadEscapes
  WildcardNames <- MCWildcardNames
  Edits <- MCEdits
INVARIANTS
  ExpansionComposes
  StripApplies
  SettingsUsable
  PanicsExplained
  FixedUntilRestart
  SameFileReloads
CHECK_DEADLOCK FALSE
