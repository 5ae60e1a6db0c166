\* Every adapter and classifier, on streams of a few events and calls of a few runs.
CONSTANTS
  Blank = Blank
  ClaudeConfigs <- MCClaudeConfigs
  CodexConfigs <- MCCodexConfigs
  OpenCodeConfigs <- MCOpenCodeConfigs
  StreamConfigs <- MCStreamConfigs
  ServerConfigs <- MCServerConfigs
  EndConfigs <- MCEnds
  TailConfigs <- MCTailConfigs
  Nows <- MCNows
  Faces <- MCFaces
  Notes <- MCNotes
SPECIFICATION Spec
INVARIANT OpenCodeIsAccounted
PROPERTIES
  ClaudeIsAccounted StreamsAreReadOnce PreflightIsSound EndsAreClassified
CHECK_DEADLOCK FALSE
