SPECIFICATION Spec
CONSTANTS
  Dirs <- MCDirs
  Programs <- MCPrograms
  Precisions <- MCPrecisions
  Kinds <- MCKinds
  MaxCommands = 4
INVARIANTS RunMeasuresAllOnce NoLineTwice StampsAreTrue
