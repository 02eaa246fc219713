CONSTANTS
  p = p
  q = q
  Paths <- MCPaths
  Inodes <- MCInodes
  Streams <- MCStreams
  Fds <- MCFds
  Tables <- MCTables
  MaxLen = 2
  Spellings <- MCSpellings
  Texts <- MCTexts
  Crossing = FALSE
SPECIFICATION Spec
PROPERTIES StreamsAreSound
CHECK_DEADLOCK FALSE
VIEW Standing
SYMMETRY EitherName
