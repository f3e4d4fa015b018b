\* read() may fail with -1 while the child still has output to write.
CONSTANTS
  Tasks = {k1}
  b1 = b1
  b2 = b2
  b3 = b3
  b4 = b4
  Output <- MCOutput
  BufSize <- MCBufSize
  PipeCap <- MCPipeCap
  BatchModes = {TRUE, FALSE}
  ReadCanFail = TRUE
  NoFlowFile = NoFlowFile
SPECIFICATION Spec
PROPERTY FlagEventuallyCleared
\* A stuck wait() is the behaviour under test.
CHECK_DEADLOCK FALSE
