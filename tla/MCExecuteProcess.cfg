\* Two concurrent triggers, both batch modes, reads that end only at end of
\* stream.
CONSTANTS
  Tasks = {k1, k2}
  b1 = b1
  b2 = b2
  b3 = b3
  b4 = b4
  Output <- MCOutput
  BufSize <- MCBufSize
  PipeCap <- MCPipeCap
  BatchModes = {TRUE, FALSE}
  ReadCanFail = FALSE
  NoFlowFile = NoFlowFile
SPECIFICATION Spec
INVARIANTS
  TypeOK
  SingleChild
  ReadConservesOutput
PROPERTIES
  FlagEventuallyCleared
