\* One trigger at a time, without batching: is the whole output delivered?
CONSTANTS
  Tasks = {k1}
  b1 = b1
  b2 = b2
  b3 = b3
  b4 = b4
  Output <- MCOutput
  BufSize <- MCBufSize
  PipeCap <- MCPipeCap
  BatchModes = {FALSE}
  ReadCanFail = FALSE
  NoFlowFile = NoFlowFile
SPECIFICATION Spec
INVARIANT OutputDelivered
