\* A stream insertion that stops short of the whole content.
CONSTANTS
  Tasks = {k1}
  f1 = f1
  f2 = f2
  f3 = f3
  n1 = n1
  FlowFiles <- MCFlowFiles
  Names <- MCNames
  FileNameOf <- MCFileNameOf
  Foreign = Foreign
  None = None
SPECIFICATION Spec
INVARIANT NoTruncatedFile
\* Once every flow file is routed the processor only yields.
CHECK_DEADLOCK FALSE
