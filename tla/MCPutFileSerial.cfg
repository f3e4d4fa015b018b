\* One onTrigger at a time: the conflict strategies hold.
CONSTANTS
  Tasks = {k1}
  f1 = f1
  f2 = f2
  f3 = f3
  n1 = n1
  FlowFiles <- MCFlowFiles
  Names <- MCNames
  FileNameOf <- MCFileNameOf
  Foreign = Foreign
  None = None
SPECIFICATION Spec
PROPERTIES
  ConflictNeverOverwritten
\* Once every flow file is routed the processor only yields.
CHECK_DEADLOCK FALSE
