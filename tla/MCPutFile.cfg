\* Two concurrent onTrigger tasks: what holds however the tasks interleave.
CONSTANTS
  Tasks = {k1, k2}
  f1 = f1
  f2 = f2
  f3 = f3
  n1 = n1
  FlowFiles <- MCFlowFiles
  Names <- MCNames
  FileNameOf <- MCFileNameOf
  Foreign = Foreign
  None = None
SPECIFICATION Spec
INVARIANTS
  TypeOK
  FlowFileConservation
PROPERTIES
  AllRouted
\* Once every flow file is routed the processor only yields.
CHECK_DEADLOCK FALSE
