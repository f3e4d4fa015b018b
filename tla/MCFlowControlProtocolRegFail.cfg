\* One run() slot: a registration whose payload read fails.
CONSTANTS
  Threads = {t1}
  SeqMod <- MCSeqMod
  Intervals <- MCIntervals
  InitInterval <- MCInitInterval
  Procs = {p1}
  Values = {v1, v2}
  NoField = NoField
  DnsCanFail = FALSE
SPECIFICATION Spec
INVARIANT RegisterFailureLeavesUnregistered
CHECK_DEADLOCK FALSE
