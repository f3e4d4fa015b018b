\* One run() slot: gethostbyname_r may fail.
CONSTANTS
  Threads = {t1}
  SeqMod <- MCSeqMod
  Intervals <- MCIntervals
  InitInterval <- MCInitInterval
  Procs = {p1}
  Values = {v1, v2}
  NoField = NoField
  DnsCanFail = TRUE
SPECIFICATION Spec
INVARIANT NoCrash
CHECK_DEADLOCK FALSE
