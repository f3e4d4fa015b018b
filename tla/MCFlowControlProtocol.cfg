\* One run() slot: the owner never calls start() again before the previous
\* loop has returned; name resolution may fail.  Checks the single-loop
\* safety and liveness properties.
CONSTANTS
  Threads = {t1}
  SeqMod <- MCSeqMod
  Intervals <- MCIntervals
  InitInterval <- MCInitInterval
  Procs = {p1}
  Values = {v1, v2}
  NoField = NoField
  DnsCanFail = TRUE
SPECIFICATION Spec
INVARIANTS
  TypeOK
  OutstandingRequestIsCurrent
  SocketOwnedByExchange
PROPERTIES
  StopObserved
\* After a REPORT_INTERVAL of 0 and a stop(), start() refuses for ever and no
\* thread is left: the engine really stops.  A crashed process takes no more
\* steps.
CHECK_DEADLOCK FALSE
