\* Two run() slots: stop() then start() while the first loop is blocked in
\* an exchange spawns a second loop sharing _seqNumber, _registered, _socket.
CONSTANTS
  Threads = {t1, t2}
  SeqMod <- MCSeqMod
  Intervals <- MCIntervals
  InitInterval <- MCInitInterval
  Procs = {p1}
  Values = {v1, v2}
  NoField = NoField
  DnsCanFail = FALSE
SPECIFICATION Spec
INVARIANT OutstandingRequestIsCurrent
CHECK_DEADLOCK FALSE
