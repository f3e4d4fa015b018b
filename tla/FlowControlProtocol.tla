------------------------- MODULE FlowControlProtocol -------------------------
(***************************************************************************)
(* The agent side of the flow control protocol                            *)
(* (src/libminifi/src/FlowControlProtocol.cpp).  start() spawns a detached *)
(* run() thread that, while running_ is set, sleeps and then either        *)
(* registers (sendRegisterReq) or reports (sendReportReq).  Each exchange  *)
(* connects a socket if none is open, sends a header stamped with          *)
(* _seqNumber, blocks for the response header, checks its status and       *)
(* sequence number, and for a SUCCESS reads a payload.  The controller     *)
(* (the remote C2 server) is the environment: it answers with any status   *)
(* and any sequence number, and any read or write may fail.                *)
(*                                                                         *)
(* A thread is in one of five places:                                      *)
(*   "idle"    no run() thread in this slot (never started or exited)      *)
(*   "loop"    at the while (protocol->running_) test of run()             *)
(*   "request" inside sendRegisterReq/sendReportReq, before the send       *)
(*   "await"   request sent, blocked in readHdr()                          *)
(*   "payload" header accepted, blocked reading the payload                *)
(***************************************************************************)
EXTENDS Integers

CONSTANTS
  Threads,      \* slots for the detached run() threads start() may spawn
  SeqMod,       \* 2^w for the width w of _seqNumber (2^32: uint32_t)
  Intervals,    \* REPORT_INTERVAL values the controller may send
  InitInterval, \* _reportInterval from the configuration
  Procs,        \* processor names carried by PROCESSOR_NAME fields
  Values,       \* values carried by PROPERTY_VALUE fields
  NoField,      \* a payload whose first field the parse loop does not know
  DnsCanFail    \* whether gethostbyname_r may fail in this run

ASSUME ThreadsAssumption == Threads # {}
ASSUME SeqModAssumption == SeqMod \in Nat \ {0}
ASSUME IntervalAssumption == Intervals \subseteq Nat /\ InitInterval \in Nat
ASSUME NoFieldAssumption == NoField \notin Intervals \cup (Procs \X Values)
ASSUME DnsAssumption == DnsCanFail \in BOOLEAN

SeqSpace == 0 .. (SeqMod - 1)

\* Response codes of the FlowControlRespCode enum; FAIL stands for any other.
RESP_SUCCESS == "SUCCESS"
RESP_TRIGGER_REGISTER == "TRIGGER_REGISTER"
RESP_STOP_FLOW_CONTROLLER == "STOP_FLOW_CONTROLLER"
RESP_START_FLOW_CONTROLLER == "START_FLOW_CONTROLLER"
RESP_FAIL == "FAIL"
Statuses == {RESP_SUCCESS, RESP_TRIGGER_REGISTER, RESP_STOP_FLOW_CONTROLLER,
             RESP_START_FLOW_CONTROLLER, RESP_FAIL}

\* A decoded response header.  msgType and payloadLen are not checked by the
\* code beyond the payload read, so only status and seqNumber are kept.
Headers == [status : Statuses, seqNumber : SeqSpace]

Places == {"idle", "loop", "request", "await", "payload"}

VARIABLES
  running,        \* running_
  registered,     \* _registered
  seqNumber,      \* _seqNumber
  reportInterval, \* _reportInterval
  sockOpen,       \* _socket > 0
  pc,             \* where each run() thread is
  op,             \* "register" or "report": the call the thread is in
  sentSeq,        \* hdr.seqNumber of the request the thread last sent
  ret,            \* return value of the thread's last send*Req call
  flowRunning,    \* run state of the FlowController (start()/stop(true))
  props,          \* property values of the FlowController's processors
  crashed         \* the process died

protoVars == <<running, registered, seqNumber, reportInterval, sockOpen>>
threadVars == <<pc, op, sentSeq, ret>>
ctlVars == <<flowRunning, props, crashed>>
vars == <<protoVars, threadVars, ctlVars>>

NextSeq == (seqNumber + 1) % SeqMod

-----------------------------------------------------------------------------
(* The controller-facing interface, FlowController::stop/start and         *)
(* updatePropertyValue: not under src/, modelled from the spec.           *)
ControllerStop == flowRunning' = FALSE
ControllerStart == flowRunning' = TRUE
UpdatePropertyValue(p, v) == props' = [props EXCEPT ![p] = v]

-----------------------------------------------------------------------------
\* Constructor state: not registered, sequence 0, no socket, no thread.
Init ==
  /\ running = FALSE
  /\ registered = FALSE
  /\ seqNumber = 0
  /\ reportInterval = InitInterval
  /\ sockOpen = FALSE
  /\ pc = [t \in Threads |-> "idle"]
  /\ op = [t \in Threads |-> "register"]
  /\ sentSeq = [t \in Threads |-> 0]
  /\ ret = [t \in Threads |-> 0]
  /\ flowRunning \in BOOLEAN
  /\ props \in [Procs -> Values]
  /\ crashed = FALSE

\* start(): refuses when _reportInterval <= 0 or running_ is set; otherwise
\* sets running_ and spawns a detached run() thread.
Start ==
  /\ reportInterval > 0
  /\ ~running
  /\ running' = TRUE
  /\ \E t \in Threads :
       /\ pc[t] = "idle"
       /\ pc' = [pc EXCEPT ![t] = "loop"]
  /\ UNCHANGED <<registered, seqNumber, reportInterval, sockOpen>>
  /\ UNCHANGED <<op, sentSeq, ret, ctlVars>>

\* stop(): clears running_; the thread notices at its next loop test.
Stop ==
  /\ running
  /\ running' = FALSE
  /\ UNCHANGED <<registered, seqNumber, reportInterval, sockOpen>>
  /\ UNCHANGED <<threadVars, ctlVars>>

\* run(): the loop test fails and the thread returns.
Exit(t) ==
  /\ pc[t] = "loop"
  /\ ~running
  /\ pc' = [pc EXCEPT ![t] = "idle"]
  /\ UNCHANGED <<protoVars, op, sentSeq, ret, ctlVars>>

\* Mutant: the loop body runs without re-testing running_.
DispatchIgnoringStop(t) ==
  /\ pc[t] = "loop"
  /\ op' = [op EXCEPT ![t] = IF registered THEN "report" ELSE "register"]
  /\ pc' = [pc EXCEPT ![t] = "request"]
  /\ UNCHANGED <<protoVars, sentSeq, ret, ctlVars>>

\* run(): the loop test holds; after the sleep the thread registers if not
\* registered and reports otherwise.
Dispatch(t) ==
  /\ pc[t] = "loop"
  /\ running
  /\ op' = [op EXCEPT ![t] = IF registered THEN "report" ELSE "register"]
  /\ pc' = [pc EXCEPT ![t] = "request"]
  /\ UNCHANGED <<protoVars, sentSeq, ret, ctlVars>>

\* close(_socket); _socket = 0; return r;
CloseAndReturn(t, r) ==
  /\ sockOpen' = FALSE
  /\ pc' = [pc EXCEPT ![t] = "loop"]
  /\ ret' = [ret EXCEPT ![t] = r]

\* Mutant: the header is stamped with _seqNumber++ instead of _seqNumber.
SendFramePostIncrement(t) ==
  /\ sockOpen' = TRUE
  /\ sentSeq' = [sentSeq EXCEPT ![t] = seqNumber]
  /\ seqNumber' = NextSeq
  /\ pc' = [pc EXCEPT ![t] = "await"]
  /\ UNCHANGED <<running, registered, reportInterval, op, ret, ctlVars>>

\* The frame is sent whole; the header carries the current _seqNumber.
SendFrame(t) ==
  /\ sockOpen' = TRUE
  /\ sentSeq' = [sentSeq EXCEPT ![t] = seqNumber]
  /\ pc' = [pc EXCEPT ![t] = "await"]
  /\ UNCHANGED <<running, registered, seqNumber, reportInterval>>
  /\ UNCHANGED <<op, ret, ctlVars>>

\* connectServer() unless a socket is open, then sendData() of a frame whose
\* header carries the current _seqNumber.  A failed gethostbyname_r leaves h
\* NULL and h->h_addr_list faults; any other connect failure returns 0.
ConnectAndSend(t) ==
  \/ /\ ~sockOpen
     /\ DnsCanFail
     /\ crashed' = TRUE
     /\ UNCHANGED <<protoVars, threadVars, flowRunning, props>>
  \/ /\ ~sockOpen
     /\ pc' = [pc EXCEPT ![t] = "loop"]
     /\ ret' = [ret EXCEPT ![t] = -1]
     /\ UNCHANGED <<protoVars, op, sentSeq, ctlVars>>
  \/ /\ CloseAndReturn(t, -1)
     /\ UNCHANGED <<running, registered, seqNumber, reportInterval>>
     /\ UNCHANGED <<op, sentSeq, ctlVars>>
  \/ SendFrame(t)

\* sendRegisterReq() up to the send: refuses when already registered.
RegisterRequest(t) ==
  /\ pc[t] = "request"
  /\ op[t] = "register"
  /\ \/ /\ registered
        /\ pc' = [pc EXCEPT ![t] = "loop"]
        /\ ret' = [ret EXCEPT ![t] = -1]
        /\ UNCHANGED <<protoVars, op, sentSeq, ctlVars>>
     \/ /\ ~registered
        /\ ConnectAndSend(t)

\* sendReportReq() up to the send.
ReportRequest(t) ==
  /\ pc[t] = "request"
  /\ op[t] = "report"
  /\ ConnectAndSend(t)

\* readHdr() returns <= 0: select() timed out, the peer closed, or the
\* socket was closed under the thread.
ReadHdrFails(t) ==
  /\ CloseAndReturn(t, -1)
  /\ UNCHANGED <<running, registered, seqNumber, reportInterval>>
  /\ UNCHANGED <<op, sentSeq, ctlVars>>

\* The header's status is st and its seqNumber is the current _seqNumber.
Matches(h, st) == h.status = st /\ h.seqNumber = seqNumber

\* Mutant: _seqNumber kept as an unbounded counter.
RegisterAcceptedNoWrap(t, h) ==
  /\ Matches(h, RESP_SUCCESS)
  /\ registered' = TRUE
  /\ seqNumber' = seqNumber + 1
  /\ pc' = [pc EXCEPT ![t] = "payload"]
  /\ UNCHANGED <<running, reportInterval, sockOpen, op, sentSeq, ret, ctlVars>>

\* sendRegisterReq(): SUCCESS with a matching sequence number sets
\* _registered and increments _seqNumber before the payload is read.
RegisterAccepted(t, h) ==
  /\ Matches(h, RESP_SUCCESS)
  /\ registered' = TRUE
  /\ seqNumber' = NextSeq
  /\ pc' = [pc EXCEPT ![t] = "payload"]
  /\ UNCHANGED <<running, reportInterval, sockOpen, op, sentSeq, ret, ctlVars>>

\* sendRegisterReq(): any other header is a failed registration.
RegisterRejected(t, h) ==
  /\ ~Matches(h, RESP_SUCCESS)
  /\ CloseAndReturn(t, -1)
  /\ UNCHANGED <<running, registered, seqNumber, reportInterval>>
  /\ UNCHANGED <<op, sentSeq, ctlVars>>

RegisterResponse(t) ==
  /\ pc[t] = "await"
  /\ op[t] = "register"
  /\ \/ ReadHdrFails(t)
     \/ /\ sockOpen
        /\ \E h \in Headers : RegisterAccepted(t, h) \/ RegisterRejected(t, h)

\* sendRegisterReq(): readData() of the payload fails (also when payloadLen
\* is 0, since readData() then returns 0), or the REPORT_INTERVAL fields are
\* consumed until the first other field.
RegisterPayload(t) ==
  /\ pc[t] = "payload"
  /\ op[t] = "register"
  /\ \/ /\ CloseAndReturn(t, -1)
        /\ UNCHANGED reportInterval
     \/ /\ \E f \in Intervals \cup {NoField} :
             reportInterval' = IF f = NoField THEN reportInterval ELSE f
        /\ CloseAndReturn(t, 0)
  /\ UNCHANGED <<running, registered, seqNumber, op, sentSeq, ctlVars>>

\* sendReportReq(): SUCCESS increments _seqNumber before the payload read.
ReportAccepted(t, h) ==
  /\ Matches(h, RESP_SUCCESS)
  /\ seqNumber' = NextSeq
  /\ pc' = [pc EXCEPT ![t] = "payload"]
  /\ UNCHANGED <<running, registered, reportInterval, sockOpen>>
  /\ UNCHANGED <<op, sentSeq, ret, ctlVars>>

\* sendReportReq(): TRIGGER_REGISTER clears _registered.
TriggerRegister(t, h) ==
  /\ Matches(h, RESP_TRIGGER_REGISTER)
  /\ registered' = FALSE
  /\ seqNumber' = NextSeq
  /\ CloseAndReturn(t, 0)
  /\ UNCHANGED <<running, reportInterval, op, sentSeq, ctlVars>>

\* sendReportReq(): STOP_FLOW_CONTROLLER calls _controller->stop(true).
StopFlowController(t, h) ==
  /\ Matches(h, RESP_STOP_FLOW_CONTROLLER)
  /\ ControllerStop
  /\ seqNumber' = NextSeq
  /\ CloseAndReturn(t, 0)
  /\ UNCHANGED <<running, registered, reportInterval, op, sentSeq>>
  /\ UNCHANGED <<props, crashed>>

\* sendReportReq(): START_FLOW_CONTROLLER calls _controller->start().
StartFlowController(t, h) ==
  /\ Matches(h, RESP_START_FLOW_CONTROLLER)
  /\ ControllerStart
  /\ seqNumber' = NextSeq
  /\ CloseAndReturn(t, 0)
  /\ UNCHANGED <<running, registered, reportInterval, op, sentSeq>>
  /\ UNCHANGED <<props, crashed>>

\* Mutant: the failure branch returns -1 without closing the socket.
ReportRejectedNoClose(t, h) ==
  /\ h.status \notin {RESP_SUCCESS, RESP_TRIGGER_REGISTER,
                      RESP_STOP_FLOW_CONTROLLER, RESP_START_FLOW_CONTROLLER}
     \/ h.seqNumber # seqNumber
  /\ pc' = [pc EXCEPT ![t] = "loop"]
  /\ ret' = [ret EXCEPT ![t] = -1]
  /\ UNCHANGED <<protoVars, op, sentSeq, ctlVars>>

\* sendReportReq(): any other status, or a sequence number that does not
\* match, is a failed report.
ReportRejected(t, h) ==
  /\ h.status \notin {RESP_SUCCESS, RESP_TRIGGER_REGISTER,
                      RESP_STOP_FLOW_CONTROLLER, RESP_START_FLOW_CONTROLLER}
     \/ h.seqNumber # seqNumber
  /\ CloseAndReturn(t, -1)
  /\ UNCHANGED <<running, registered, seqNumber, reportInterval>>
  /\ UNCHANGED <<op, sentSeq, ctlVars>>

ReportResponse(t) ==
  /\ pc[t] = "await"
  /\ op[t] = "report"
  /\ \/ ReadHdrFails(t)
     \/ /\ sockOpen
        /\ \E h \in Headers :
             \/ ReportAccepted(t, h)
             \/ TriggerRegister(t, h)
             \/ StopFlowController(t, h)
             \/ StartFlowController(t, h)
             \/ ReportRejected(t, h)

\* sendReportReq(): the payload read fails, or the PROCESSOR_NAME /
\* PROPERTY_NAME / PROPERTY_VALUE triples are applied through
\* updatePropertyValue until the first other field.
ReportPayload(t) ==
  /\ pc[t] = "payload"
  /\ op[t] = "report"
  /\ \/ /\ CloseAndReturn(t, -1)
        /\ UNCHANGED props
     \/ /\ \E f \in (Procs \X Values) \cup {NoField} :
             IF f = NoField THEN UNCHANGED props
                            ELSE UpdatePropertyValue(f[1], f[2])
        /\ CloseAndReturn(t, 0)
  /\ UNCHANGED <<running, registered, seqNumber, reportInterval>>
  /\ UNCHANGED <<op, sentSeq, flowRunning, crashed>>

\* Every step of one run() thread.
Loop(t) ==
  \/ Exit(t)
  \/ Dispatch(t)
  \/ RegisterRequest(t)
  \/ ReportRequest(t)
  \/ RegisterResponse(t)
  \/ ReportResponse(t)
  \/ RegisterPayload(t)
  \/ ReportPayload(t)

Next ==
  /\ ~crashed
  /\ \/ Start
     \/ Stop
     \/ \E t \in Threads : Loop(t)

\* Each run() thread is a dedicated OS thread and every blocking call in a
\* cycle ends (reads are bounded by select() with MAX_READ_TIMEOUT), so a
\* thread that can step eventually does.  start()/stop() are the owner's
\* calls and the controller's answers are the environment: neither is fair.
Fairness == \A t \in Threads : WF_vars(Loop(t))

Spec == Init /\ [][Next]_vars /\ Fairness

-----------------------------------------------------------------------------
TypeOK ==
  /\ running \in BOOLEAN
  /\ registered \in BOOLEAN
  /\ seqNumber \in SeqSpace
  /\ reportInterval \in Intervals \cup {InitInterval}
  /\ sockOpen \in BOOLEAN
  /\ pc \in [Threads -> Places]
  /\ op \in [Threads -> {"register", "report"}]
  /\ sentSeq \in [Threads -> SeqSpace]
  /\ ret \in [Threads -> {0, -1}]
  /\ flowRunning \in BOOLEAN
  /\ props \in [Procs -> Values]
  /\ crashed \in BOOLEAN

\* While a run() thread is blocked on a response, _seqNumber and _registered
\* are still the values its request was built from: the sequence check of
\* sendRegisterReq/sendReportReq compares the reply with the request it
\* answers, and a report is only ever outstanding while registered.
OutstandingRequestIsCurrent ==
  \A t \in Threads :
    /\ pc[t] = "await" =>
         /\ sentSeq[t] = seqNumber
         /\ registered = (op[t] = "report")
    /\ pc[t] = "payload" =>
         /\ seqNumber = (sentSeq[t] + 1) % SeqMod
         /\ registered

\* The socket is open exactly while an exchange is in flight: every path out
\* of sendRegisterReq/sendReportReq, success or failure, closes it and
\* resets _socket, so the next cycle connects afresh.
SocketOwnedByExchange ==
  sockOpen <=> \E t \in Threads : pc[t] \in {"await", "payload"}

\* A stop() is observed: once running_ is cleared, every run() thread
\* finishes its cycle and returns, unless start() is called again.
StopObserved ==
  (~running) ~> (running \/ \A t \in Threads : pc[t] = "idle")

\* Spec 4.2: a header read failure, payload read failure or non-matching
\* sequence number in register() leaves registered = false.
RegisterFailureLeavesUnregistered ==
  \A t \in Threads :
    (pc[t] \in {"loop", "idle"} /\ op[t] = "register" /\ ret[t] = -1)
      => ~registered

\* Spec 4.2/7: a DNS or socket failure in connect is a ConnectError handled
\* by the engine; no protocol error aborts the owning process.
NoCrash == ~crashed

=============================================================================
