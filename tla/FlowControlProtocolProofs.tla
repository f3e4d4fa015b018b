---------------------- MODULE FlowControlProtocolProofs ----------------------
(***************************************************************************)
(* Proofs about FlowControlProtocol, for every value of its constants.     *)
(***************************************************************************)
EXTENDS FlowControlProtocol, TLAPS

\* The successor of a sequence number stays in the sequence space.
LEMMA NextSeqInSpace ==
  ASSUME NEW s \in SeqSpace
  PROVE  (s + 1) % SeqMod \in SeqSpace
  BY SeqModAssumption DEF SeqSpace

-----------------------------------------------------------------------------
(* Type correctness.                                                       *)

LEMMA InitTypeOK == Init => TypeOK
<1> SUFFICES ASSUME Init PROVE TypeOK
  OBVIOUS
<1>1. seqNumber \in SeqSpace /\ sentSeq \in [Threads -> SeqSpace]
  BY SeqModAssumption DEF Init, SeqSpace
<1>2. pc \in [Threads -> Places] /\ op \in [Threads -> {"register", "report"}]
  BY DEF Init, Places
<1>3. ret \in [Threads -> {0, -1}]
  BY DEF Init
<1>4. QED
  BY <1>1, <1>2, <1>3 DEF Init, TypeOK

LEMMA NextTypeOK == TypeOK /\ [Next]_vars => TypeOK'
<1> SUFFICES ASSUME TypeOK, [Next]_vars PROVE TypeOK'
  OBVIOUS
<1> USE DEF TypeOK, Places, protoVars, threadVars, ctlVars
<1>1. CASE Start
  BY <1>1 DEF Start
<1>2. CASE Stop
  BY <1>2 DEF Stop
<1>3. ASSUME NEW t \in Threads, Exit(t) PROVE TypeOK'
  BY <1>3 DEF Exit
<1>4. ASSUME NEW t \in Threads, Dispatch(t) PROVE TypeOK'
  BY <1>4 DEF Dispatch
<1>5. ASSUME NEW t \in Threads, ConnectAndSend(t) PROVE TypeOK'
  BY <1>5 DEF ConnectAndSend, SendFrame, CloseAndReturn, vars, protoVars,
              threadVars, ctlVars
<1>6. ASSUME NEW t \in Threads, RegisterRequest(t) PROVE TypeOK'
  BY <1>5, <1>6 DEF RegisterRequest, protoVars, ctlVars
<1>7. ASSUME NEW t \in Threads, ReportRequest(t) PROVE TypeOK'
  BY <1>5, <1>7 DEF ReportRequest
<1>8. ASSUME NEW t \in Threads, RegisterResponse(t) PROVE TypeOK'
  BY <1>8, NextSeqInSpace DEF RegisterResponse, ReadHdrFails, RegisterAccepted,
        RegisterRejected, CloseAndReturn, NextSeq, ctlVars
<1>9. ASSUME NEW t \in Threads, ReportResponse(t) PROVE TypeOK'
  BY <1>9, NextSeqInSpace DEF ReportResponse, ReadHdrFails, ReportAccepted,
        TriggerRegister, StopFlowController, StartFlowController,
        ReportRejected, CloseAndReturn, NextSeq, ControllerStop,
        ControllerStart, ctlVars
<1>10. ASSUME NEW t \in Threads, RegisterPayload(t) PROVE TypeOK'
  BY <1>10 DEF RegisterPayload, CloseAndReturn, ctlVars
<1>11. ASSUME NEW t \in Threads, ReportPayload(t) PROVE TypeOK'
  BY <1>11 DEF ReportPayload, CloseAndReturn, UpdatePropertyValue
<1>12. CASE UNCHANGED vars
  BY <1>12 DEF vars, protoVars, threadVars, ctlVars
<1>13. QED
  BY <1>1, <1>2, <1>3, <1>4, <1>6, <1>7, <1>8, <1>9, <1>10, <1>11, <1>12
     DEF Next, Loop

\* The protocol state always has its type.
THEOREM TypeCorrect == Spec => []TypeOK
  BY InitTypeOK, NextTypeOK, PTL DEF Spec

-----------------------------------------------------------------------------
(* A single run() loop keeps its outstanding request current.              *)

\* The inductive strengthening: OutstandingRequestIsCurrent also holds
\* while the thread is still in "request", where Dispatch chose the call
\* from _registered, and the socket is open exactly during an exchange.
LoopInv ==
  /\ \A t \in Threads :
       /\ pc[t] \in {"request", "await"} => registered = (op[t] = "report")
       /\ pc[t] = "await" => sentSeq[t] = seqNumber
       /\ pc[t] = "payload" =>
            /\ seqNumber = (sentSeq[t] + 1) % SeqMod
            /\ registered
  /\ SocketOwnedByExchange

\* LoopInv for the one thread t.
LoopInvAt(t) ==
  /\ pc[t] \in {"request", "await"} => registered = (op[t] = "report")
  /\ pc[t] = "await" => sentSeq[t] = seqNumber
  /\ pc[t] = "payload" =>
       /\ seqNumber = (sentSeq[t] + 1) % SeqMod
       /\ registered
  /\ sockOpen <=> pc[t] \in {"await", "payload"}

LEMMA LoopInvSingle ==
  ASSUME NEW t0, Threads = {t0}
  PROVE  LoopInv <=> LoopInvAt(t0)
  BY DEF LoopInv, LoopInvAt, SocketOwnedByExchange

LEMMA LoopInvInit == Init => LoopInv
  BY DEF Init, LoopInv, SocketOwnedByExchange

LEMMA LoopInvNext ==
  ASSUME NEW t0, Threads = {t0}
  PROVE  TypeOK /\ LoopInv /\ [Next]_vars => LoopInv'
<1> SUFFICES ASSUME TypeOK, LoopInvAt(t0), [Next]_vars
             PROVE  LoopInvAt(t0)'
  <2>1. LoopInvAt(t0)' => LoopInv'
    BY DEF LoopInv, LoopInvAt, SocketOwnedByExchange
  <2>2. QED
    BY <2>1, LoopInvSingle
<1> USE DEF TypeOK, LoopInvAt, protoVars, threadVars, ctlVars
<1>1. CASE Start \/ Stop
  BY <1>1 DEF Start, Stop
<1>2. CASE Exit(t0) \/ Dispatch(t0)
  BY <1>2 DEF Exit, Dispatch
<1>3. CASE ConnectAndSend(t0) /\ pc[t0] = "request"
  BY <1>3 DEF ConnectAndSend, SendFrame, CloseAndReturn
<1>4. CASE RegisterRequest(t0) \/ ReportRequest(t0)
  BY <1>3, <1>4 DEF RegisterRequest, ReportRequest
<1>5. CASE RegisterResponse(t0)
  BY <1>5 DEF RegisterResponse, ReadHdrFails, RegisterAccepted,
              RegisterRejected, CloseAndReturn, Matches, NextSeq
<1>6. CASE ReportResponse(t0)
  <2>1. CASE ReadHdrFails(t0)
    BY <2>1 DEF ReadHdrFails, CloseAndReturn
  <2>2. ASSUME NEW h \in Headers, ReportAccepted(t0, h) PROVE LoopInvAt(t0)'
    BY <1>6, <2>2 DEF ReportResponse, ReportAccepted, Matches, NextSeq
  <2>3. ASSUME NEW h \in Headers,
               TriggerRegister(t0, h) \/ StopFlowController(t0, h)
               \/ StartFlowController(t0, h) \/ ReportRejected(t0, h)
        PROVE  LoopInvAt(t0)'
    BY <2>3 DEF TriggerRegister, StopFlowController, StartFlowController,
                ReportRejected, CloseAndReturn, ControllerStop,
                ControllerStart
  <2>4. QED
    BY <1>6, <2>1, <2>2, <2>3 DEF ReportResponse
<1>7. CASE RegisterPayload(t0) \/ ReportPayload(t0)
  BY <1>7 DEF RegisterPayload, ReportPayload, CloseAndReturn,
              UpdatePropertyValue
<1>8. CASE UNCHANGED vars
  BY <1>8 DEF vars
<1>9. QED
  BY <1>1, <1>2, <1>4, <1>5, <1>6, <1>7, <1>8 DEF Next, Loop

\* With one run() loop (the owner does not call start() again before the
\* previous loop has returned), every outstanding request is current and
\* the socket is open exactly while an exchange is in flight.
THEOREM SingleLoopRequestCurrent ==
  ASSUME NEW t0, Threads = {t0}
  PROVE  Spec => []OutstandingRequestIsCurrent
<1>1. LoopInv => OutstandingRequestIsCurrent
  BY DEF LoopInv, OutstandingRequestIsCurrent
<1>2. QED
  BY <1>1, LoopInvInit, LoopInvNext, NextTypeOK, InitTypeOK, PTL DEF Spec

\* With one run() loop the socket never outlives an exchange.
THEOREM SingleLoopSocketClosed ==
  ASSUME NEW t0, Threads = {t0}
  PROVE  Spec => []SocketOwnedByExchange
  BY LoopInvInit, LoopInvNext, NextTypeOK, InitTypeOK, PTL DEF Spec, LoopInv

==============================================================================
