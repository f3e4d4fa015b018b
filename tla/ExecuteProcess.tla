--------------------------- MODULE ExecuteProcess ---------------------------
(***************************************************************************)
(* The ExecuteProcess processor                                            *)
(* (src/libminifi/src/processors/ExecuteProcess.cpp).  An onTrigger that   *)
(* finds _processRunning clear takes running_lock_, checks the flag again  *)
(* and sets it, then creates a pipe and forks the command.  The parent     *)
(* reads the child's output from the pipe: with a positive batch duration  *)
(* every read() becomes a flow file that is committed at once; otherwise   *)
(* reads fill a 4096-byte buffer, each full buffer is written (first) or   *)
(* appended (later) to one flow file, and at end of stream the rest is     *)
(* added and the flow file transferred.  The parent then wait()s for the   *)
(* child and clears _processRunning; the framework commits the session.    *)
(*                                                                         *)
(* Tasks are concurrent onTrigger invocations of the one processor.  The   *)
(* child is a process of its own that writes Output into a pipe of         *)
(* PipeCap bytes and exits once all of it is written.  Bytes are model     *)
(* values; BufSize stands for sizeof(buffer).                              *)
(***************************************************************************)
EXTENDS Integers, Sequences, SequencesExt

CONSTANTS
  Tasks,        \* concurrent onTrigger invocations
  Output,       \* the bytes the command writes to its stdout
  BufSize,      \* sizeof(buffer) (4096)
  PipeCap,      \* capacity of the pipe
  BatchModes,   \* values of batch_duration_ > 0 a trigger may see
  ReadCanFail,  \* whether read() may return -1 before end of stream
  NoFlowFile    \* flowFile == nullptr

ASSUME OutputAssumption == Output \in Seq(Range(Output))
ASSUME SizeAssumption == BufSize \in Nat \ {0} /\ PipeCap \in Nat \ {0}
ASSUME ModeAssumption == BatchModes \subseteq BOOLEAN /\ BatchModes # {}
ASSUME ReadAssumption == ReadCanFail \in BOOLEAN
ASSUME NoFlowFileAssumption == NoFlowFile \notin Seq(Range(Output))

Bytes == Range(Output)

VARIABLES
  processRunning, \* _processRunning
  pc,             \* "idle", "checked" (saw the flag clear), "read", "wait"
  batch,          \* batch_duration_ > 0 in the task's trigger
  buf,            \* buffer[0 .. totalRead-1] of the task
  flowFile,       \* content of the task's flow file, or NoFlowFile
  transferred,    \* session->transfer(flowFile, Success) was called
  pipe,           \* bytes in the pipe, oldest first
  written,        \* how many bytes of Output the child has written
  child,          \* "none", "alive", "exited" or "reaped"
  delivered       \* bytes of the last run committed to success, in order

taskVars == <<pc, batch, buf, flowFile, transferred>>
childVars == <<pipe, written, child>>
vars == <<processRunning, taskVars, childVars, delivered>>

-----------------------------------------------------------------------------
Init ==
  /\ processRunning = FALSE
  /\ pc = [k \in Tasks |-> "idle"]
  /\ batch = [k \in Tasks |-> CHOOSE b \in BatchModes : TRUE]
  /\ buf = [k \in Tasks |-> << >>]
  /\ flowFile = [k \in Tasks |-> NoFlowFile]
  /\ transferred = [k \in Tasks |-> FALSE]
  /\ pipe = << >>
  /\ written = 0
  /\ child = "none"
  /\ delivered = << >>

\* onTrigger: the unlocked test of _processRunning finds it clear.
Check(k) ==
  /\ pc[k] = "idle"
  /\ ~processRunning
  /\ pc' = [pc EXCEPT ![k] = "checked"]
  /\ UNCHANGED <<processRunning, batch, buf, flowFile, transferred,
                 childVars, delivered>>

\* Mutant: the test under running_lock_ is dropped.
ClaimWithoutRecheck(k) ==
  /\ pc[k] = "checked"
  /\ \/ /\ UNCHANGED processRunning
        /\ pc' = [pc EXCEPT ![k] = "idle"]
        /\ UNCHANGED <<batch, buf, flowFile, transferred, childVars, delivered>>
     \/ /\ processRunning' = TRUE
        /\ \E b \in BatchModes : batch' = [batch EXCEPT ![k] = b]
        /\ pc' = [pc EXCEPT ![k] = "read"]
        /\ buf' = [buf EXCEPT ![k] = << >>]
        /\ flowFile' = [flowFile EXCEPT ![k] = NoFlowFile]
        /\ transferred' = [transferred EXCEPT ![k] = FALSE]
        /\ pipe' = << >> /\ written' = 0 /\ child' = "alive"
        /\ delivered' = << >>

\* Under running_lock_: return if another trigger set _processRunning,
\* else set it.  Then pipe() and fork(): either fails (the flag is cleared
\* and the trigger yields) or the child starts and the parent reads.
Claim(k) ==
  /\ pc[k] = "checked"
  /\ \/ /\ processRunning
        /\ pc' = [pc EXCEPT ![k] = "idle"]
        /\ UNCHANGED <<processRunning, batch, buf, flowFile, transferred,
                       childVars, delivered>>
     \/ /\ ~processRunning
        /\ pc' = [pc EXCEPT ![k] = "idle"]
        /\ UNCHANGED <<processRunning, batch, buf, flowFile, transferred,
                       childVars, delivered>>
     \/ /\ ~processRunning
        /\ processRunning' = TRUE
        /\ \E b \in BatchModes : batch' = [batch EXCEPT ![k] = b]
        /\ pc' = [pc EXCEPT ![k] = "read"]
        /\ buf' = [buf EXCEPT ![k] = << >>]
        /\ flowFile' = [flowFile EXCEPT ![k] = NoFlowFile]
        /\ transferred' = [transferred EXCEPT ![k] = FALSE]
        /\ pipe' = << >> /\ written' = 0 /\ child' = "alive"
        /\ delivered' = << >>

\* The child writes its next byte; write() blocks on a full pipe.
ChildWrite ==
  /\ child = "alive"
  /\ written < Len(Output)
  /\ Len(pipe) < PipeCap
  /\ pipe' = Append(pipe, Output[written + 1])
  /\ written' = written + 1
  /\ UNCHANGED <<processRunning, taskVars, child, delivered>>

\* The child has written everything and exits, closing its end.
ChildExit ==
  /\ child = "alive"
  /\ written = Len(Output)
  /\ child' = "exited"
  /\ UNCHANGED <<processRunning, taskVars, pipe, written, delivered>>

\* read() returns 0 (end of stream: pipe empty and the writer gone) or,
\* when ReadCanFail, -1.
ReadEnds == (pipe = << >> /\ child = "exited") \/ ReadCanFail

\* Session write (first chunk) or append (later chunks) to the flow file.
AddTo(ff, chunk) == IF ff = NoFlowFile THEN chunk ELSE ff \o chunk

\* What the task's flow file holds so far.
Content(k) == IF flowFile[k] = NoFlowFile THEN << >> ELSE flowFile[k]

\* Mutant: a read() that exactly fills the buffer is taken for a partial one.
ReadPartToFull(k) ==
  /\ pc[k] = "read"
  /\ ~batch[k]
  /\ \E m \in 1 .. Min({Len(pipe), BufSize - Len(buf[k])}) :
       /\ buf' = [buf EXCEPT ![k] = buf[k] \o SubSeq(pipe, 1, m)]
       /\ pipe' = SubSeq(pipe, m + 1, Len(pipe))
  /\ UNCHANGED <<processRunning, pc, batch, flowFile, transferred, written,
                 child, delivered>>

\* Without batching: a read() that returns less than the space left in the
\* buffer advances totalRead and bufPtr.
ReadPart(k) ==
  /\ pc[k] = "read"
  /\ ~batch[k]
  /\ \E m \in 1 .. Min({Len(pipe), BufSize - Len(buf[k]) - 1}) :
       /\ buf' = [buf EXCEPT ![k] = buf[k] \o SubSeq(pipe, 1, m)]
       /\ pipe' = SubSeq(pipe, m + 1, Len(pipe))
  /\ UNCHANGED <<processRunning, pc, batch, flowFile, transferred, written,
                 child, delivered>>

\* Mutant: the callback is given the bytes of this read() only, not the
\* whole buffer.
ReadFullDropsBuffer(k) ==
  /\ pc[k] = "read"
  /\ ~batch[k]
  /\ LET m == BufSize - Len(buf[k]) IN
       /\ m <= Len(pipe)
       /\ flowFile' = [flowFile EXCEPT ![k] =
                         AddTo(flowFile[k], SubSeq(pipe, 1, m))]
       /\ buf' = [buf EXCEPT ![k] = << >>]
       /\ pipe' = SubSeq(pipe, m + 1, Len(pipe))
  /\ UNCHANGED <<processRunning, pc, batch, transferred, written, child,
                 delivered>>

\* Without batching: a read() that fills the buffer.  The whole buffer is
\* written to a new flow file (session->create, session->write) or appended
\* to the existing one, and the buffer is rewound.
ReadFull(k) ==
  /\ pc[k] = "read"
  /\ ~batch[k]
  /\ LET m == BufSize - Len(buf[k]) IN
       /\ m <= Len(pipe)
       /\ flowFile' = [flowFile EXCEPT ![k] =
                         AddTo(flowFile[k], buf[k] \o SubSeq(pipe, 1, m))]
       /\ buf' = [buf EXCEPT ![k] = << >>]
       /\ pipe' = SubSeq(pipe, m + 1, Len(pipe))
  /\ UNCHANGED <<processRunning, pc, batch, transferred, written, child,
                 delivered>>

\* Mutant: a read() of 0 with nothing buffered retries instead of breaking.
ReadEndRetriesOnZero(k) ==
  /\ pc[k] = "read"
  /\ ~batch[k]
  /\ ReadEnds
  /\ \/ /\ buf[k] # << >>
        /\ flowFile' = [flowFile EXCEPT ![k] = AddTo(flowFile[k], buf[k])]
        /\ transferred' = [transferred EXCEPT ![k] = TRUE]
        /\ pc' = [pc EXCEPT ![k] = "wait"]
     \/ /\ buf[k] = << >>
        /\ UNCHANGED <<flowFile, transferred, pc>>
  /\ UNCHANGED <<processRunning, batch, buf, childVars, delivered>>

\* Without batching: read() returns <= 0.  If totalRead > 0 the rest of
\* the buffer is written or appended and the flow file transferred to
\* success; then the loop breaks.
ReadEnd(k) ==
  /\ pc[k] = "read"
  /\ ~batch[k]
  /\ ReadEnds
  /\ \/ /\ buf[k] # << >>
        /\ flowFile' = [flowFile EXCEPT ![k] = AddTo(flowFile[k], buf[k])]
        /\ transferred' = [transferred EXCEPT ![k] = TRUE]
     \/ /\ buf[k] = << >>
        /\ UNCHANGED <<flowFile, transferred>>
  /\ pc' = [pc EXCEPT ![k] = "wait"]
  /\ UNCHANGED <<processRunning, batch, buf, childVars, delivered>>

\* With batching: after the sleep, one read() of up to sizeof(buffer)
\* bytes becomes a flow file that is transferred and committed at once; a
\* read() <= 0 breaks the loop.
BatchRead(k) ==
  /\ pc[k] = "read"
  /\ batch[k]
  /\ \/ /\ \E m \in 1 .. Min({Len(pipe), BufSize}) :
             /\ delivered' = delivered \o SubSeq(pipe, 1, m)
             /\ pipe' = SubSeq(pipe, m + 1, Len(pipe))
        /\ UNCHANGED pc
     \/ /\ ReadEnds
        /\ pc' = [pc EXCEPT ![k] = "wait"]
        /\ UNCHANGED <<pipe, delivered>>
  /\ UNCHANGED <<processRunning, batch, buf, flowFile, transferred, written,
                 child>>

\* wait() blocks until the child has exited; the read end is closed and
\* _processRunning cleared.  The framework then commits the session: a
\* transferred flow file reaches success, one that was created but never
\* transferred is not committed.
Wait(k) ==
  /\ pc[k] = "wait"
  /\ child = "exited"
  /\ child' = "reaped"
  /\ pipe' = << >>
  /\ processRunning' = FALSE
  /\ pc' = [pc EXCEPT ![k] = "idle"]
  /\ delivered' = IF transferred[k] THEN delivered \o flowFile[k]
                                    ELSE delivered
  /\ UNCHANGED <<batch, buf, flowFile, transferred, written>>

Task(k) ==
  \/ Check(k) \/ Claim(k) \/ ReadPart(k) \/ ReadFull(k) \/ ReadEnd(k)
  \/ BatchRead(k) \/ Wait(k)

Child == ChildWrite \/ ChildExit

Next == Child \/ \E k \in Tasks : Task(k)

\* Each onTrigger runs to its end once started and the scheduler keeps
\* triggering the processor; the child is a process of its own.
Fairness == WF_vars(Child) /\ \A k \in Tasks : WF_vars(Task(k))

Spec == Init /\ [][Next]_vars /\ Fairness

-----------------------------------------------------------------------------
TypeOK ==
  /\ processRunning \in BOOLEAN
  /\ pc \in [Tasks -> {"idle", "checked", "read", "wait"}]
  /\ batch \in [Tasks -> BatchModes]
  /\ buf \in [Tasks -> BoundedSeq(Bytes, BufSize - 1)]
  /\ flowFile \in [Tasks -> Seq(Bytes) \cup {NoFlowFile}]
  /\ transferred \in [Tasks -> BOOLEAN]
  /\ pipe \in BoundedSeq(Bytes, PipeCap)
  /\ written \in 0 .. Len(Output)
  /\ child \in {"none", "alive", "exited", "reaped"}
  /\ delivered \in Seq(Bytes)

\* The triggers that own the child.
Runners == {k \in Tasks : pc[k] \in {"read", "wait"}}

\* The double-checked _processRunning makes the command run once at a
\* time: the flag is set exactly while a single trigger owns a child that
\* has not been reaped, however concurrent triggers interleave.
SingleChild ==
  /\ \A k1, k2 \in Runners : k1 = k2
  /\ processRunning <=> Runners # {}
  /\ processRunning <=> child \in {"alive", "exited"}

\* While the parent reads, every byte the child has written is in exactly
\* one place, in order: committed, in the flow file, in the buffer or in
\* the pipe.  No read path loses or repeats output.
ReadConservesOutput ==
  \A k \in Runners :
    pc[k] = "read" =>
      delivered \o Content(k) \o buf[k] \o pipe = SubSeq(Output, 1, written)

\* Once set, _processRunning is eventually cleared: every command started
\* is reaped and the processor can run it again.
FlagEventuallyCleared == processRunning ~> ~processRunning

\* The command's whole output reaches success once the child is reaped.
OutputDelivered == child = "reaped" => delivered = Output

=============================================================================
