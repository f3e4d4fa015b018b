------------------------- MODULE ExecuteProcessProofs -------------------------
(***************************************************************************)
(* Proofs about ExecuteProcess, for every set of tasks and every output.   *)
(***************************************************************************)
EXTENDS ExecuteProcess, SequenceTheorems, TLAPS

\* The places of a trigger.
Places == {"idle", "checked", "read", "wait"}

\* The part of TypeOK the exclusion argument needs.
PcOK == pc \in [Tasks -> Places]

LEMMA PcInit == Init => PcOK
  BY DEF Init, PcOK, Places

LEMMA PcNext == PcOK /\ [Next]_vars => PcOK'
<1> SUFFICES ASSUME PcOK, [Next]_vars PROVE PcOK'
  OBVIOUS
<1> USE DEF PcOK, Places
<1>1. CASE Child
  BY <1>1 DEF Child, ChildWrite, ChildExit, taskVars
<1>2. ASSUME NEW k \in Tasks, Task(k) PROVE PcOK'
  <2>1. CASE Check(k) \/ Wait(k)
    BY <2>1 DEF Check, Wait
  <2>2. CASE Claim(k)
    BY <2>2 DEF Claim
  <2>3. CASE ReadPart(k) \/ ReadFull(k)
    BY <2>3 DEF ReadPart, ReadFull
  <2>4. CASE ReadEnd(k) \/ BatchRead(k)
    BY <2>4 DEF ReadEnd, BatchRead
  <2>5. QED
    BY <1>2, <2>1, <2>2, <2>3, <2>4 DEF Task
<1>3. CASE UNCHANGED vars
  BY <1>3 DEF vars, taskVars
<1>4. QED
  BY <1>1, <1>2, <1>3 DEF Next

LEMMA SingleChildInit == Init => SingleChild
  BY DEF Init, SingleChild, Runners

\* Only Claim, which sets the flag, adds a runner, and only Wait, which
\* reaps the child and clears the flag, removes one.
LEMMA SingleChildNext == PcOK /\ SingleChild /\ [Next]_vars => SingleChild'
<1> SUFFICES ASSUME PcOK, SingleChild, [Next]_vars PROVE SingleChild'
  OBVIOUS
<1> USE DEF SingleChild, Runners, PcOK, Places
<1>1. CASE ChildWrite
  BY <1>1 DEF ChildWrite, taskVars
<1>2. CASE ChildExit
  BY <1>2 DEF ChildExit, taskVars
<1>3. ASSUME NEW k \in Tasks, Check(k) PROVE SingleChild'
  BY <1>3 DEF Check, childVars
<1>4. ASSUME NEW k \in Tasks, Claim(k) PROVE SingleChild'
  <2>1. CASE pc' = [pc EXCEPT ![k] = "idle"]
             /\ UNCHANGED <<processRunning, childVars>>
    BY <1>4, <2>1 DEF Claim, childVars
  <2>2. CASE ~processRunning /\ processRunning' = TRUE
             /\ pc' = [pc EXCEPT ![k] = "read"] /\ child' = "alive"
    <3>1. Runners = {}
      BY <2>2
    <3>2. Runners' = {k}
      BY <1>4, <2>2, <3>1 DEF Claim
    <3>3. QED
      BY <2>2, <3>2
  <2>3. QED
    BY <1>4, <2>1, <2>2 DEF Claim, childVars
<1>5. ASSUME NEW k \in Tasks,
             ReadPart(k) \/ ReadFull(k) \/ ReadEnd(k) \/ BatchRead(k)
      PROVE  SingleChild'
  BY <1>5 DEF ReadPart, ReadFull, ReadEnd, BatchRead, childVars
<1>6. ASSUME NEW k \in Tasks, Wait(k) PROVE SingleChild'
  <2>1. Runners = {k}
    BY <1>6 DEF Wait
  <2>2. Runners' = {}
    BY <1>6, <2>1 DEF Wait
  <2>3. QED
    BY <1>6, <2>2 DEF Wait
<1>7. CASE UNCHANGED vars
  BY <1>7 DEF vars, taskVars, childVars
<1>8. QED
  BY <1>1, <1>2, <1>3, <1>4, <1>5, <1>6, <1>7 DEF Next, Child, Task

\* However concurrent triggers interleave, the double-checked
\* _processRunning of onTrigger lets at most one of them own a child, and
\* the flag is set exactly while that child has not been reaped.
THEOREM CommandRunsOnce == Spec => []SingleChild
  BY PcInit, PcNext, SingleChildInit, SingleChildNext, PTL DEF Spec


-----------------------------------------------------------------------------
(* The output of a run is conserved while the parent reads.                *)

\* The smaller of two integers.
LEMMA MinOfTwo ==
  ASSUME NEW a \in Int, NEW b \in Int
  PROVE  /\ Min({a, b}) <= a
         /\ Min({a, b}) <= b
  <1>1. \E x \in {a, b} : \A y \in {a, b} : x =< y
    <2>1. CASE a <= b
      BY <2>1
    <2>2. CASE b < a
      BY <2>2
    <2>3. QED
      BY <2>1, <2>2
  <1>2. QED
    BY <1>1 DEF Min

\* A read() of m bytes with m at most the smaller of two limits.
LEMMA WithinMin ==
  ASSUME NEW a \in Nat, NEW b \in Int
  PROVE  /\ Min({a, b}) \in Int
         /\ Min({a, b}) <= a
         /\ Min({a, b}) <= b
  <1>1. Min({a, b}) <= a /\ Min({a, b}) <= b
    BY MinOfTwo
  <1>2. Min({a, b}) \in Int
    BY DEF Min
  <1>3. QED
    BY <1>1, <1>2

\* Bytes read from the pipe are bytes of the output.
LEMMA OutputBytes ==
  ASSUME NEW i \in 1 .. Len(Output)
  PROVE  Output[i] \in Bytes
  BY OutputAssumption DEF Bytes, Range

\* The shapes of the sequences the read loop works on.
SeqOK ==
  /\ buf \in [Tasks -> Seq(Bytes)]
  /\ \A k \in Tasks : Len(buf[k]) < BufSize
  /\ flowFile \in [Tasks -> Seq(Bytes) \cup {NoFlowFile}]
  /\ \A k \in Tasks : transferred[k] => flowFile[k] # NoFlowFile
  /\ transferred \in [Tasks -> BOOLEAN]
  /\ pipe \in Seq(Bytes)
  /\ Len(pipe) <= PipeCap
  /\ delivered \in Seq(Bytes)
  /\ written \in 0 .. Len(Output)

LEMMA SeqOKInit == Init => SeqOK
  BY OutputAssumption, SizeAssumption, EmptySeq DEF Init, SeqOK

\* A prefix and a suffix of a sequence of bytes are sequences of bytes,
\* and the suffix after m bytes is m bytes shorter.
LEMMA SplitSeq ==
  ASSUME NEW s \in Seq(Bytes), NEW m \in 0 .. Len(s)
  PROVE  /\ SubSeq(s, 1, m) \in Seq(Bytes)
         /\ SubSeq(s, m + 1, Len(s)) \in Seq(Bytes)
         /\ SubSeq(s, 1, m) \o SubSeq(s, m + 1, Len(s)) = s
         /\ Len(SubSeq(s, m + 1, Len(s))) = Len(s) - m
  <1>1. SubSeq(s, 1, m) \in Seq(Bytes) /\ SubSeq(s, m + 1, Len(s)) \in Seq(Bytes)
    BY SubSeqProperties
  <1>2. SubSeq(s, 1, m) \o SubSeq(s, m + 1, Len(s)) = SubSeq(s, 1, Len(s))
    <2>1. /\ 1 \in 1 .. Len(s) + 1
          /\ m \in 1 - 1 .. Len(s)
          /\ Len(s) \in m .. Len(s)
      OBVIOUS
    <2>2. QED
      BY <2>1, ConcatAdjacentSubSeq, Zenon
  <1>3. Len(SubSeq(s, m + 1, Len(s))) = Len(s) - m
    BY SubSeqProperties
  <1>4. QED
    BY <1>1, <1>2, <1>3, SubSeqFull

\* Reading m bytes never lengthens the pipe.
LEMMA PipeAfterRead ==
  ASSUME NEW s \in Seq(Bytes), NEW m \in 0 .. Len(s), NEW c \in Nat,
         Len(s) <= c
  PROVE  /\ SubSeq(s, m + 1, Len(s)) \in Seq(Bytes)
         /\ Len(SubSeq(s, m + 1, Len(s))) <= c
  BY SplitSeq

LEMMA SeqOKNext == SeqOK /\ [Next]_vars => SeqOK'
<1> SUFFICES ASSUME SeqOK, [Next]_vars PROVE SeqOK'
  OBVIOUS
<1> USE DEF SeqOK
<1>1. CASE ChildWrite
  <2>1. Output[written + 1] \in Bytes
    BY <1>1, OutputBytes DEF ChildWrite
  <2>2. Len(pipe') = Len(pipe) + 1 /\ pipe' \in Seq(Bytes)
    BY <1>1, <2>1, AppendProperties DEF ChildWrite
  <2>3. Len(pipe') <= PipeCap
    BY <1>1, <2>2, SizeAssumption DEF ChildWrite
  <2>4. QED
    BY <1>1, <2>2, <2>3 DEF ChildWrite, taskVars
<1>2. CASE ChildExit
  BY <1>2 DEF ChildExit, taskVars
<1>3. ASSUME NEW k \in Tasks, Check(k) PROVE SeqOK'
  BY <1>3 DEF Check, childVars
<1>4. ASSUME NEW k \in Tasks, Claim(k) PROVE SeqOK'
  <2>1. CASE UNCHANGED <<buf, flowFile, transferred, pipe, written, delivered>>
    BY <2>1
  <2>2. CASE /\ buf' = [buf EXCEPT ![k] = << >>]
             /\ flowFile' = [flowFile EXCEPT ![k] = NoFlowFile]
             /\ transferred' = [transferred EXCEPT ![k] = FALSE]
             /\ pipe' = << >> /\ written' = 0 /\ delivered' = << >>
    BY <2>2, EmptySeq, SizeAssumption
  <2>3. QED
    BY <1>4, <2>1, <2>2 DEF Claim, childVars
<1>5. ASSUME NEW k \in Tasks, ReadPart(k) PROVE SeqOK'
  <2>1. PICK m \in 1 .. Min({Len(pipe), BufSize - Len(buf[k]) - 1}) :
          /\ buf' = [buf EXCEPT ![k] = buf[k] \o SubSeq(pipe, 1, m)]
          /\ pipe' = SubSeq(pipe, m + 1, Len(pipe))
    BY <1>5 DEF ReadPart
  <2>2. m \in 0 .. Len(pipe) /\ m <= BufSize - Len(buf[k]) - 1
    <3>1. Len(pipe) \in Nat /\ Len(buf[k]) \in Nat
      BY DEF SeqOK
    <3>2. BufSize - Len(buf[k]) - 1 \in Int
      BY <3>1, SizeAssumption
    <3>3. /\ Min({Len(pipe), BufSize - Len(buf[k]) - 1}) \in Int
          /\ Min({Len(pipe), BufSize - Len(buf[k]) - 1}) <= Len(pipe)
          /\ Min({Len(pipe), BufSize - Len(buf[k]) - 1})
               <= BufSize - Len(buf[k]) - 1
      BY <3>1, <3>2, WithinMin, Zenon
    <3>4. m \in 0 .. Len(pipe)
      BY <3>1, <3>3
    <3>5. m <= BufSize - Len(buf[k]) - 1
      BY <3>2, <3>3
    <3>6. QED
      BY <3>4, <3>5
  <2>3. /\ SubSeq(pipe, 1, m) \in Seq(Bytes)
        /\ Len(SubSeq(pipe, 1, m)) = m
    BY <2>2, SubSeqProperties
  <2>4. /\ buf[k] \o SubSeq(pipe, 1, m) \in Seq(Bytes)
        /\ Len(buf[k] \o SubSeq(pipe, 1, m)) = Len(buf[k]) + m
    BY <2>3, ConcatProperties
  <2>5. Len(buf[k] \o SubSeq(pipe, 1, m)) < BufSize
    BY <2>2, <2>4, SizeAssumption DEF SeqOK
  <2>6. /\ SubSeq(pipe, m + 1, Len(pipe)) \in Seq(Bytes)
        /\ Len(SubSeq(pipe, m + 1, Len(pipe))) <= PipeCap
    <3>1. pipe \in Seq(Bytes) /\ PipeCap \in Nat /\ Len(pipe) <= PipeCap
      BY SizeAssumption
    <3>2. m \in 0 .. Len(pipe)
      BY <2>2
    <3>3. QED
      BY <3>1, <3>2, PipeAfterRead, Zenon
  <2>7. QED
    BY <1>5, <2>1, <2>4, <2>5, <2>6 DEF ReadPart
<1>6. ASSUME NEW k \in Tasks, ReadFull(k) PROVE SeqOK'
  <2> DEFINE m == BufSize - Len(buf[k])
  <2>1. m \in 0 .. Len(pipe)
    BY <1>6, SizeAssumption DEF ReadFull
  <2>2. buf[k] \o SubSeq(pipe, 1, m) \in Seq(Bytes)
    BY <2>1, SplitSeq, ConcatProperties
  <2>3. AddTo(flowFile[k], buf[k] \o SubSeq(pipe, 1, m)) \in Seq(Bytes)
    BY <2>2, ConcatProperties DEF AddTo
  <2>4. AddTo(flowFile[k], buf[k] \o SubSeq(pipe, 1, m)) # NoFlowFile
    BY <2>3, NoFlowFileAssumption DEF Bytes
  <2>5. /\ SubSeq(pipe, m + 1, Len(pipe)) \in Seq(Bytes)
        /\ Len(SubSeq(pipe, m + 1, Len(pipe))) <= PipeCap
    <3>1. pipe \in Seq(Bytes) /\ PipeCap \in Nat /\ Len(pipe) <= PipeCap
      BY SizeAssumption
    <3>2. QED
      BY <2>1, <3>1, PipeAfterRead, Zenon
  <2>6. Len(<< >>) < BufSize
    BY SizeAssumption
  <2>7. QED
    BY <1>6, <2>3, <2>4, <2>5, <2>6, EmptySeq DEF ReadFull
<1>7. ASSUME NEW k \in Tasks, ReadEnd(k) PROVE SeqOK'
  <2>1. AddTo(flowFile[k], buf[k]) \in Seq(Bytes)
    BY ConcatProperties DEF AddTo
  <2>2. AddTo(flowFile[k], buf[k]) # NoFlowFile
    BY <2>1, NoFlowFileAssumption DEF Bytes
  <2>3. QED
    BY <1>7, <2>1, <2>2 DEF ReadEnd, childVars
<1>8. ASSUME NEW k \in Tasks, BatchRead(k) PROVE SeqOK'
  <2>1. CASE \E m \in 1 .. Min({Len(pipe), BufSize}) :
               /\ delivered' = delivered \o SubSeq(pipe, 1, m)
               /\ pipe' = SubSeq(pipe, m + 1, Len(pipe))
    <3>1. PICK m \in 1 .. Min({Len(pipe), BufSize}) :
               /\ delivered' = delivered \o SubSeq(pipe, 1, m)
               /\ pipe' = SubSeq(pipe, m + 1, Len(pipe))
      BY <2>1
    <3>2. m \in 0 .. Len(pipe)
      <4>1. Len(pipe) \in Nat /\ BufSize \in Int
        BY SizeAssumption DEF SeqOK
      <4>2. /\ Min({Len(pipe), BufSize}) \in Int
            /\ Min({Len(pipe), BufSize}) <= Len(pipe)
        BY <4>1, WithinMin, Zenon
      <4>3. QED
        BY <3>1, <4>1, <4>2
    <3>3. Len(SubSeq(pipe, m + 1, Len(pipe))) <= PipeCap
      <4>1. pipe \in Seq(Bytes) /\ PipeCap \in Nat /\ Len(pipe) <= PipeCap
        BY SizeAssumption
      <4>2. QED
        BY <3>2, <4>1, PipeAfterRead, Zenon
    <3>4. QED
      BY <1>8, <3>1, <3>2, <3>3, SplitSeq, ConcatProperties DEF BatchRead
  <2>2. QED
    BY <1>8, <2>1 DEF BatchRead
<1>9. ASSUME NEW k \in Tasks, Wait(k) PROVE SeqOK'
  BY <1>9, EmptySeq, ConcatProperties, SizeAssumption DEF Wait
<1>10. CASE UNCHANGED vars
  BY <1>10 DEF vars, taskVars, childVars
<1>11. QED
  BY <1>1, <1>2, <1>3, <1>4, <1>5, <1>6, <1>7, <1>8, <1>9, <1>10
  DEF Next, Child, Task

\* The batch flag a trigger read is a Boolean.
BatchOK == batch \in [Tasks -> BOOLEAN]

LEMMA BatchOKInit == Init => BatchOK
  BY ModeAssumption DEF Init, BatchOK

LEMMA BatchOKNext == BatchOK /\ [Next]_vars => BatchOK'
<1> SUFFICES ASSUME BatchOK, [Next]_vars PROVE BatchOK'
  OBVIOUS
<1>1. ASSUME NEW k \in Tasks, Claim(k) PROVE BatchOK'
  BY <1>1, ModeAssumption DEF Claim, BatchOK
<1>2. QED
  BY <1>1 DEF Next, Child, ChildWrite, ChildExit, Task, Check, ReadPart,
             ReadFull, ReadEnd, BatchRead, Wait, vars, taskVars, BatchOK

\* Two triggers that both own the child are the same trigger.
LEMMA OneRunner ==
  ASSUME SingleChild, NEW j \in Tasks, NEW k \in Tasks,
         pc[j] \in {"read", "wait"}, pc[k] \in {"read", "wait"}
  PROVE  j = k
  BY DEF SingleChild, Runners

\* What a session write or append leaves in the flow file.
LEMMA ContentAddTo ==
  ASSUME NEW ff \in Seq(Bytes) \cup {NoFlowFile}, NEW c \in Seq(Bytes)
  PROVE  /\ AddTo(ff, c) # NoFlowFile
         /\ AddTo(ff, c) = (IF ff = NoFlowFile THEN << >> ELSE ff) \o c
         /\ AddTo(ff, c) \in Seq(Bytes)
  <1>1. CASE ff = NoFlowFile
    BY <1>1, ConcatEmptySeq, NoFlowFileAssumption DEF AddTo, Bytes
  <1>2. CASE ff # NoFlowFile
    BY <1>2, ConcatProperties, NoFlowFileAssumption DEF AddTo, Bytes
  <1>3. QED
    BY <1>1, <1>2

LEMMA ContentSeq ==
  ASSUME SeqOK, NEW k \in Tasks
  PROVE  Content(k) \in Seq(Bytes)
  BY EmptySeq DEF SeqOK, Content

\* The same, as a fact to instantiate.
\* Concatenation of byte sequences is associative.
LEMMA BytesAssoc ==
  ASSUME NEW q1 \in Seq(Bytes), NEW q2 \in Seq(Bytes), NEW q3 \in Seq(Bytes)
  PROVE  (q1 \o q2) \o q3 = q1 \o (q2 \o q3)
  BY ConcatAssociative

LEMMA ConcatAssoc ==
  \A q1, q2, q3 \in Seq(Bytes) : (q1 \o q2) \o q3 = q1 \o (q2 \o q3)
  BY BytesAssoc

\* Concatenation under a name of its own, so that a fact about it is
\* instantiated as it stands.
Cat(s, t) == s \o t

\* Concatenation of byte sequences, under its own name.
LEMMA CatSeq ==
  ASSUME NEW q1 \in Seq(Bytes), NEW q2 \in Seq(Bytes)
  PROVE  Cat(q1, q2) \in Seq(Bytes)
  BY ConcatProperties DEF Cat

LEMMA CatAssoc ==
  ASSUME NEW q1 \in Seq(Bytes), NEW q2 \in Seq(Bytes), NEW q3 \in Seq(Bytes)
  PROVE  Cat(Cat(q1, q2), q3) = Cat(q1, Cat(q2, q3))
  BY BytesAssoc DEF Cat

\* Moving the first m bytes of the pipe to the end of the buffer keeps
\* what the buffer and the pipe hold together.
LEMMA ChunkStep ==
  ASSUME NEW Y \in Seq(Bytes), NEW b \in Seq(Bytes),
         NEW s1 \in Seq(Bytes), NEW s2 \in Seq(Bytes),
         NEW O, Cat(Cat(Y, b), Cat(s1, s2)) = O
  PROVE  Cat(Cat(Y, Cat(b, s1)), s2) = O
  <1>1. /\ Cat(b, s1) \in Seq(Bytes)
        /\ Cat(s1, s2) \in Seq(Bytes)
    BY CatSeq
  <1>2. Cat(Cat(Y, Cat(b, s1)), s2) = Cat(Y, Cat(Cat(b, s1), s2))
    BY <1>1, CatAssoc
  <1>3. Cat(Cat(b, s1), s2) = Cat(b, Cat(s1, s2))
    BY CatAssoc
  <1>4. Cat(Y, Cat(b, Cat(s1, s2))) = Cat(Cat(Y, b), Cat(s1, s2))
    BY <1>1, CatAssoc
  <1>5. QED
    BY <1>2, <1>3, <1>4

\* The child's next byte extends the written prefix of the output.
LEMMA AppendStep ==
  ASSUME NEW Y \in Seq(Bytes), NEW p \in Seq(Bytes),
         NEW w \in 0 .. Len(Output) - 1,
         Y \o p = SubSeq(Output, 1, w)
  PROVE  Y \o Append(p, Output[w + 1]) = SubSeq(Output, 1, w + 1)
  <1> DEFINE x == Output[w + 1]
  <1>1. Output \in Seq(Bytes) /\ x \in Bytes
    BY OutputAssumption, OutputBytes DEF Bytes
  <1>2. Append(p, x) = p \o << x >> /\ << x >> \in Seq(Bytes)
    BY <1>1, AppendIsConcat, AppendProperties, EmptySeq
  <1>3. Y \o (p \o << x >>) = (Y \o p) \o << x >>
    BY <1>2, ConcatAssociative
  <1>4. SubSeq(Output, 1, w + 1) = SubSeq(Output, 1, w) \o << x >>
    <2>1. 1 \in 1 .. Len(Output) /\ w + 1 \in 1 .. Len(Output)
      OBVIOUS
    <2>2. QED
      BY <1>1, <2>1, SubSeqRecursiveSecond
  <1>5. QED
    BY <1>2, <1>3, <1>4

\* The conservation equation of one reading trigger.
Conserved(k) ==
  delivered \o Content(k) \o buf[k] \o pipe = SubSeq(Output, 1, written)

\* A batching trigger never buffers and never holds a flow file.
BatchClean(k) == batch[k] => buf[k] = << >> /\ flowFile[k] = NoFlowFile

ConsInv == \A k \in Tasks : pc[k] = "read" => Conserved(k) /\ BatchClean(k)

\* The inductive invariant: ReadConservesOutput strengthened by the
\* exclusion of SingleChild (no other trigger touches the pipe or the
\* committed bytes while one reads), the shapes of the sequences, and the
\* fact that a batching trigger has nothing of its own.
IInv == PcOK /\ SingleChild /\ SeqOK /\ BatchOK /\ ConsInv

LEMMA ConsInit == Init => ConsInv
  BY DEF Init, ConsInv

\* The sequences a reading trigger's equation is made of.
LEMMA ConsParts ==
  ASSUME SeqOK, NEW k \in Tasks
  PROVE  /\ delivered \o Content(k) \in Seq(Bytes)
         /\ delivered \o Content(k) \o buf[k] \in Seq(Bytes)
  <1>1. Content(k) \in Seq(Bytes)
    BY ContentSeq
  <1>2. QED
    BY <1>1, ConcatProperties DEF SeqOK

\* Every step keeps the equation of the trigger that reads.
LEMMA ConsNext == IInv /\ [Next]_vars => ConsInv'
<1> SUFFICES ASSUME IInv, [Next]_vars, NEW j \in Tasks, pc'[j] = "read"
             PROVE  Conserved(j)' /\ BatchClean(j)'
  BY DEF ConsInv
<1> USE DEF IInv
<1>1. CASE ChildWrite
  <2>1. pc[j] = "read" /\ Conserved(j) /\ BatchClean(j)
    BY <1>1 DEF ChildWrite, taskVars, ConsInv
  <2>2. written \in 0 .. Len(Output) - 1
    BY <1>1 DEF ChildWrite, SeqOK
  <2>3. delivered \o Content(j) \o buf[j] \in Seq(Bytes) /\ pipe \in Seq(Bytes)
    BY ConsParts DEF SeqOK
  <2>4. delivered \o Content(j) \o buf[j] \o Append(pipe, Output[written + 1])
          = SubSeq(Output, 1, written + 1)
    BY <2>1, <2>2, <2>3, AppendStep DEF Conserved
  <2>5. QED
    BY <1>1, <2>1, <2>4 DEF ChildWrite, taskVars, Conserved, BatchClean,
                            Content
<1>2. CASE ChildExit
  BY <1>2 DEF ChildExit, taskVars, ConsInv, Conserved, BatchClean, Content
<1>3. ASSUME NEW k \in Tasks, Check(k) PROVE Conserved(j)' /\ BatchClean(j)'
  <2>1. pc[j] = "read"
    BY <1>3 DEF Check, PcOK
  <2>2. QED
    BY <1>3, <2>1 DEF Check, childVars, ConsInv, Conserved, BatchClean,
                      Content
<1>4. ASSUME NEW k \in Tasks, Claim(k) PROVE Conserved(j)' /\ BatchClean(j)'
  <2>1. CASE pc' = [pc EXCEPT ![k] = "idle"]
             /\ UNCHANGED <<processRunning, batch, buf, flowFile, transferred,
                            childVars, delivered>>
    <3>1. pc[j] = "read"
      BY <2>1 DEF PcOK
    <3>2. QED
      BY <2>1, <3>1 DEF childVars, ConsInv, Conserved, BatchClean, Content
  <2>2. CASE /\ ~processRunning
             /\ \E b \in BatchModes : batch' = [batch EXCEPT ![k] = b]
             /\ pc' = [pc EXCEPT ![k] = "read"]
             /\ buf' = [buf EXCEPT ![k] = << >>]
             /\ flowFile' = [flowFile EXCEPT ![k] = NoFlowFile]
             /\ pipe' = << >> /\ written' = 0 /\ delivered' = << >>
    <3>1. j = k
      BY <2>2 DEF SingleChild, Runners, PcOK
    <3>2. Content(k)' = << >>
      BY <2>2 DEF Content, SeqOK
    <3>3. QED
      BY <2>2, <3>1, <3>2 DEF Conserved, BatchClean, SeqOK
  <2>3. QED
    BY <1>4, <2>1, <2>2 DEF Claim
<1>5. ASSUME NEW k \in Tasks, ReadPart(k) PROVE Conserved(j)' /\ BatchClean(j)'
  <2>1. j = k
    BY <1>5, OneRunner DEF ReadPart, PcOK
  <2>2. PICK m \in 1 .. Min({Len(pipe), BufSize - Len(buf[k]) - 1}) :
          /\ buf' = [buf EXCEPT ![k] = buf[k] \o SubSeq(pipe, 1, m)]
          /\ pipe' = SubSeq(pipe, m + 1, Len(pipe))
    BY <1>5 DEF ReadPart
  <2>3. m \in 0 .. Len(pipe)
    <3>1. Len(pipe) \in Nat /\ Len(buf[k]) \in Nat
      BY DEF SeqOK
    <3>2. BufSize - Len(buf[k]) - 1 \in Int
      BY <3>1, SizeAssumption
    <3>3. /\ Min({Len(pipe), BufSize - Len(buf[k]) - 1}) \in Int
          /\ Min({Len(pipe), BufSize - Len(buf[k]) - 1}) <= Len(pipe)
      BY <3>1, <3>2, WithinMin, Zenon
    <3>4. QED
      BY <3>1, <3>3
  <2>4. /\ SubSeq(pipe, 1, m) \in Seq(Bytes)
        /\ SubSeq(pipe, m + 1, Len(pipe)) \in Seq(Bytes)
        /\ SubSeq(pipe, 1, m) \o SubSeq(pipe, m + 1, Len(pipe)) = pipe
    BY <2>3, SplitSeq DEF SeqOK
  <2>5. Conserved(k)
    BY <1>5 DEF ReadPart, ConsInv
  <2>6. delivered \o Content(k) \in Seq(Bytes) /\ buf[k] \in Seq(Bytes)
    BY ConsParts DEF SeqOK
  <2>8. (delivered \o Content(k) \o (buf[k] \o SubSeq(pipe, 1, m)))
          \o SubSeq(pipe, m + 1, Len(pipe))
        = SubSeq(Output, 1, written)
    <3>1. PICK Y \in Seq(Bytes), s1 \in Seq(Bytes), s2 \in Seq(Bytes) :
            /\ Y = delivered \o Content(k)
            /\ s1 = SubSeq(pipe, 1, m)
            /\ s2 = SubSeq(pipe, m + 1, Len(pipe))
      BY <2>4, <2>6
    <3>2. (Y \o buf[k]) \o (s1 \o s2) = SubSeq(Output, 1, written)
      BY <2>4, <2>5, <3>1 DEF Conserved
    <3>3. (Y \o (buf[k] \o s1)) \o s2 = SubSeq(Output, 1, written)
      <4>1. Cat(Cat(Y, buf[k]), Cat(s1, s2)) = SubSeq(Output, 1, written)
        BY <3>2 DEF Cat
      <4>2. Cat(Cat(Y, Cat(buf[k], s1)), s2) = SubSeq(Output, 1, written)
        BY <2>6, <4>1, ChunkStep
      <4>3. QED
        BY <4>2 DEF Cat
    <3>4. QED
      BY <3>1, <3>3
  <2>9. /\ Content(k)' = Content(k) /\ delivered' = delivered
        /\ batch'[k] = batch[k] /\ ~batch[k]
        /\ buf'[k] = buf[k] \o SubSeq(pipe, 1, m)
        /\ written' = written
    BY <1>5, <2>2 DEF ReadPart, Content, SeqOK
  <2>10. Conserved(k)'
    BY <2>2, <2>8, <2>9 DEF Conserved
  <2>11. BatchClean(k)'
    BY <2>9 DEF BatchClean
  <2>12. QED
    BY <2>1, <2>10, <2>11
<1>6. ASSUME NEW k \in Tasks, ReadFull(k) PROVE Conserved(j)' /\ BatchClean(j)'
  <2> DEFINE m == BufSize - Len(buf[k])
             S1 == SubSeq(pipe, 1, m)
             S2 == SubSeq(pipe, m + 1, Len(pipe))
  <2>1. j = k
    BY <1>6, OneRunner DEF ReadFull, PcOK
  <2>2. m \in 0 .. Len(pipe)
    BY <1>6, SizeAssumption DEF ReadFull, SeqOK
  <2>3. S1 \in Seq(Bytes) /\ S2 \in Seq(Bytes) /\ S1 \o S2 = pipe
    BY <2>2, SplitSeq DEF SeqOK
  <2>4. buf[k] \o S1 \in Seq(Bytes)
    BY <2>3, ConcatProperties DEF SeqOK
  <2>5. Content(k)' = Content(k) \o (buf[k] \o S1)
    BY <1>6, <2>4, ContentAddTo DEF ReadFull, Content, SeqOK
  <2>6. delivered \o Content(k)' \o buf'[k] \o pipe'
          = (delivered \o Content(k) \o (buf[k] \o S1)) \o S2
    <3>1. Content(k) \in Seq(Bytes) /\ delivered \in Seq(Bytes)
      BY ContentSeq DEF SeqOK
    <3>2. delivered \o (Content(k) \o (buf[k] \o S1))
            = delivered \o Content(k) \o (buf[k] \o S1)
      BY <2>4, <3>1, BytesAssoc
    <3>3. delivered \o (Content(k) \o (buf[k] \o S1)) \in Seq(Bytes)
      BY <2>4, <3>1, ConcatProperties
    <3>4. buf'[k] = << >>
      BY <1>6 DEF ReadFull, SeqOK
    <3>5. delivered \o Content(k)' \o buf'[k]
            = delivered \o (Content(k) \o (buf[k] \o S1))
      BY <2>5, <3>3, <3>4, ConcatEmptySeq
    <3>6. QED
      BY <1>6, <3>2, <3>5 DEF ReadFull
  <2>7. (delivered \o Content(k) \o (buf[k] \o S1)) \o S2
          = SubSeq(Output, 1, written)
    <3>1. delivered \o Content(k) \in Seq(Bytes) /\ buf[k] \in Seq(Bytes)
      BY ConsParts DEF SeqOK
    <3>3. Conserved(k)
      BY <1>6 DEF ReadFull, ConsInv
    <3>4. PICK Y \in Seq(Bytes), s1 \in Seq(Bytes), s2 \in Seq(Bytes) :
            /\ Y = delivered \o Content(k)
            /\ s1 = S1
            /\ s2 = S2
      BY <2>3, <3>1
    <3>5. (Y \o buf[k]) \o (s1 \o s2) = SubSeq(Output, 1, written)
      BY <2>3, <3>3, <3>4 DEF Conserved
    <3>6. (Y \o (buf[k] \o s1)) \o s2 = SubSeq(Output, 1, written)
      <4>1. Cat(Cat(Y, buf[k]), Cat(s1, s2)) = SubSeq(Output, 1, written)
        BY <3>5 DEF Cat
      <4>2. Cat(Cat(Y, Cat(buf[k], s1)), s2) = SubSeq(Output, 1, written)
        BY <3>1, <4>1, ChunkStep
      <4>3. QED
        BY <4>2 DEF Cat
    <3>7. QED
      BY <3>4, <3>6
  <2>8. QED
    BY <1>6, <2>1, <2>6, <2>7 DEF ReadFull, Conserved, BatchClean
<1>7. ASSUME NEW k \in Tasks, ReadEnd(k) PROVE Conserved(j)' /\ BatchClean(j)'
  <2>1. j # k /\ pc[j] = "read"
    BY <1>7 DEF ReadEnd, PcOK
  <2>2. FALSE
    BY <1>7, <2>1, OneRunner DEF ReadEnd
  <2>3. QED
    BY <2>2
<1>8. ASSUME NEW k \in Tasks, BatchRead(k) PROVE Conserved(j)' /\ BatchClean(j)'
  <2>1. CASE ReadEnds /\ pc' = [pc EXCEPT ![k] = "wait"]
    <3>1. j # k /\ pc[j] = "read"
      BY <2>1 DEF PcOK
    <3>2. FALSE
      BY <1>8, <3>1, OneRunner DEF BatchRead
    <3>3. QED
      BY <3>2
  <2>2. CASE /\ \E m \in 1 .. Min({Len(pipe), BufSize}) :
                  /\ delivered' = delivered \o SubSeq(pipe, 1, m)
                  /\ pipe' = SubSeq(pipe, m + 1, Len(pipe))
             /\ UNCHANGED pc
    <3>1. PICK m \in 1 .. Min({Len(pipe), BufSize}) :
               /\ delivered' = delivered \o SubSeq(pipe, 1, m)
               /\ pipe' = SubSeq(pipe, m + 1, Len(pipe))
      BY <2>2
    <3> DEFINE S1 == SubSeq(pipe, 1, m)
               S2 == SubSeq(pipe, m + 1, Len(pipe))
    <3>2. j = k /\ pc[k] = "read" /\ batch[k]
      <4>1. pc[j] = "read" /\ pc[k] = "read" /\ batch[k]
        BY <1>8, <2>2 DEF BatchRead
      <4>2. QED
        BY <4>1, OneRunner
    <3>3. m \in 0 .. Len(pipe)
      <4>1. Len(pipe) \in Nat /\ BufSize \in Int
        BY SizeAssumption DEF SeqOK
      <4>2. /\ Min({Len(pipe), BufSize}) \in Int
            /\ Min({Len(pipe), BufSize}) <= Len(pipe)
        BY <4>1, WithinMin, Zenon
      <4>3. QED
        BY <3>1, <4>1, <4>2
    <3>4. S1 \in Seq(Bytes) /\ S2 \in Seq(Bytes) /\ S1 \o S2 = pipe
      BY <3>3, SplitSeq DEF SeqOK
    <3>5. buf[k] = << >> /\ Content(k) = << >>
      BY <3>2 DEF ConsInv, BatchClean, Content
    <3>6. delivered \o pipe = SubSeq(Output, 1, written)
      BY <3>2, <3>5, ConcatEmptySeq DEF ConsInv, Conserved, SeqOK
    <3>7. (delivered \o S1) \o S2 = SubSeq(Output, 1, written)
      <4>1. (delivered \o S1) \o S2 = delivered \o (S1 \o S2)
        BY <3>4, BytesAssoc DEF SeqOK
      <4>2. QED
        BY <3>4, <3>6, <4>1
    <3>8. delivered \o S1 \in Seq(Bytes)
      BY <3>4, ConcatProperties DEF SeqOK
    <3>9. Content(k)' = << >> /\ buf'[k] = << >>
      BY <1>8, <3>5 DEF BatchRead, Content
    <3>10. QED
      BY <1>8, <3>1, <3>2, <3>5, <3>7, <3>8, <3>9, ConcatEmptySeq
      DEF BatchRead, Conserved, BatchClean, ConsInv
  <2>3. QED
    BY <1>8, <2>1, <2>2 DEF BatchRead
<1>9. ASSUME NEW k \in Tasks, Wait(k) PROVE Conserved(j)' /\ BatchClean(j)'
  <2>1. j # k /\ pc[j] = "read"
    BY <1>9 DEF Wait, PcOK
  <2>2. FALSE
    BY <1>9, <2>1, OneRunner DEF Wait
  <2>3. QED
    BY <2>2
<1>10. CASE UNCHANGED vars
  BY <1>10 DEF vars, taskVars, childVars, ConsInv, Conserved, BatchClean,
               Content
<1>11. QED
  BY <1>1, <1>2, <1>3, <1>4, <1>5, <1>6, <1>7, <1>8, <1>9, <1>10
  DEF Next, Child, Task

LEMMA IInvInit == Init => IInv
  BY PcInit, SingleChildInit, SeqOKInit, BatchOKInit, ConsInit DEF IInv

LEMMA IInvNext == IInv /\ [Next]_vars => IInv'
  BY PcNext, SingleChildNext, SeqOKNext, BatchOKNext, ConsNext DEF IInv

LEMMA IInvConserves == IInv => ReadConservesOutput
  BY DEF IInv, ConsInv, Conserved, ReadConservesOutput, Runners

\* Whichever read path the trigger that owns the child takes (partial
\* reads, full buffers written or appended to the flow file, batched
\* flow files committed at once), and however the child's writes
\* interleave with them, every byte the child has written is, in order,
\* committed, in the flow file, in the buffer or still in the pipe.
THEOREM ReadLoopConservesOutput == Spec => []ReadConservesOutput
<1>1. Init => IInv
  BY IInvInit
<1>2. IInv /\ [Next]_vars => IInv'
  BY IInvNext
<1>3. IInv => ReadConservesOutput
  BY IInvConserves
<1>4. QED
  BY <1>1, <1>2, <1>3, PTL DEF Spec

-----------------------------------------------------------------------------
(* Type correctness.  TypeOK bounds the buffer below sizeof(buffer) and    *)
(* the pipe by its capacity; SeqOK carries both bounds, and CtlOK the      *)
(* flag, the batch mode each trigger read and the child's state.           *)

CtlOK ==
  /\ processRunning \in BOOLEAN
  /\ batch \in [Tasks -> BatchModes]
  /\ child \in {"none", "alive", "exited", "reaped"}

LEMMA CtlOKInit == Init => CtlOK
  BY ModeAssumption DEF Init, CtlOK

LEMMA CtlOKNext == CtlOK /\ [Next]_vars => CtlOK'
<1> SUFFICES ASSUME CtlOK, [Next]_vars PROVE CtlOK'
  OBVIOUS
<1>1. ASSUME NEW k \in Tasks, Claim(k) PROVE CtlOK'
  BY <1>1 DEF Claim, CtlOK, childVars
<1>2. QED
  BY <1>1 DEF Next, Child, ChildWrite, ChildExit, Task, Check, ReadPart,
             ReadFull, ReadEnd, BatchRead, Wait, vars, taskVars, childVars,
             CtlOK

\* A sequence no longer than n is a bounded sequence of length n.
LEMMA ShortSeq ==
  ASSUME NEW S, NEW s \in Seq(S), NEW n \in Nat, Len(s) <= n
  PROVE  s \in BoundedSeq(S, n)
<1>1. s \in [1 .. Len(s) -> S] /\ Len(s) \in 0 .. n
  BY LenProperties
<1>2. QED
  BY <1>1 DEF BoundedSeq, SeqOf

LEMMA TypeOKParts == PcOK /\ SeqOK /\ CtlOK => TypeOK
<1> SUFFICES ASSUME PcOK, SeqOK, CtlOK PROVE TypeOK
  OBVIOUS
<1>1. buf \in [Tasks -> BoundedSeq(Bytes, BufSize - 1)]
  <2>1. ASSUME NEW k \in Tasks PROVE buf[k] \in BoundedSeq(Bytes, BufSize - 1)
    <3>1. buf[k] \in Seq(Bytes) /\ BufSize - 1 \in Nat
          /\ Len(buf[k]) <= BufSize - 1
      BY SizeAssumption DEF SeqOK
    <3>2. QED
      BY <3>1, ShortSeq, Zenon
  <2>2. QED
    BY <2>1 DEF SeqOK
<1>2. pipe \in BoundedSeq(Bytes, PipeCap)
  <2>1. pipe \in Seq(Bytes) /\ PipeCap \in Nat /\ Len(pipe) <= PipeCap
    BY SizeAssumption DEF SeqOK
  <2>2. QED
    BY <2>1, ShortSeq, Zenon
<1>3. QED
  BY <1>1, <1>2 DEF PcOK, Places, SeqOK, CtlOK, TypeOK

\* Whatever the output, the buffer size, the pipe capacity and the number
\* of concurrent triggers, a trigger's buffer never holds sizeof(buffer)
\* bytes (bufPtr stays inside buffer[]), the child never has more bytes in
\* the pipe than it holds, and every variable has its type.
THEOREM TypeCorrect == Spec => []TypeOK
<1>1. Init => PcOK /\ SeqOK /\ CtlOK
  BY PcInit, SeqOKInit, CtlOKInit
<1>2. PcOK /\ SeqOK /\ CtlOK /\ [Next]_vars => (PcOK /\ SeqOK /\ CtlOK)'
  BY PcNext, SeqOKNext, CtlOKNext
<1>3. QED
  BY <1>1, <1>2, TypeOKParts, PTL DEF Spec

==============================================================================
