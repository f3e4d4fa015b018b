---------------------------- MODULE PutFileProofs ----------------------------
(***************************************************************************)
(* Proofs about PutFile, for any number of concurrent tasks, flow files    *)
(* and names.                                                              *)
(***************************************************************************)
EXTENDS PutFile, FiniteSetTheorems, SequenceTheorems, TLAPS

LEMMA InitTypeOK == Init => TypeOK
<1> SUFFICES ASSUME Init PROVE TypeOK
  OBVIOUS
<1>1. Cardinality(FlowFiles) \in Nat
  BY FlowFilesAssumption, FS_CardinalityType
<1>2. queue \in Seq(FlowFiles)
  BY <1>1 DEF Init
<1>3. tff \in [Tasks -> FlowFiles]
  BY FlowFilesAssumption DEF Init
<1>4. dir \in [Names -> Entries \cup {None}]
  <2>1. [content |-> Foreign, complete |-> TRUE] \in Entries
    BY DEF Entries
  <2>2. QED
    BY <2>1 DEF Init
<1>5. QED
  BY <1>2, <1>3, <1>4 DEF Init, TypeOK, Strategies

LEMMA NextTypeOK == TypeOK /\ [Next]_vars => TypeOK'
<1> SUFFICES ASSUME TypeOK, [Next]_vars PROVE TypeOK'
  OBVIOUS
<1> USE DEF TypeOK
<1>1. ASSUME NEW k \in Tasks, Trigger(k) PROVE TypeOK'
  <2> DEFINE f == Head(queue)
  <2>1. queue # << >> /\ f \in FlowFiles
    BY <1>1 DEF Trigger
  <2>2. queue' \in Seq(FlowFiles)
    BY <1>1, <2>1 DEF Trigger
  <2>3. QED
    BY <1>1, <2>1, <2>2 DEF Trigger, Route
<1>2. ASSUME NEW k \in Tasks, Put(k) PROVE TypeOK'
  <2> DEFINE f == tff[k]
  <2>1. f \in FlowFiles /\ FileNameOf[f] \in Names
    BY FileNameAssumption
  <2>2. dir' \in [Names -> Entries \cup {None}]
    <3>1. CASE dir' = dir
      BY <3>1
    <3>2. CASE dir' # dir
      <4>1. PICK c \in BOOLEAN :
              dir' = [dir EXCEPT ![FileNameOf[f]] =
                        [content |-> f, complete |-> c]]
        BY <1>2, <3>2 DEF Put, Route
      <4>2. [content |-> f, complete |-> c] \in Entries
        BY <2>1 DEF Entries
      <4>3. QED
        BY <4>1, <4>2, <2>1
    <3>3. QED
      BY <3>1, <3>2
  <2>3. QED
    BY <1>2, <2>1, <2>2 DEF Put, Route
<1>3. CASE UNCHANGED vars
  BY <1>3 DEF vars
<1>4. QED
  BY <1>1, <1>2, <1>3 DEF Next

\* PutFile's state always has its type.
THEOREM TypeCorrect == Spec => []TypeOK
  BY InitTypeOK, NextTypeOK, PTL DEF Spec

-----------------------------------------------------------------------------
(***************************************************************************)
(* Conservation of flow files.  FlowFileConservation counts positions of   *)
(* the queue and holding tasks; it is not inductive as it stands, since a  *)
(* step that pops the head must know the head occurs nowhere else.  The    *)
(* strengthening states the places as predicates: the queue and the        *)
(* holding tasks never repeat a flow file, and each flow file is in        *)
(* exactly one place.                                                      *)
(***************************************************************************)
InQueue(f) == \E i \in 1 .. Len(queue) : queue[i] = f
InPut(f) == \E k \in Tasks : tpc[k] = "put" /\ tff[k] = f

Ind(b) == IF b THEN 1 ELSE 0

OnePlace(f) ==
  Ind(InQueue(f)) + Ind(InPut(f)) + Ind(f \in success) + Ind(f \in failure) = 1

QueueDistinct == \A i, j \in 1 .. Len(queue) : queue[i] = queue[j] => i = j

PutDistinct ==
  \A k, l \in Tasks :
    tpc[k] = "put" /\ tpc[l] = "put" /\ tff[k] = tff[l] => k = l

PlacesInv ==
  /\ TypeOK
  /\ QueueDistinct
  /\ PutDistinct
  /\ \A f \in FlowFiles : OnePlace(f)

\* The positions of f in a queue without repeats: one when f is queued.
LEMMA QueueCount ==
  ASSUME TypeOK, QueueDistinct, NEW f
  PROVE  Cardinality({i \in DOMAIN queue : queue[i] = f}) = Ind(InQueue(f))
<1> DEFINE P == {i \in DOMAIN queue : queue[i] = f}
<1>1. DOMAIN queue = 1 .. Len(queue)
  BY DEF TypeOK
<1>2. CASE InQueue(f)
  <2>1. PICK i \in 1 .. Len(queue) : queue[i] = f
    BY <1>2 DEF InQueue
  <2>2. P = {i}
    BY <1>1, <2>1 DEF QueueDistinct
  <2>3. QED
    BY <1>2, <2>2, FS_Singleton DEF Ind
<1>3. CASE ~InQueue(f)
  <2>1. P = {}
    BY <1>1, <1>3 DEF InQueue
  <2>2. QED
    BY <1>3, <2>1, FS_EmptySet DEF Ind
<1>4. QED
  BY <1>2, <1>3

\* The tasks holding f, when no two tasks hold one flow file: one when f
\* is held.
LEMMA HeldCount ==
  ASSUME PutDistinct, NEW f
  PROVE  Cardinality(HeldBy(f)) = Ind(InPut(f))
<1>1. CASE InPut(f)
  <2>1. PICK k \in Tasks : tpc[k] = "put" /\ tff[k] = f
    BY <1>1 DEF InPut
  <2>2. HeldBy(f) = {k}
    BY <2>1 DEF HeldBy, PutDistinct
  <2>3. QED
    BY <1>1, <2>2, FS_Singleton DEF Ind
<1>2. CASE ~InPut(f)
  <2>1. HeldBy(f) = {}
    BY <1>2 DEF InPut, HeldBy
  <2>2. QED
    BY <1>2, <2>1, FS_EmptySet DEF Ind
<1>3. QED
  BY <1>1, <1>2

\* onSchedule() starts with every flow file queued exactly once.
LEMMA PlacesInit == Init => PlacesInv
<1> SUFFICES ASSUME Init PROVE PlacesInv
  OBVIOUS
<1> DEFINE n == Cardinality(FlowFiles)
<1>1. TypeOK
  BY InitTypeOK
<1>2. n \in Nat
  BY FlowFilesAssumption, FS_CardinalityType
<1>3. PICK s \in [1 .. n -> FlowFiles] :
        /\ \A i, j \in DOMAIN s : i # j => s[i] # s[j]
        /\ queue = s
  BY DEF Init
<1>4. Len(queue) = n /\ QueueDistinct
  BY <1>1, <1>2, <1>3 DEF TypeOK, QueueDistinct
<1>5. \A f \in FlowFiles : InQueue(f)
  <2>1. s \in Injection(1 .. n, FlowFiles)
    BY <1>3 DEF Injection, IsInjective
  <2>2. IsFiniteSet(1 .. n) /\ Cardinality(1 .. n) = n
    BY <1>2, FS_Interval
  <2>3. s \in Surjection(1 .. n, FlowFiles)
    BY <2>1, <2>2, FlowFilesAssumption, FS_Injection
  <2>4. \A f \in FlowFiles : \E i \in 1 .. n : s[i] = f
    BY <2>3 DEF Surjection
  <2>5. QED
    BY <2>4, <1>3, <1>4 DEF InQueue
<1>6. \A f \in FlowFiles : OnePlace(f)
  <2>1. \A f \in FlowFiles : ~InPut(f) /\ f \notin success /\ f \notin failure
    BY DEF Init, InPut
  <2>2. QED
    BY <1>5, <2>1 DEF OnePlace, Ind
<1>7. PutDistinct
  BY DEF Init, PutDistinct
<1>8. QED
  BY <1>1, <1>4, <1>6, <1>7 DEF PlacesInv

\* session->get() pops the head: the rest of the queue keeps its order and
\* loses exactly the head.
LEMMA PopHead ==
  ASSUME TypeOK, QueueDistinct, queue # << >>, queue' = Tail(queue)
  PROVE  /\ queue' \in Seq(FlowFiles)
         /\ QueueDistinct'
         /\ InQueue(Head(queue))
         /\ \A g : InQueue(g)' <=> InQueue(g) /\ g # Head(queue)
<1>1. /\ Len(queue') = Len(queue) - 1
      /\ \A i \in 1 .. Len(queue') : queue'[i] = queue[i + 1]
      /\ queue' \in Seq(FlowFiles)
      /\ Len(queue) \in Nat \ {0}
  BY HeadTailProperties, EmptySeq, LenProperties DEF TypeOK
<1>2. Head(queue) = queue[1]
  OBVIOUS
<1>3. QueueDistinct'
  BY <1>1 DEF QueueDistinct
<1>4. ASSUME NEW g PROVE InQueue(g)' <=> InQueue(g) /\ g # Head(queue)
  <2>1. InQueue(g)' => InQueue(g) /\ g # Head(queue)
    BY <1>1, <1>2 DEF InQueue, QueueDistinct
  <2>2. InQueue(g) /\ g # Head(queue) => InQueue(g)'
    <3> SUFFICES ASSUME NEW i \in 1 .. Len(queue), queue[i] = g,
                        g # Head(queue)
                 PROVE  InQueue(g)'
      BY DEF InQueue
    <3>1. i # 1
      BY <1>2
    <3>2. i - 1 \in 1 .. Len(queue') /\ queue'[i - 1] = g
      BY <1>1, <3>1
    <3>3. QED
      BY <3>2 DEF InQueue
  <2>3. QED
    BY <2>1, <2>2
<1>5. InQueue(Head(queue))
  BY <1>1, <1>2 DEF InQueue
<1>6. QED
  BY <1>1, <1>3, <1>4, <1>5

\* Each step moves at most one flow file, and into a place it was not in.
LEMMA PlacesNext == PlacesInv /\ [Next]_vars => PlacesInv'
<1> SUFFICES ASSUME PlacesInv, [Next]_vars PROVE PlacesInv'
  OBVIOUS
<1>0. TypeOK /\ QueueDistinct /\ PutDistinct /\ TypeOK'
      /\ \A f \in FlowFiles : OnePlace(f)
  BY NextTypeOK DEF PlacesInv
<1>1. ASSUME NEW k \in Tasks, Trigger(k) PROVE PlacesInv'
  <2> DEFINE h == Head(queue)
  <2>1. /\ tpc[k] = "idle" /\ queue # << >> /\ queue' = Tail(queue)
        /\ UNCHANGED <<conflictResolution, dir>>
    BY <1>1 DEF Trigger
  <2>2. /\ QueueDistinct'
        /\ InQueue(h)
        /\ \A g : InQueue(g)' <=> InQueue(g) /\ g # h
        /\ h \in FlowFiles
    BY <1>0, <2>1, PopHead, HeadTailProperties DEF TypeOK
  <2>3. ~InPut(h) /\ h \notin success /\ h \notin failure
    BY <1>0, <2>2 DEF OnePlace, Ind
  \* The branches of onTrigger, each stated by where h goes.
  <2>4. CASE /\ success' = success \cup {h} /\ UNCHANGED <<failure, tpc, tff>>
    <3>1. \A g \in FlowFiles : OnePlace(g)'
      BY <1>0, <2>2, <2>3, <2>4 DEF OnePlace, Ind, InPut
    <3>2. QED
      BY <1>0, <2>2, <2>4, <3>1 DEF PlacesInv, PutDistinct
  <2>5. CASE /\ failure' = failure \cup {h} /\ UNCHANGED <<success, tpc, tff>>
    <3>1. \A g \in FlowFiles : OnePlace(g)'
      BY <1>0, <2>2, <2>3, <2>5 DEF OnePlace, Ind, InPut
    <3>2. QED
      BY <1>0, <2>2, <2>5, <3>1 DEF PlacesInv, PutDistinct
  <2>6. CASE /\ tpc' = [tpc EXCEPT ![k] = "put"]
             /\ tff' = [tff EXCEPT ![k] = h]
             /\ UNCHANGED <<success, failure>>
    <3>1. \A g : InPut(g)' <=> InPut(g) \/ g = h
      BY <1>0, <2>1, <2>6 DEF InPut, TypeOK
    <3>2. PutDistinct'
      BY <1>0, <2>1, <2>3, <2>6 DEF PutDistinct, InPut, TypeOK
    <3>3. \A g \in FlowFiles : OnePlace(g)'
      BY <1>0, <2>2, <2>3, <2>6, <3>1 DEF OnePlace, Ind
    <3>4. QED
      BY <1>0, <2>2, <3>2, <3>3 DEF PlacesInv
  <2>7. QED
    BY <1>1, <2>4, <2>5, <2>6 DEF Trigger, Route
<1>2. ASSUME NEW k \in Tasks, Put(k) PROVE PlacesInv'
  <2> DEFINE f == tff[k]
  <2>1. /\ tpc[k] = "put" /\ tpc' = [tpc EXCEPT ![k] = "idle"]
        /\ UNCHANGED <<queue, tff>>
        /\ \/ success' = success \cup {f} /\ UNCHANGED failure
           \/ failure' = failure \cup {f} /\ UNCHANGED success
    BY <1>2 DEF Put, Route
  <2>2. f \in FlowFiles /\ InPut(f)
    BY <1>0, <2>1 DEF InPut, TypeOK
  <2>3. ~InQueue(f) /\ f \notin success /\ f \notin failure
    BY <1>0, <2>2 DEF OnePlace, Ind
  <2>4. \A g : InPut(g)' <=> InPut(g) /\ g # f
    BY <1>0, <2>1 DEF InPut, PutDistinct, TypeOK
  <2>5. QueueDistinct' /\ PutDistinct' /\ \A g : InQueue(g)' <=> InQueue(g)
    BY <1>0, <2>1 DEF QueueDistinct, PutDistinct, InQueue, TypeOK
  <2>6. \A g \in FlowFiles : OnePlace(g)'
    BY <1>0, <2>1, <2>2, <2>3, <2>4, <2>5 DEF OnePlace, Ind
  <2>7. QED
    BY <1>0, <2>5, <2>6 DEF PlacesInv
<1>3. CASE UNCHANGED vars
  <2>1. UNCHANGED <<queue, tpc, tff, success, failure>>
    BY <1>3 DEF vars
  <2>2. QueueDistinct' /\ PutDistinct'
    BY <1>0, <2>1 DEF QueueDistinct, PutDistinct
  <2>3. \A g : InQueue(g)' = InQueue(g) /\ InPut(g)' = InPut(g)
    BY <2>1 DEF InQueue, InPut
  <2>4. \A g \in FlowFiles : OnePlace(g)'
    BY <1>0, <2>1, <2>3 DEF OnePlace
  <2>5. QED
    BY <1>0, <2>2, <2>4 DEF PlacesInv
<1>4. QED
  BY <1>1, <1>2, <1>3 DEF Next

LEMMA PlacesConserve == PlacesInv => FlowFileConservation
<1> SUFFICES ASSUME PlacesInv, NEW f \in FlowFiles
             PROVE  Cardinality({i \in DOMAIN queue : queue[i] = f})
                      + Cardinality(HeldBy(f))
                      + (IF f \in success THEN 1 ELSE 0)
                      + (IF f \in failure THEN 1 ELSE 0) = 1
  BY DEF FlowFileConservation
<1>1. Cardinality({i \in DOMAIN queue : queue[i] = f}) = Ind(InQueue(f))
  BY QueueCount DEF PlacesInv
<1>2. Cardinality(HeldBy(f)) = Ind(InPut(f))
  BY HeldCount DEF PlacesInv
<1>3. OnePlace(f)
  BY DEF PlacesInv
<1>4. QED
  BY <1>1, <1>2, <1>3 DEF OnePlace, Ind


\* However the concurrent onTrigger tasks interleave, and whatever the
\* strategy, stat() and rename() outcomes, every flow file PutFile received
\* is at every moment queued, held by one task, or committed to exactly one
\* relationship: get(), transfer() and commit() never lose or duplicate one.
THEOREM FlowFilesConserved == Spec => []FlowFileConservation
<1>1. Init => PlacesInv
  BY PlacesInit
<1>2. PlacesInv /\ [Next]_vars => PlacesInv'
  BY PlacesNext
<1>3. PlacesInv => FlowFileConservation
  BY PlacesConserve
<1>4. QED
  BY <1>1, <1>2, <1>3, PTL DEF Spec

-----------------------------------------------------------------------------
(***************************************************************************)
(* Conflicts with one task.  Under "ignore" and "fail" a task reaches the  *)
(* write path only when stat() found no file; ConflictNeverOverwritten     *)
(* holds when nothing can create that file between stat() and rename(),    *)
(* i.e. when onTrigger is not run concurrently.  With two tasks it fails   *)
(* (putfile_stat_rename_race), so the theorem assumes one.                 *)
(***************************************************************************)
NoConflictPending ==
  \A k \in Tasks :
    tpc[k] = "put" /\ conflictResolution # "replace"
      => dir[FileNameOf[tff[k]]] = None

LEMMA PendingInit == Init => NoConflictPending
  BY DEF Init, NoConflictPending

LEMMA PendingNext ==
  ASSUME NEW k0, Tasks = {k0}
  PROVE  TypeOK /\ NoConflictPending /\ [Next]_vars => NoConflictPending'
<1> SUFFICES ASSUME TypeOK, NoConflictPending, [Next]_vars
             PROVE  NoConflictPending'
  OBVIOUS
<1>1. CASE Trigger(k0)
  <2>1. CASE tpc' = [tpc EXCEPT ![k0] = "put"]
    <3>1. tff'[k0] = Head(queue)
          /\ (conflictResolution # "replace"
                => dir[FileNameOf[Head(queue)]] = None)
          /\ UNCHANGED <<conflictResolution, dir>>
      BY <1>1, <2>1 DEF Trigger, Route, TypeOK
    <3>2. QED
      BY <2>1, <3>1 DEF NoConflictPending, TypeOK
  <2>2. CASE tpc' = tpc
    BY <1>1, <2>2 DEF Trigger, NoConflictPending, TypeOK
  <2>3. QED
    BY <1>1, <2>1, <2>2 DEF Trigger, Route
<1>2. CASE Put(k0)
  BY <1>2 DEF Put, NoConflictPending, TypeOK
<1>3. CASE UNCHANGED vars
  BY <1>3 DEF vars, NoConflictPending
<1>4. QED
  BY <1>1, <1>2, <1>3 DEF Next

LEMMA SerialStepKeeps ==
  ASSUME NEW k0, Tasks = {k0}
  PROVE  TypeOK /\ NoConflictPending /\ [Next]_vars
           => [(conflictResolution # "replace") => KeepsExistingFiles]_vars
<1> SUFFICES ASSUME TypeOK, NoConflictPending, [Next]_vars,
                    conflictResolution # "replace"
             PROVE  KeepsExistingFiles \/ UNCHANGED vars
  OBVIOUS
<1>1. CASE Trigger(k0)
  BY <1>1 DEF Trigger, Route, KeepsExistingFiles
<1>2. CASE Put(k0)
  <2> DEFINE f == tff[k0]
  <2>1. dir[FileNameOf[f]] = None
    BY <1>2 DEF Put, NoConflictPending
  <2>2. CASE UNCHANGED dir
    BY <2>2 DEF KeepsExistingFiles
  <2>3. CASE \E c \in BOOLEAN :
               dir' = [dir EXCEPT ![FileNameOf[f]] = [content |-> f, complete |-> c]]
    BY <2>1, <2>3 DEF KeepsExistingFiles, TypeOK
  <2>4. QED
    BY <1>2, <2>2, <2>3 DEF Put, Route
<1>3. CASE UNCHANGED vars
  BY <1>3
<1>4. QED
  BY <1>1, <1>2, <1>3 DEF Next

\* When onTrigger never runs concurrently, PutFile under the "ignore" and
\* "fail" strategies never replaces a file that is already in the output
\* directory: whatever the sequence of flow files, names and rename
\* outcomes, stat() and rename() see the same directory.
THEOREM SerialConflictNeverOverwritten ==
  ASSUME NEW k0, Tasks = {k0}
  PROVE  Spec => ConflictNeverOverwritten
<1>1. Init => TypeOK /\ NoConflictPending
  BY InitTypeOK, PendingInit
<1>2. TypeOK /\ NoConflictPending /\ [Next]_vars
        => (TypeOK /\ NoConflictPending)'
  BY NextTypeOK, PendingNext
<1>3. TypeOK /\ NoConflictPending /\ [Next]_vars
        => [(conflictResolution # "replace") => KeepsExistingFiles]_vars
  BY SerialStepKeeps
<1>4. QED
  BY <1>1, <1>2, <1>3, PTL DEF Spec, ConflictNeverOverwritten

=============================================================================
