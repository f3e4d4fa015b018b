# Formal models of nifi-minifi-cpp

This directory holds TLA+ models of the parts of the MiNiFi C++ agent that
have concurrency, failure handling or protocol state. It also holds TLC
configurations that check those models on small instances, and TLAPS proofs
of every safety invariant the passing runs check, for every value of the
constants.

## The system and its parts

| Part | Source | Model |
|---|---|---|
| Flow control protocol engine | `src/libminifi/src/FlowControlProtocol.cpp` | `FlowControlProtocol` |
| FlowController interface used by the protocol (stop, start, updatePropertyValue) | outside `src/` | three operators of `FlowControlProtocol`, modelled from the spec |
| PutFile processor | `src/libminifi/src/processors/PutFile.cpp` | `PutFile` |
| ProcessSession (get, transfer, read, commit) | outside `src/` | folded into the actions of `PutFile` and `ExecuteProcess` |
| ExecuteProcess processor | `src/libminifi/src/processors/ExecuteProcess.cpp` | `ExecuteProcess` |
| Wire codec (encode/decode) | `FlowControlProtocol.h`, outside `src/` | not modelled: the model works on decoded values |
| SenseHAT, ExecuteJavaClass/JNI, TailFile.h, C2Controller.h, ControllerServiceLookup.h | `src/extensions/...`, headers | not modelled (see below) |
| Test helpers | `src/libminifi/test/unit/*` | not modelled |

These parts interact as follows:

- **Flow control protocol.** The agent talks to a remote controller. The
  owner calls `start()`, which spawns a detached `run()` thread. That thread
  loops while `running_` is set.
  - Each iteration sleeps for `_reportInterval` and then makes one exchange.
  - If the agent is not registered, the exchange is `sendRegisterReq`;
    otherwise it is `sendReportReq`.
  - Every exchange sends a header stamped with `_seqNumber` and reads the
    response header.
  - A response is accepted only if its status is known and its sequence
    number equals `_seqNumber`. Acceptance increments `_seqNumber`.
  - The response then changes the agent's state. It can set `_registered`,
    set a new report interval, update processor properties, stop or start
    the FlowController, or clear `_registered` (TRIGGER_REGISTER).
- **PutFile.** PutFile runs inside the scheduler's onTrigger calls.
  - Each call takes one flow file from the session.
  - It `stat()`s the destination and applies the conflict strategy.
  - To write, it copies the content into a temporary file and `rename()`s
    that file over the destination.
  - The flow file goes to success or failure, and the session is committed.
- **ExecuteProcess.** Concurrent onTrigger calls share `_processRunning`.
  The first call to claim it under `running_lock_` forks the command. It
  then reads the command's output from a pipe into flow files, waits for
  the child, and clears the flag.

## Modules

### `FlowControlProtocol.tla`

**State.** The protocol state is:

- `running_` → `running`
- `_registered` → `registered`
- `_seqNumber` → `seqNumber`, modulo the constant `SeqMod` = 2^width
- `_reportInterval` → `reportInterval`
- `_socket > 0` → `sockOpen`

Each slot of `Threads` is a possible `run()` thread. For each one the model
keeps:

- `pc`, its place: idle, at the loop test, in a request, awaiting a header,
  or reading a payload;
- `op`, which request it is in;
- `sentSeq`, the sequence number of the request it sent;
- `ret`, the return value of its last call.

`flowRunning` and `props` are the FlowController state that the protocol
changes. `crashed` records the null dereference in `connectServer`.

**Actions.** Each of the following is one action:

- `Start` and `Stop`;
- `Exit` and `Dispatch`, the two outcomes of the loop test;
- `RegisterRequest` and `ReportRequest`. Both go through `ConnectAndSend`,
  whose disjuncts are: DNS crash, connect failure, send failure, or sent.
- `RegisterResponse` and `ReportResponse`. Their disjuncts are: header read
  failure, and then one disjunct per status branch of the code. The
  controller may answer any `Headers` value.
- `RegisterPayload` and `ReportPayload`: the payload read either fails, or
  it yields one decoded field (an interval, or a processor/value pair) or an
  unknown field.

Each action includes every close of the socket and every return value on its
path.

**Abstractions.**

- A payload carries at most one field. The loops of the code apply the
  fields one after another, so one field already shows each effect.
- Message encodings and logging are left out.

### `PutFile.tla`

**State.**

- `queue` is the incoming connection.
- `dir` maps each name to None, or to an entry saying whose content the file
  holds and whether the whole content was written.
- `tmp` is the set of tasks whose temporary file exists.
- `tpc`/`tff` say whether a task is between `stat()` and `rename()`, and
  which flow file it holds.
- `success`/`failure` are the committed relationships.

**Actions.**

- `Trigger(k)` is `onTrigger` up to the decision: get, stat, then ignore,
  fail, or construct the ReadCallback.
- `Put(k)` is `putFile`: write (complete or not), rename or rename failure,
  transfer, and unlink.

`PutFile.cpp` contains unresolved merge markers (HEAD vs d6774b3). The two
sides differ only in whether the properties are read in `onSchedule` or in
`onTrigger`. The control flow that is modelled is the same on both sides.

### `ExecuteProcess.tla`

**State.**

- `processRunning` is `_processRunning`.
- For each concurrent trigger the model keeps its place (`pc`), its read
  mode (`batch`, that is `batch_duration_ > 0`), its buffer (`buf`, i.e.
  `buffer[0..totalRead-1]`), its flow file's content and whether it was
  transferred.
- The child is `child`, `written` and `pipe`, a pipe of `PipeCap` bytes.
- `delivered` holds the bytes of the last run committed to success.

**Actions.**

- `Check` is the unlocked flag test at line 137. The property reads, the
  `chdir()` and the argument split before it change nothing the model
  tracks, so they have no counterpart.
- `Claim` takes the lock, re-tests the flag, and then either returns,
  fails in `pipe()`/`fork()`, or forks.
- `ChildWrite` and `ChildExit` are the child's steps.
- The batch loop is `BatchRead`: one flow file per `read()`, committed at
  once.
- The buffered loop is three actions:
  - `ReadPart`: a partial read;
  - `ReadFull`: a full buffer, written or appended, then rewound;
  - `ReadEnd`: end of stream, or `-1` when `ReadCanFail`. It flushes the
    buffer and transfers.
- `Wait` is `wait()`, the close of the read end, clearing the flag, and the
  framework's commit.

**Abstractions.**

- Output bytes are model values. `BufSize` stands for 4096.
- `batch_duration_` is an uninitialised local when the property is absent,
  so the mode is a free choice per trigger.
- `session->create()` is taken to never return null, so its null branches
  are left out.

`FlowControlProtocol`, `PutFile` and `ExecuteProcess` share no state, so no
module composes them.

## Runs

The MC modules instantiate the models:

- `MCFlowControlProtocol` uses a 2-bit `_seqNumber` (`SeqMod = 4`),
  intervals {0, 1}, one processor and two values.
- `MCExecuteProcess` uses a 4-byte output, a 2-byte buffer and a 2-byte
  pipe. The output ends on a buffer boundary, fills the buffer twice, and
  can also be read one byte at a time.
- `MCPutFile` uses three flow files with the same filename. Every one after
  the first therefore meets an existing file.

| Run | cfg | Checks | Result |
|---|---|---|---|
| fcp_single_loop | MCFlowControlProtocol.cfg | TypeOK, OutstandingRequestIsCurrent, SocketOwnedByExchange, StopObserved; DNS failures | pass |
| fcp_restart_race | MCFlowControlProtocolRace.cfg | OutstandingRequestIsCurrent, 2 threads | violation |
| fcp_register_payload_failure | MCFlowControlProtocolRegFail.cfg | RegisterFailureLeavesUnregistered | violation |
| fcp_dns_failure | MCFlowControlProtocolDns.cfg | NoCrash | violation |
| putfile_concurrent | MCPutFile.cfg | TypeOK, FlowFileConservation, AllRouted; 2 tasks | pass |
| putfile_serial_conflicts | MCPutFileSerial.cfg | ConflictNeverOverwritten; 1 task | pass |
| putfile_stat_rename_race | MCPutFileRace.cfg | ConflictNeverOverwritten; 2 tasks | violation |
| putfile_truncated_write | MCPutFileTruncate.cfg | NoTruncatedFile | violation |
| exec_concurrent_triggers | MCExecuteProcess.cfg | TypeOK (buffer below its size, pipe within capacity), SingleChild, ReadConservesOutput, FlagEventuallyCleared; 2 tasks | pass |
| exec_output_on_buffer_boundary | MCExecuteProcessBoundary.cfg | OutputDelivered | violation |
| exec_read_error | MCExecuteProcessReadFail.cfg | FlagEventuallyCleared, read() may return -1 | violation |

What the violations show (details in `PROJECT.json`, "findings"):

1. **Restart race.** `stop()` followed by `start()` while the old loop still
   sleeps gives two `run()` threads on one socket and one sequence number.
   Their requests then go out stale.
2. **Register payload failure.** `sendRegisterReq` sets `_registered`
   before it reads the payload. If the read fails, the call returns -1 but
   the agent stays registered.
3. **DNS failure.** A failed DNS lookup dereferences a null hostent.
4. **PutFile stat/rename race.** With two concurrent tasks, the
   `stat()`/`rename()` gap lets a second file overwrite the first under
   "fail" and "ignore".
5. **Truncated write.** `_writeSucceeded` is set whatever the stream did,
   so PutFile can publish a truncated file.
6. **Output on a buffer boundary.** ExecuteProcess without batching loses
   any output whose length is a multiple of 4096 bytes. The last full buffer
   creates the flow file, but the end-of-stream branch transfers only when
   `totalRead > 0`.
7. **Read error.** ExecuteProcess treats a `read()` error as end of stream
   and waits for a child that is blocked on the full pipe. The trigger
   hangs and `_processRunning` is never cleared.

**Why the bounds are enough.**

- A 2-bit counter wraps after four accepted exchanges. The wrap is inside
  the explored space.
- Two thread slots are enough for the restart race.
- A single processor and two values let an update change something.
- Two PutFile tasks and three same-name flow files give every strategy a
  conflict and a race.

**Deadlock checking is off** in every cfg, because the system can really
stop:

- In the protocol, after `stop()` with an interval of 0, `start()` refuses
  forever. The DNS crash also ends all activity.
- In PutFile, once the queue is empty, every further trigger returns without
  changing anything.
- The ExecuteProcess pass run keeps deadlock checking on, because the
  processor re-runs its command forever. Only the read-error run turns it
  off, because the stuck `wait()` is what that run looks for.

**Fairness.**

- Each `run()` thread is weakly fair. It is a dedicated OS thread: its
  sleep ends and a blocking read eventually returns or fails (the socket
  has a select timeout).
- The ExecuteProcess child is weakly fair, because it is a separate
  process.
- Each PutFile task, and each ExecuteProcess task, is weakly fair. The scheduler keeps triggering a
  processor whose queue is not empty, and a started `onTrigger` runs to its
  end.
- `Start`, `Stop` and the controller's answers are not fair. They are the
  environment.

**Mutants.** Every property of a passing run has a mutant in the module it
checks. The mutant is a plausible bug in the mapped definition, for example:

- incrementing `_seqNumber` before stamping it;
- not closing the socket on FAIL;
- not wrapping the counter;
- ignoring `running_`;
- dropping a `transfer`;
- going on with a null flow file when the queue is empty;
- writing under "ignore";
- yielding instead of routing;
- dropping the test of `_processRunning` under the lock;
- taking a read that exactly fills the buffer for a partial one;
- flushing only the last read's bytes;
- retrying on a zero-byte read.

TLC finds each mutant's property violated.

## Proofs

### `FlowControlProtocolProofs.tla`

The proofs use these assumptions, declared in `FlowControlProtocol`:

- `Threads # {}`
- `SeqMod \in Nat \ {0}`
- intervals are naturals
- `NoField` is distinct from every field value
- `DnsCanFail` is Boolean

The theorems:

- **`TypeCorrect`**: `Spec => []TypeOK`. The proof uses `InitTypeOK`, and
  `NextTypeOK` with one step per action. The lemma `NextSeqInSpace` covers
  the modular increment.
- **`SingleLoopRequestCurrent`** and **`SingleLoopSocketClosed`**: under
  `Threads = {t0}`, `OutstandingRequestIsCurrent` and
  `SocketOwnedByExchange` hold in every state.
  - `OutstandingRequestIsCurrent` alone is not inductive. A thread in
    "request" has already chosen register or report from `_registered`, and
    the socket state must be tied to the exchange.
  - The strengthening `LoopInv` therefore adds the "request" place and
    `SocketOwnedByExchange`. TLC checked it as an invariant before it was
    proved.
  - `LoopInvSingle` reduces `LoopInv` to the one thread.
  - `LoopInvInit` and `LoopInvNext` give induction.
  - The hypothesis `Threads = {t0}` is necessary: the fcp_restart_race run
    shows that the property fails with two loops.

### `ExecuteProcessProofs.tla`

No assumption beyond the ASSUMEs of `ExecuteProcess` is needed: the output
is a sequence, the sizes are positive naturals, the modes are Booleans, and
`NoFlowFile` is not a sequence of bytes.

- **`CommandRunsOnce`**: `Spec => []SingleChild`, for any number of
  triggers.
  - `SingleChild` says that at most one trigger is a runner, and that the
    flag is set exactly when there is one and exactly while its child is
    unreaped. With `PcOK` (every trigger is at one of its places) it is
    inductive.
  - Only `Claim` adds a runner, and only when the flag, re-tested under the
    lock, is clear; by `SingleChild` there is then no runner.
  - Only `Wait` removes the runner, and it clears the flag.
- **`ReadLoopConservesOutput`**: `Spec => []ReadConservesOutput`, for any
  output, buffer size, pipe capacity and number of triggers.
  - The inductive invariant `IInv` has five parts: `PcOK`; `SingleChild`,
    so that no other trigger touches the pipe or `delivered` while one
    reads; `SeqOK`, the shapes of the sequences, `Len(buf[k]) < BufSize`
    and `Len(pipe) <= PipeCap`; `BatchOK`; and `ConsInv`, the conservation
    equation for a reading trigger plus the fact that a batching trigger
    holds neither a buffer nor a flow file.
  - Without the batch clause, `BatchRead` could not be shown to keep the
    equation: it appends to `delivered` directly.
  - The sequence facts come from `SequenceTheorems`: `SplitSeq` (a prefix
    and the rest concatenate back), `AppendStep` (the child's next byte
    extends the written prefix), `ContentAddTo` (write or append to the
    flow file) and `ChunkStep` (moving bytes from the pipe to the buffer).
    `ChunkStep` is stated over the opaque `Cat`, so that the provers apply
    it as it stands.
- **`TypeCorrect`**: `Spec => []TypeOK`, from `PcOK`, `SeqOK` and `CtlOK`
  (the flag, the modes and the child's state). `PipeAfterRead` shows that a
  read only shortens the pipe, and `ShortSeq` turns a sequence with a
  length bound into a member of `BoundedSeq`, the form `TypeOK` uses.

### `PutFileProofs.tla`

These proofs assume that `FlowFiles` is finite and non-empty, and that every
flow file has a filename in `Names`.

- **`TypeCorrect`**: `Spec => []TypeOK`. The initial queue is a sequence
  because `Cardinality(FlowFiles)` is a natural number
  (`FS_CardinalityType`). The step for `Put` splits on whether the rename
  changed the directory.
- **`FlowFilesConserved`**: `Spec => []FlowFileConservation`, for any
  number of tasks and any rename outcomes.
  - `FlowFileConservation` counts the places of a flow file. The inductive
    `PlacesInv` says the same with predicates: every flow file is in
    exactly one of the queue (`InQueue`), one task's write path (`InPut`),
    `success` and `failure`.
  - `PlacesInv` adds two facts: the queue has no repeated entry
    (`QueueDistinct`), and no two tasks hold the same flow file
    (`PutDistinct`). Without them, popping the head could leave another
    copy in the queue, and the counts would not follow from the
    predicates.
  - `QueueCount` and `HeldCount` turn the predicates back into the
    cardinalities. `PopHead` describes `Tail(queue)`. `PlacesInit` shows
    that the initial queue, an injection from `1..Cardinality(FlowFiles)`,
    holds every flow file (`FS_Injection`).
- **`SerialConflictNeverOverwritten`**: `Spec => ConflictNeverOverwritten`
  when `Tasks` is a single task, the case putfile_serial_conflicts checks.
  - `NoConflictPending` says that a task on the write path under "ignore"
    or "fail" has a name with no file in the directory. It holds because
    only that task changes `dir`.
  - From it, `SerialStepKeeps` shows that every step keeps existing files.
  - With two tasks the property is false: see putfile_stat_rename_race.

**Not stated as properties.** Two earlier properties were dropped because
they followed from the shape of the actions and could not see the hazards
they were meant for:

- that every change of `_registered` or of the FlowController's state
  consumes one sequence number. Each exchange is a single atomic step of
  the model, so this held by construction. With two loops, the
  unsynchronised `_seqNumber++` at lines 301 and 394 is hidden by that
  atomicity;
- that a temporary file exists exactly while its task is in `putFile`. The
  unlink is in `~ReadCallback`, so no return path can skip it, and the
  model has no crash that could.

**What stays with TLC:**

- liveness (`StopObserved`, `AllRouted`), because TLAPS does not handle
  fairness or ENABLED;
- `ConflictNeverOverwritten` with more than one task, where it fails;
- `FlagEventuallyCleared`, a liveness property. `OutputDelivered` is not a
  theorem because it is false: see exec_output_on_buffer_boundary.

## Not modelled, and why

- **Byte-level codec.** It is in a header outside `src/`. The payload bugs
  it hides (reading past a short buffer, stale processor/property names
  across triples) are listed as hazards without a property.
- **SenseHAT.** Sensor I/O, with one flow file per trigger and no shared
  state.
- **ExecuteJavaClass/JNI.** It forwards to Java classes that are not in the
  repository.
- **TailFile, C2Controller, ControllerServiceLookup.** Declarations without
  an operation sequence.
- **Test helpers.**

## Plan for the next sittings

1. A spec-modelled `ProcessSession` with commit/rollback, composed with
   `PutFile` and `ExecuteProcess`.
2. An abstract `ProtocolSession` spec (registered / reporting with a
   strictly advancing sequence number), with `FlowControlProtocol` shown to
   refine it under `Threads = {t0}`, by INSTANCE ... WITH and a TLC
   PROPERTY, and then a refinement proof.
