# A TLA+ development of muxtls

muxtls multiplexes bidirectional byte streams over one TLS connection. Each
stream and the connection as a whole have credit-based flow control, both sides
have bounded queues, and a connection is run by a small group of tokio tasks.
These modules model one endpoint (`src/muxtls/src/connection.rs`, `flow.rs`,
`stream.rs`, `limits.rs`), the frame codec (`src/muxtls-proto/src`), and one
direction of a stream from the writing to the reading application.

## 1. The system

| part | source | state | operations |
|---|---|---|---|
| receive window | `flow.rs` | three atomics: received, consumed, advertised | receive, consume, needs_update, update |
| outbound queues | `connection.rs`, `WriterState` | control queue, a queue per stream, ready list, whose turn it is, credit, the pending CLOSE | enqueue_data, enqueue_control, reset_stream, initiate_close, shutdown, next_frame |
| stream registry | `connection.rs`, `StreamState` | map of streams, permits, terminal flags of both directions | open_bi, on_remote_open, finish, reset, handle drops, try_retire_stream |
| task group | `spawn_connection_tasks` | closed, terminated, cleanup_started, joined | reader, writer, keepalive, cleanup, supervisor with the drain deadline, mark_closed |
| frame dispatch | `handle_incoming_frame` | peer settings and limits | one branch per frame type |
| inbound queue | `push_inbound`, `read_chunk` | pages of chunks, per-stream notify | push, read, discard, mark_reset |
| accept queue | `accept_bi` | queue of streams, notify | push, pop |
| outbound budgets | `queue_stream_chunk` | four semaphores | acquire in order, release with the chunk |
| adapters | `stream.rs` | mode, buffered chunk, future in progress | poll_read, poll_write, poll_flush, poll_shutdown |
| limits | `limits.rs` | none | validate |
| codec | `muxtls-proto` | none | varint and frame encode, decode, encoded_len |
| endpoint, TLS configuration | `endpoint.rs`, `config.rs` | sockets, rustls configuration | connect, accept |

Interactions that make it hard:

- The reader, every task that drops a received chunk, and the writer share a
  receive window without a lock. Whoever makes an update due must wake the writer.
- Producers in five tasks feed one queue record under a mutex and wake the writer
  through one `Notify`. Some use `notify_one`, the closing paths `notify_waiters`.
- `closed` is often checked before an await and the queue is changed after it.
- Eight callers may run `mark_closed`; each of its awaits is a point where others run.
- A stream leaves the registry when both directions are over; its control frames
  may still be queued then.
- A close drains; the peer, not knowing of it yet, continues.
- Received bytes are counted by two windows and two semaphores, and are given back
  by whoever drops the chunk: a read, the cleanup task or the reader itself.
- A write takes permits of four semaphores one after the other, and may be dropped
  or left unpolled between any two of them.
- `AsyncWrite` reports bytes as written before they are queued.

`PROJECT.json` lists these as hazards, each with the line where it bites and the
properties that cover it.

## 2. Modules

| module | models | grain |
|---|---|---|
| `ReceiveWindow` | one receive window, its reader, consumers and writer | one action per atomic load or store |
| `WriterQueues` | the queue record and the send half of a stream, as operators | one operator per critical section |
| `Writer` | the writer task, all producers, retirement, the closing calls | one action per critical section or await |
| `Shutdown` | the task group, the supervisor, the calls that end a connection | one action per await |
| `Registry` | the map of streams, permits, the accept queue, handles, the cleanup task | one action per lock or await |
| `Outbound` | the send half of one stream: chunk calls, `AsyncWrite`, queue, RESET, drop, close | one action per poll or critical section |
| `Inbound` | the receive half: `push_inbound`, reads, `AsyncRead`, discard, both windows and budgets | one action per lock, store or poll |
| `ByteStream` | the abstract specification: what one direction promises | one action per event |
| `Pipe` | `Outbound`, a transport and `Inbound`, composed; implements `ByteStream` | |
| `Budget` | the four semaphores a write passes | one action per acquisition |
| `Framing` | sizes: `encoded_len`, `validate`, the payload search, the room in a frame, the CLOSE reason | one action per call, or iteration of a loop |
| `Codec` | the bytes of varints and frames, on the frames `Framing` sends | pure operators |
| `Queues` | queues without duplicates, as the writer and the semaphores keep them | pure operators |
| `MC*` | what TLC needs beyond them | |
| `*Proofs`, `*Steps`, `DataLemmas` | theorems and lemmas (section 4) | |

Optional operations (ends, faults, interfaces) are grouped by the constant
`Scenarios`, a set of sets: each behaviour uses the operations of one of them,
chosen in `Init`. This bounds combinations; each run lists its own.

### ReceiveWindow

`received`, `consumed` and `advertised` are the three atomics; `buffered` is what
is in chunks; `next` and `old` are the locals of `needs_update` in each task;
`grant` is the local of `update`. `permit` is the stored permit of the writer's
`Notify`. `announced` is the last total the peer has seen. `Window` is the
configured size, `MaxCredit` stands for `VarInt::MAX` and credit saturates there.
The peer may send any amount at any time, more than it may included.

Only the reader writes `received`, so the compare-exchange loop of `receive` is a
load with its test and a commit. Both windows of a frame are instances of this
module; a frame passes the connection's and then the stream's.

Accesses are sequentially consistent in the model. The code uses acquire and
release. A consumer's write of `consumed` followed by its read of `received`, and
the reader's write of `received` followed by its read of `consumed`, may be
reordered by such orderings (store buffering), in which case both may miss the
exhausted-credit case. That is outside this model.

### WriterQueues and Writer

A frame is a record of type, stream, length and FIN; a payload is its length;
the room a STREAM frame has is one constant, `FrameCapacity`. `q` is the struct
`WriterQueues`, `st` the atomics of the send half of each stream. Streams with
an even number are opened locally. The `Notified` future of `next_frame` exists
from `Arm` on; `Poll` is its first poll, which takes a stored permit or registers
the task. Semaphores of `queue_stream_chunk` are in `Budget`: here a chunk comes
with its permits in hand.

Apart from `open_bi`, producers look at `closed` before they wait for the queue
lock, so that in the model only `closing`, read under the lock, stops them.
`finish` queues the FIN in one step and stores `send_terminal` in a later one, as
the code does. The cleanup task decides on STOP_SENDING (`DropRecv`) before it
waits for the queue lock (`StopSending`).

The peer conforms: its credit frames and the end of its direction come for
streams it has seen (`PeerKnows`). What a frame that breaks the rules does, the
reader's `initiate_close(1)`, is the action `InitiateClose`. A producer that finds
the control queue full calls `mark_closed` (the third case of `MarkClosed`).

`accepted`, `opened`, `ended`, `dataRun`, `controlRun` and `passed` are history
variables; no guard reads them, except that `accepted` carries the bound
`MaxBytes`, and a peer has seen a local stream if it is in `opened`.

### Shutdown

The queue is a count of control frames, whether data is queued, and the pending
CLOSE. `next_frame` returns a control frame whatever the credit, so that the writer
takes it as soon as it is polled (`WriterTakeControl`); whether credit lets data go is
left open (`WriterTakeData` is never forced). Waiting for a `Notify` is a
guard: `wait_terminated` creates its future before it looks at the flag, and
`Writer` checks the writer's own wait. `mark_closed` is four actions, one up to
each await: flags and election, `writer.shutdown`, taking the map, telling the
streams. The deadline is a future polled by the supervisor, so that
`SupervisorJoined` stops it wherever it is. Panics of tasks are left out.

### Registry

Reader, writer and cleanup task retire streams (`Retire`), each on its own. A
retirement looks at the flags, gives the permit back, and removes the stream from
the map, each under its own lock. A reset only queues a RESET; the writer that has
sent it stores `send_complete` and retires. The cleanup task takes a snapshot of the map
and goes through it (`CleanerWake`, `CleanerNext`, `CleanerSend`, `CleanerRecv`);
`dropNote` is the stored permit of `drop_notify`. Ends of a direction come from
FIN, RESET and STOP_SENDING of either side. The connection stays open, apart from
the reader's failure when an OPEN finds no permit or no place, and from a full control
queue. That queue is not modelled here: with "full" among the operations a RESET or
STOP_SENDING may find it full at any time. The reader then fails, a dropped receive handle
ends the connection (the cleanup task stands at "failed"), `SendStream::reset` returns
the error, and `handle_last_send_drop` ignores it, which the history variable
`refused` records.

### Outbound, Inbound, Pipe

A payload is a sequence of byte numbers, so that loss, repetition and reordering
are visible. One stream has the connection to itself: other streams would only
lower the connection's credit. A poll of a `send_stream_chunk` future either queues
its chunk or fails; what it waits for is in `Budget`. `finish` queues the FIN and
stores `send_terminal` later, and a reset may fall in between. On the receiving
side the permits of both budgets, both windows, the pages in which small payloads
are collected, partial `poll_read`s and the `Drop` of a chunk are separate steps.
A full control queue, which other streams may cause, refuses the reset of a dropped
handle (`CleanSend`) and ends the connection when STOP_SENDING arrives (`RecvStop`).

The transport is ordered and reliable until the connection ends, as TLS over TCP
is. A lost sender and a CLOSE look the same to the receiver. A graceful close that
meets STOP_SENDING ends at once, as in run `ShutdownDrain`. A receive handle that
is dropped after the stream has left the map is not seen by the cleanup task; its
chunks go with the `StreamState`, with the effect of `DiscardChunks`.

`ByteStream` has four variables: how many bytes were accepted, how the sender ended
the direction, what the reader got, and what it was told. Its actions say that
bytes come in order and once, that end of file is reported after the last byte of
a finished direction only, that a reset is reported only if there was one, and that
nothing is accepted after FIN. The mapping is the identity except for `ending`,
which is "reset" if RESET was queued, else "fin" if FIN was. Both sides' loss
of the connection stutters: the reader gets an error and no end.

### Budget

`slots` and `bytes` are the stream's semaphores, `frames` and `conn` the
connection's, with their FIFO lines. A permit is handed to the first in line whether
or not its future is polled. `Stalled` streams get no credit and `Idle` streams may
never be polled again.

### Framing and Codec

`Radix` is the number of values of a byte. The proofs hold for every radix of at
least four; TLC uses sixteen, so that all four varint widths are small numbers.
A reason is its length and the positions between its characters. `Codec` evaluates
`Frame::encode` and `Frame::decode` on each frame handed to the transport, and on
what is left of it when it is cut or extended. `decode` accepts a varint in
more bytes than it needs, so that `Unambiguous` is about what is sent.

## 3. What TLC checks

| run | checks | bounds |
|---|---|---|
| `ReceiveWindow` | types; the buffer is bounded, a conforming peer is accepted, no update is lost, credit never shrinks and reaches the peer when it is due | window 3, credit up to 5, one consumer |
| `WriterSchedule` | credit on both levels, round robin, control and data alternate | three streams of both sides, two chunks of a byte each, connection credit short by two until MAX_DATA, a PING and a due update |
| `WriterEnds` | types; the writer never sleeps on work, ready list, a direction ends once, CLOSE follows the drain, a drain stops only for want of credit | one stream, a chunk of two bytes, stream credit short by one until MAX_STREAM_DATA; four scenarios of ends |
| `ShutdownAll` | types; one cleaner, nothing queued behind a decided end, no stream published behind the cleanup, `wait_closed` returns unless the cleanup is abandoned beside a sleeping writer | a stream of each side, queue of two, four scenarios of ends and the deadline in each |
| `Pipe` | types; `ByteStream` is implemented, bytes and permits are returned once, a conforming sender is never refused, no read sleeps on something to return | four bytes, writes of up to two, windows of three, one frame in transit each way, six scenarios |
| `Budget` | types; permits balance, a frame slot is always free for a stream within its share, writes end | three streams, one without credit and never polled again; six slots, five bytes, three per stream |
| `Registry` | types; permits come back, streams leave the map, the acceptor is awake, dropped streams retire | two streams of each side, one open at a time, one acceptor, four scenarios, a control queue that may be full in one |
| `Codec` | frames fit, there is room for data, the search is exact, cut chunks are accepted, frames round-trip and are unambiguous | frame sizes around the minimum and the steps of the length field, IDs and numbers of all four widths, one- and three-byte characters |

Why these bounds are enough for the questions asked: a window of three has a
threshold of two, so that the exhausted-credit exception matters, and a total of
nearly two windows covers an update and the saturated last one. Chunks of two bytes
against a frame capacity of one, in `WriterEnds`, cross frames. Three streams are
the fewest in which a stream can be passed over by one other while a third waits.
`MaxControl` is the minimum `validate` accepts for the number of streams. In `Pipe`
four bytes exceed the window of three, so that the last need credit; two writes of
two against a page of three make a page that is appended to and one that is not.
In `Budget` a stalled stream can hold its three of five bytes, which leaves room for
the largest chunk of another. In `Registry` the second stream needs the permit of
the first. In `Codec` the frame sizes 71 and 73 are where the length field of the
largest payload is wider for some stream IDs than for others, and 8 must be refused.

`MaxBytes`, `MaxPings` and `MaxDues` bound histories that are unbounded in the code.
Deadlock is not checked in modules whose system may stop: a connection that has
ended, or whose peer and application do nothing.

Limits of these results that deserve mention:

- `WriterEnds` allows finitely many due updates (`MaxDues`). Without that bound
  `DrainProgresses` fails: an application that goes on reading from a peer that
  goes on sending makes MAX_DATA due again and again, and each one is sent before
  the graceful CLOSE. Only the drain deadline ends such a connection.
- `OpenedBeforeSweep` says that the cleaner finds every local stream, not that it
  has told them when `wait_closed` returns. It may not have: `open_bi` on a full
  queue runs `mark_closed` in the application's task, which the supervisor does not
  join.
- `CreditRespected` is checked where the connection's credit is short. The limits of
  single streams hardly bind in `WriterSchedule` and no stream is reset there;
  `CreditIsRespected` (section 4) covers both.
- `DroppedStreamsRetire` begins when both handles are dropped or already cleaned up,
  and has three exceptions: a FIN that still waits for credit, a reset that the
  control queue refused and that nothing repaired, and a connection that a full queue
  has ended. The second is run `RegistryFull`.
- `AcceptorAwake` is about an open connection; what wakes an `accept_bi` when the
  connection ends, `close_notify`, is not part of `Registry`.
- `AcceptorAwake` and `ReaderAwake` are about one call at a time. Two `accept_bi`
  calls that both find the queue empty before either polls share the one permit that
  two `notify_one` calls leave, and one sleeps beside a queued stream; two
  concurrent `read_chunk` calls do so too.
- `WritesEnd` needs a connection budget above what stalled and unpolled streams may
  hold, by one chunk. `validate` demands only that it is not below one stream's. It
  and `FrameSlotFree` are about a fixed set of open streams: the unpolled write of a
  stream that has been retired keeps its permits while another stream is admitted in
  its place.
- `PermitComesBack` does not say that a conforming peer's OPEN is always admitted.
  The peer may see FIN and open a stream before the writer has recorded
  `send_complete`, and local and remote opens share one semaphore. Likewise a stream
  may be retired while its handles wait in the accept queue, which then is full
  although a permit is free.
- The control queue may be full although its size is what `validate` demands: a
  stream retires while its STOP_SENDING is queued, and those admitted in its place
  need slots of their own (`FLOW_CONTROL.md:84-85` counts three per open stream).
  With `max_open_streams` at three, for example, two retired streams can leave two
  STOP_SENDING behind, and three new ones with a PING then fill the eleven slots before
  each has queued all of its own. Most callers end the connection then; the reset of a dropped
  send handle is refused and forgotten.

### Fairness

`ReceiveWindow` assumes that a task inside an operation finishes it; no step of
these operations blocks. `Writer` assumes that the runtime polls a writer that
can proceed, and that a send completes or fails. `Shutdown` assumes only that
every task that can take a step of its own is polled, and that the deadline's
timer fires; sends, reads, credit and the application are under no assumption, with
one exception: an application whose `open_bi` is inside `mark_closed` goes on polling
that future or drops it.
`Budget` assumes that semaphores serve their line, that the writer dispatches
what has credit, and that callers poll, those of `Idle` streams excepted.
`Registry` assumes that reader, writer (with its transport) and cleanup task
proceed, that a queued RESET is sent, which needs no credit (a FIN may wait behind
data for ever), and that the peer ends a direction it was asked to stop; that one is
strong, since the reader is busy with other frames in between. `Pipe` and `Framing`
have no liveness properties and no fairness.

### Disagreements

Four runs show that the code, as modelled, does not do what a document, a
comment or a test of the repository says. Each comes from the model; none has been
reproduced by running the program.

| run | what happens |
|---|---|
| `WriterOpenOrder` | With another control frame in front of it, OPEN is not urgent: the writer may send the stream's data first. |
| `ShutdownLateOpen` | `on_remote_open` inserts its stream after `mark_closed` took the map; `accept_bi` may hand it out, and nobody tells it. |
| `ShutdownDrain` | An OPEN the peer sent before it knew of the close fails the connection and ends the drain. |
| `RegistryFull` | The reset of a dropped send handle finds the control queue full; the error is ignored after `send_dropped` was cleared, so that the direction never ends and the stream keeps its permit and its place in the map. |

`ShutdownLateOpen` needs a contended lock (or an exhausted cooperative budget) at one
particular await, `RegistryFull` a transport slow enough for the control queue to fill.

Relatives without a run of their own:

- `WaitersWoken` fails in a second way, with `Local = {"a"}`, `Remote = {}` and
  `Scenarios = {{"expire"}}`: the deadline future owns the cleanup and is no longer
  polled after the last join.
- It fails in a third way with `Local = {"a", "b"}`, `Remote = {}` and
  `Scenarios = {{"cancel"}}`. `open_bi` meets a full queue and runs `mark_closed` in the
  application's future. If that is dropped before the map is taken, nobody else takes
  it: the streams are never told. (`wait_closed` may also return while the future is
  still at work.)
- `wait_closed` itself returns after such a drop, since the writer takes what fills the
  queue and then sees `terminated`. The exception is `Abandoned`: the writer emptied the queue
  between `open_bi`'s look and the flag, sleeps, and is woken by nobody.
- The CLOSE that the reader publishes for an error is discarded by the reader's own
  `mark_closed`, unless the writer was faster.

## 4. What is proved

Eight modules hold proofs. A proof module extends the component it is about, so that
a theorem and the run that checks the same property speak of the same definition.

| module | about | rests on |
|---|---|---|
| `ConnectionProofs` | `ReceiveWindow`, `Framing`, `Shutdown` | their assumptions |
| `RegistryProofs` | `Registry` | its assumption |
| `DataLemmas` | sums over sets, queues without duplicates | library theorems on finite sets |
| `BudgetProofs` | `Budget` | `DataLemmas` |
| `PipeSteps`, `PipeProofs` | `Outbound`, `Inbound`, `Pipe`, `ByteStream` | `DataLemmas` |
| `WriterSteps`, `WriterProofs` | `WriterQueues`, `Writer` | `DataLemmas` |

`ConnectionProofs` is one module because its three subjects share no variable: a
receive window, the sizes of frames and the task group are each proved on their own,
one after the other. That is why `ReceiveWindow` and `Framing` name their
specifications `WindowSpec` and `FramingSpec`.

### Receive window

For every window, credit bound, payload bound and set of consumers, from
`WindowAssumption` (a positive window not above the credit bound) and
`TaskAssumption` (the tasks are distinct):

| theorem | statement |
|---|---|
| `WindowTypeCorrect` | `WindowSpec => []WindowTypeOK` |
| `BufferIsBounded` | `WindowSpec => []BoundedBuffer` |
| `ConformingPeerAccepted` | `WindowSpec => []NoFalseRejection` |
| `CreditMonotone` | `WindowSpec => CreditNeverShrinks` |
| `NoUpdateIsLost` | `WindowSpec => []NoLostUpdate` |

`CreditInv` is the inductive invariant behind the first four. Its
parts: every received byte is consumed, in a chunk, or in the reader's hands
(`Conserved`), without which consumers could release more than was received; and
the total `update` loaded lies between what is advertised and what consumption
allows until it is stored (`GrantOK`). The second is what makes the double load in
`update` harmless: consumption only grows and the writer alone stores
`advertised`. `UpdateCovered` is the invariant behind the last theorem: when an
update is due, there is a permit, or the writer is about to look, or some task
inside `needs_update` will answer yes. It is inductive with `CreditInv`: a step
that makes an update due is a consume or a receive, and both go on to
`needs_update` or notify at once.

### Sizes

From `FramingAssumption` (a radix of at least four, limits and numbers that are
naturals, reasons that begin and end between characters):

| theorem | statement |
|---|---|
| `FramesFit` | `FramingSpec => []FrameFits` |
| `SearchIsExact` | `FramingSpec => []LargestPayload` |
| `RoomIsPositive` | `FramingSpec => []RoomForData` |
| `CutChunksAreQueued` | `FramingSpec => []WritesAreAccepted` |

The inductive invariant is `FInv`. The search keeps a payload that fits at `low`,
and none above `high` fits (`SearchInv`); that needs the size of a frame to grow
with its payload, across the steps of the length field, which is a lemma of its own.
What the writer knows of the peer's frame size is never below `MinFrameSize` and, if
the peer's own limit is valid, never above that limit (`ConnInv`); 25 is exactly
what the largest control frame, SETTINGS with three varints of eight bytes, needs. A
reason being cut is within the room that its largest header leaves (`CloseInv`).

### Task group

From `StreamAssumption` (streams of the two sides are distinct, the queue has room
for a frame):

| theorem | statement |
|---|---|
| `CleanupHasOneOwner` | `Spec => []CleanedOnce` |
| `NothingQueuedBehindTheEnd` | `Spec => []NothingLeftQueued` |
| `NoOpenBehindTheSweep` | `Spec => []OpenedBeforeSweep` |
| `TypeCorrect` | `Spec => []TypeOK` |

`SInv` adds the order in which the flags are set (`OrderInv`): whoever cleans has
set `cleanup_started`, the map is taken only after that, and both imply `closed`,
which `open_bi` reads under the locks it publishes under. `TInv` is the same for the
types; the bound on the queue needs that a control frame is queued only below
`MaxControl`.

### Registry

For every set of streams, acceptors and scenarios:

| theorem | statement |
|---|---|
| `PermitsComeBack` | `Spec => []PermitComesBack` |
| `StreamsLeaveTheMap` | `Spec => []LeavesTheMap` |
| `TypeCorrect` | `Spec => []TypeOK` |
| `LoneAcceptorIsAwake` | `Spec => []AcceptorAwake`, if there is one acceptor |

The first two properties are close to inductive. They need that tasks are where their
labels say (`TasksInv`), that a stream about to be inserted is new (`OpenedInv`), and
that a direction whose end is queued or sent has `send_terminal` set or a `finish`
call about to set it (`EndsInv`). The last is what the gap between the queued FIN and
the store comes down to: whoever finds `send_terminal` unset during a retirement
leaves behind a call that still holds the send handle.

That the semaphore never counts below zero or above its limit, a part of `TypeOK`,
needs `PermitInv`: the free permits are those that no stream holds, counted with the
cardinality theorems. `LoneAcceptorIsAwake` has a hypothesis on purpose: with two
acceptors the property is false (section 3). Its invariant adds that a call between
its look at the queue and its first poll finds a stored permit (`LookedInv`).

### Sums and queues

`DataLemmas` proves what the next three parts need of sums (`SumFunctionOnSet`) and
of queues: the sum over a set changes by what one element changes, is monotone, and
is additive; a queue's sum follows its head and its tail; `Append`, `Tail` and removal
keep a queue free of duplicates. The sum is a fold, a recursive function over sets
whose elements `CHOOSE` takes in some order, and the provers cannot instantiate an
induction theorem. Each proof goes by least counterexample instead: if a fact fails
for some subset, it fails for one of least cardinality (`LeastExists`, `LeastNumber`),
and there the recursion equation contradicts it.

### Budgets

For every finite set of streams and every size of the four semaphores, from
`BudgetAssumption` (what `validate` guarantees: a frame slot for each stream, a
connection budget not below a stream's):

| theorem | statement |
|---|---|
| `TypeCorrect` | `Spec => []TypeOK` |
| `BudgetsStayExact` | `Spec => []BudgetsExact` |
| `FrameSlotIsFree` | `Spec => []FrameSlotFree` |

`BInv` is `TypesInv`, `LinesInv` (each line holds exactly the calls that wait for it,
once) and `BudgetsExact` itself: each semaphore's permits and what calls and queued
chunks hold add up to its size. `LinesInv` is needed because a semaphore hands a
permit to the head of its line and not to the call that polls. `FrameSlotIsFree`
follows by counting: a call takes one of its stream's slots before a frame slot, so
that no stream holds more frame slots than its own.

### One direction of a stream

For every window, page, frame, queue and write size, from `OutboundAssumption` and
`InboundAssumption` (sizes are positive, a page is within the stream's window, and
that within the connection's):

| theorem | statement |
|---|---|
| `TypeCorrect` | `Spec => []TypeOK` |
| `BytesReturnedOnce` | `Spec => []ReturnedOnce` |
| `ConformingPeerNeverFails` | `Spec => []PeerNeverFails` |
| `ReaderIsAwake` | `Spec => []ReaderAwake` |
| `PipeImplementsByteStream` | `Spec => ImplementsByteStream` |

The inductive invariant `PInv` follows the bytes from end to end. The bytes of the
call in progress and of the queue continue those that were sent (`SInv`), the
transport's continue those that were received (`WireInv`), the frame at hand, the
chunks and `read_buf` continue those that were read (`ReadInv`); each segment is a run
of consecutive numbers, and runs that meet form a chain. What was received is
consumed or at exactly one place, and whatever is held has its permits
(`AccountInv`). With the grants, which are at most a window ahead of consumption
(`CreditInv`), this is why a sender that keeps to its credit always finds permits.
`NotifyInv` is the argument for `ReaderIsAwake`: a read that is about to wait has
found nothing, and whatever came since has left it a permit or woken it.

`PipeImplementsByteStream` maps each step to a step of `ByteStream` or a stutter
(`SenderRefines`, `ReceiverRefines`, `TransportRefines`). The step that needs the
invariant is the end of file: the reader sees FIN only when every byte before it
has been read, because nothing but CLOSE follows the frame that ends the direction.

`PipeSteps` has the definitions, runs and chains, and the steps of sender and
transport; `PipeProofs` the steps of the receiver, the refinement and the theorems.
The lemmas on steps take the laws of `Bytes`, the sum of chunk lengths, as a
hypothesis (`BytesLaws`). `PipeProofs` proves the laws from `DataLemmas` before the
theorems, which have no such hypothesis.

### Writer

For every finite set of streams, every queue size, chunk, limit and scenario, from
`QueueAssumption` and `WriterAssumption` (these are numbers, a frame has room for a
byte):

| theorem | statement | inductive invariant, with `CoreTypes` and `ReadyMatchesQueues` |
|---|---|---|
| `TypeCorrect` | `Spec => []TypeOK` | `FlagTypes`, `MapTypes` |
| `ReadyListsTheQueues` | `Spec => []ReadyMatchesQueues` | |
| `CreditIsRespected` | `Spec => []CreditRespected` | `CreditInv` |
| `ControlAndDataAlternate` | `Spec => []Alternation` | `AltInv` |
| `StreamsTakeTurns` | `Spec => []RoundRobin` | `PassedInv` |
| `DirectionEndsOnce` | `Spec => []EndIsFinal` | `FinInv`, `EndInv` |
| `GracefulCloseIsLast` | `Spec => []CloseAfterDrain` | `FinInv`, `EndInv`, `CloseInv` |
| `WriterSleepsWhenIdle` | `Spec => []NeverSleepsOnWork` | `FlagTypes`, `SleepInv` |

The actions are first classified by what they do to the queues, the credit
and the turn (`Step`, lemma `EveryStep`), and the invariants are proved from the
classification. `PassedInv` is round robin as a potential: a stream at place i of the
ready list has been passed over by at most N - i others, so that each time it is
passed over it must have moved forward. `CloseInv` says that what was accepted before
a graceful close is sent or still queued, and that next_frame hands out the CLOSE
when nothing is. `SleepInv` is the wake-up argument: between the evaluation of the
queues and the first poll of the `Notified` future, every producer that gives the
writer something to do leaves a permit or marks the future.

As for `Pipe`, the lemmas on steps take laws of sums and lists as hypotheses
(`ReadyLaws`, `CreditLaws`, `ChunkLaws`), which lemma `Laws` proves from `DataLemmas`.

### Only model-checked

- Liveness (`DueCreditIsGranted`, `DrainProgresses`, `TerminatesUnlessAbandoned`,
  `WritesEnd`, `DroppedStreamsRetire`): the proof system has no reasoning about
  fairness.
- `RoundTrip` and `Unambiguous` of `Codec`: its operators are recursive over
  sequences of bytes, and what they compute for every input needs induction.
- The disagreements of section 3, which are counterexamples.

## 5. Not modelled

- `endpoint.rs`: `connect` and `accept` are a straight line of socket and TLS calls
  under one timeout, after checks of the configured durations. They keep no state
  and share none between connections; what they hand over, limits that passed
  `validate`, is where `Framing` begins.
- `config.rs`: builds rustls configurations.
- Errors, statistics, logging: wording, counters nothing depends on.
- Frames that break the protocol: every such frame ends in the reader's error path,
  one action (`ReaderError` in `Shutdown`). Which error it is is not modelled.
- Time: timers are actions that may happen. Durations are not compared.
- Weak memory: accesses are sequentially consistent (see `ReceiveWindow` above).
- Panics of tasks, and the runtime itself beyond `Notify`, `Semaphore`, `Mutex` and
  cancellation at an await.
- Fuzz targets, the benchmark and the examples: drivers of what is modelled.
- Several streams end to end: `Writer` has the competition of streams for credit and
  turns, `Pipe` one stream through both endpoints. A composition of both is beyond
  what TLC can enumerate at bounds where credit matters.
