-------------------------------- MODULE Budget --------------------------------
(***************************************************************************)
(* The outbound budgets of one connection.  queue_stream_chunk takes permits  *)
(* of four semaphores, one after the other and each held while it waits for   *)
(* the next: a frame slot and bytes of the stream, a frame slot and bytes of   *)
(* the connection.  The permits travel with the chunk and come back when it    *)
(* leaves the queue, when the call fails or is dropped, and when a reset or     *)
(* the end of the connection drops the queue.                                 *)
(*                                                                           *)
(* The connection's two semaphores serve their waiters in FIFO order and give  *)
(* permits to a waiting future whether or not it is being polled.  send_lock   *)
(* allows one call per stream past the first check.                           *)
(***************************************************************************)
EXTENDS Queues, FiniteSets, Functions

CONSTANTS
  Streams,      \* the open streams, as many as max_open_streams admits
  Stalled,      \* streams whose peer gives no credit
  Idle,         \* streams whose application may stop polling a write
  MaxFrames,    \* max_queued_outbound_frames
  StreamBytes,  \* max_outbound_stream_bytes
  ConnBytes,    \* max_outbound_conn_bytes
  Sizes,        \* bound: the payload lengths each stream writes
  Scenarios     \* bound: sets of optional operations; a behaviour uses one set

ASSUME BudgetAssumption ==
  /\ Stalled \subseteq Streams /\ Idle \subseteq Streams
  /\ IsFiniteSet(Streams) /\ Streams # {}
  /\ MaxFrames \in Nat /\ MaxFrames >= Cardinality(Streams)
  /\ StreamBytes \in Nat \ {0} /\ ConnBytes \in Nat
  /\ StreamBytes <= ConnBytes
  /\ Sizes \in [Streams -> SUBSET Nat]

VARIABLES
  pc,        \* where the stream's call is
  need,      \* its payload length; 0 is a FIN
  slots, bytes,        \* outbound_stream_frames, outbound_stream_bytes
  frames, conn,        \* outbound_frames, outbound_conn_bytes
  frameLine, connLine, \* the calls waiting for them, in order
  queue,     \* by_stream: chunks [size, left]
  terminal,  \* send_terminal
  state,     \* of the connection: "open", "closing", "ended"
  ops        \* the optional operations of this behaviour

permits == <<slots, bytes, frames, conn>>
vars == <<pc, need, permits, frameLine, connLine, queue, terminal, state, ops>>

\* Mutant: every stream may fill the connection's frame slots.
StreamSlotsUndivided == MaxFrames

\* The slots of one stream: its share of the connection's.
StreamSlots == MaxFrames \div Cardinality(Streams)

Init ==
  /\ pc = [s \in Streams |-> "idle"] /\ need = [s \in Streams |-> 0]
  /\ slots = [s \in Streams |-> StreamSlots]
  /\ bytes = [s \in Streams |-> StreamBytes]
  /\ frames = MaxFrames /\ conn = ConnBytes
  /\ frameLine = <<>> /\ connLine = <<>>
  /\ queue = [s \in Streams |-> <<>>]
  /\ terminal = [s \in Streams |-> FALSE]
  /\ state = "open"
  /\ ops \in Scenarios

Goto(s, l) == pc' = [pc EXCEPT ![s] = l]

\* What the call of s holds at each place, what chunks hold.
CallHolds(s) ==
  LET past(ls) == pc[s] \in ls IN
  [slot  |-> IF past({"bytes", "frame", "framed", "conn", "ready"}) THEN 1 ELSE 0,
   bytes |-> IF past({"frame", "framed", "conn", "ready"}) THEN need[s] ELSE 0,
   frame |-> IF past({"framed", "conn", "ready"}) THEN 1 ELSE 0,
   conn  |-> IF pc[s] = "ready" THEN need[s] ELSE 0]

ChunksHold(chunks) ==
  LET size == SumFunction([i \in DOMAIN chunks |-> chunks[i].size])
  IN [slot |-> Len(chunks), bytes |-> size, frame |-> Len(chunks), conn |-> size]

GiveBack(s, h) ==
  /\ slots' = [slots EXCEPT ![s] = @ + h.slot]
  /\ bytes' = [bytes EXCEPT ![s] = @ + h.bytes]
  /\ frames' = frames + h.frame
  /\ conn' = conn + h.conn

-----------------------------------------------------------------------------
(* A call of queue_stream_chunk on stream s. *)

\* ensure_open, send_lock, the checks of send_terminal and of the size.
Begin(s, n) ==
  /\ pc[s] = "idle" /\ state = "open" /\ ~terminal[s]
  /\ n <= StreamBytes
  /\ Goto(s, "slot")
  /\ need' = [need EXCEPT ![s] = n]
  /\ UNCHANGED <<permits, frameLine, connLine, queue, terminal, state, ops>>

\* From the stream's own semaphores to the line for a frame of the connection.
EnterFrameLine(s) == Goto(s, "frame") /\ frameLine' = Append(frameLine, s)

TakeSlot(s) ==
  /\ pc[s] = "slot" /\ slots[s] > 0
  /\ slots' = [slots EXCEPT ![s] = @ - 1]
  /\ IF need[s] = 0 THEN EnterFrameLine(s)
                    ELSE Goto(s, "bytes") /\ UNCHANGED frameLine
  /\ UNCHANGED <<need, bytes, frames, conn, connLine, queue, terminal, state,
                 ops>>

\* Mutant: the stream's byte budget is not enforced.
TakeBytesUnlimited(s) ==
  /\ pc[s] = "bytes"
  /\ bytes' = [bytes EXCEPT ![s] = @ - need[s]]
  /\ EnterFrameLine(s)
  /\ UNCHANGED <<need, slots, frames, conn, connLine, queue, terminal, state,
                 ops>>

TakeBytes(s) ==
  /\ pc[s] = "bytes" /\ bytes[s] >= need[s]
  /\ bytes' = [bytes EXCEPT ![s] = @ - need[s]]
  /\ EnterFrameLine(s)
  /\ UNCHANGED <<need, slots, frames, conn, connLine, queue, terminal, state,
                 ops>>

\* The semaphore serves the head of its line.
GrantFrame ==
  /\ frameLine # <<>> /\ frames > 0
  /\ frames' = frames - 1
  /\ Goto(Head(frameLine), "framed")
  /\ frameLine' = Tail(frameLine)
  /\ UNCHANGED <<need, slots, bytes, conn, connLine, queue, terminal, state,
                 ops>>

\* The call is polled with its frame slot; data then needs connection bytes.
EnterConnLine(s) ==
  /\ pc[s] = "framed"
  /\ IF need[s] = 0
     THEN Goto(s, "ready") /\ UNCHANGED connLine
     ELSE Goto(s, "conn") /\ connLine' = Append(connLine, s)
  /\ UNCHANGED <<need, permits, frameLine, queue, terminal, state, ops>>

GrantConn ==
  /\ connLine # <<>> /\ conn >= need[Head(connLine)]
  /\ conn' = conn - need[Head(connLine)]
  /\ Goto(Head(connLine), "ready")
  /\ connLine' = Tail(connLine)
  /\ UNCHANGED <<need, slots, bytes, frames, frameLine, queue, terminal, state,
                 ops>>

\* enqueue_data takes the chunk with all its permits; a FIN ends the direction.
Enqueue(s) ==
  /\ pc[s] = "ready" /\ state = "open" /\ ~terminal[s]
  /\ LET chunk == [size |-> need[s], left |-> need[s]]
     IN queue' = [queue EXCEPT ![s] = Append(@, chunk)]
  /\ terminal' = [terminal EXCEPT ![s] = need[s] = 0]
  /\ Goto(s, "idle") /\ need' = [need EXCEPT ![s] = 0]
  /\ UNCHANGED <<permits, frameLine, connLine, state, ops>>

\* Mutant: the frame slot of the connection is not returned.
LeaveForgettingFrame(s) ==
  /\ GiveBack(s, [CallHolds(s) EXCEPT !.frame = 0])
  /\ frameLine' = Without(frameLine, s) /\ connLine' = Without(connLine, s)
  /\ Goto(s, "idle") /\ need' = [need EXCEPT ![s] = 0]
  /\ UNCHANGED <<queue, terminal, state, ops>>

\* Mutant: a dropped call keeps its place in the lines.
LeaveInLine(s) ==
  /\ GiveBack(s, CallHolds(s))
  /\ Goto(s, "idle") /\ need' = [need EXCEPT ![s] = 0]
  /\ UNCHANGED <<frameLine, connLine, queue, terminal, state, ops>>

\* The call ends without queueing: permits and places in line are dropped.
Leave(s) ==
  /\ GiveBack(s, CallHolds(s))
  /\ frameLine' = Without(frameLine, s) /\ connLine' = Without(connLine, s)
  /\ Goto(s, "idle") /\ need' = [need EXCEPT ![s] = 0]
  /\ UNCHANGED <<queue, terminal, state, ops>>

\* send_notify or a closed semaphore fails the call.  A close that still drains
\* does not close the stream's own semaphores.
Fail(s) ==
  /\ pc[s] # "idle"
  /\ \/ terminal[s] \/ state = "ended"
     \/ state = "closing" /\ pc[s] \notin {"slot", "bytes"}
  /\ Leave(s)

Cancel(s) == pc[s] # "idle" /\ Leave(s)

-----------------------------------------------------------------------------
(* The writer task, reset and close. *)

\* next_frame sends a byte of the head chunk; the last one releases its permits.
Dispatch(s) ==
  /\ s \notin Stalled /\ queue[s] # <<>>
  /\ LET head == Head(queue[s]) IN
     IF head.left > 1
     THEN /\ queue' = [queue EXCEPT ![s] =
                         <<[size |-> head.size, left |-> head.left - 1]>> \o Tail(@)]
          /\ UNCHANGED permits
     ELSE /\ queue' = [queue EXCEPT ![s] = Tail(@)]
          /\ GiveBack(s, ChunksHold(<<head>>))
  /\ UNCHANGED <<pc, need, frameLine, connLine, terminal, state, ops>>

\* reset_stream: not after a FIN that was dispatched, nor twice.
Reset(s) ==
  /\ state = "open" /\ (terminal[s] => queue[s] # <<>>)
  /\ terminal' = [terminal EXCEPT ![s] = TRUE]
  /\ queue' = [queue EXCEPT ![s] = <<>>]
  /\ GiveBack(s, ChunksHold(queue[s]))
  /\ UNCHANGED <<pc, need, frameLine, connLine, state, ops>>

\* initiate_close(0)
Close ==
  /\ state = "open"
  /\ state' = "closing"
  /\ UNCHANGED <<pc, need, permits, frameLine, connLine, queue, terminal, ops>>

\* mark_closed: the queues are dropped, every semaphore is closed.
End ==
  /\ state # "ended"
  /\ state' = "ended"
  /\ queue' = [s \in Streams |-> <<>>]
  /\ slots' = [s \in Streams |-> slots[s] + ChunksHold(queue[s]).slot]
  /\ bytes' = [s \in Streams |-> bytes[s] + ChunksHold(queue[s]).bytes]
  /\ frames' = frames + SumFunction([s \in Streams |-> ChunksHold(queue[s]).frame])
  /\ conn' = conn + SumFunction([s \in Streams |-> ChunksHold(queue[s]).conn])
  /\ UNCHANGED <<pc, need, frameLine, connLine, terminal, ops>>

-----------------------------------------------------------------------------
Poll(s) ==
  TakeSlot(s) \/ TakeBytes(s) \/ EnterConnLine(s) \/ Enqueue(s) \/ Fail(s)

Next ==
  \/ \E s \in Streams : \E n \in Sizes[s] : Begin(s, n)
  \/ \E s \in Streams : Poll(s)
  \/ GrantFrame \/ GrantConn
  \/ \E s \in Streams : Dispatch(s)
  \/ "cancel" \in ops /\ \E s \in Streams : Cancel(s)
  \/ "reset" \in ops /\ \E s \in Streams : Reset(s)
  \/ "close" \in ops /\ Close
  \/ "end" \in ops /\ End

\* Applications outside Idle poll their calls; the semaphores serve their lines;
\* the writer serves every stream that has credit (Writer's RoundRobin).
Fairness ==
  /\ WF_vars(GrantFrame) /\ WF_vars(GrantConn)
  /\ \A s \in Streams : WF_vars(Dispatch(s))
  /\ \A s \in Streams \ Idle : WF_vars(Poll(s))

Spec == Init /\ [][Next]_vars /\ Fairness

-----------------------------------------------------------------------------
(* Properties. *)

Places == {"idle", "slot", "bytes", "frame", "framed", "conn", "ready"}

\* TypeOK: types; the lines hold exactly the calls that wait in them.
TypeOK ==
  /\ pc \in [Streams -> Places] /\ need \in [Streams -> 0..StreamBytes]
  /\ slots \in [Streams -> 0..StreamSlots]
  /\ bytes \in [Streams -> 0..StreamBytes]
  /\ frames \in 0..MaxFrames /\ conn \in 0..ConnBytes
  /\ Range(frameLine) = {s \in Streams : pc[s] = "frame"}
  /\ Range(connLine) = {s \in Streams : pc[s] = "conn"}
  /\ terminal \in [Streams -> BOOLEAN]
  /\ state \in {"open", "closing", "ended"}

\* BudgetsExact: through failures, cancelled calls, resets and the end of the
\* connection every permit of the four semaphores is available, held by the
\* call that took it or held by a queued chunk, and never returned twice.
BudgetsExact ==
  /\ \A s \in Streams :
       /\ slots[s] + CallHolds(s).slot + ChunksHold(queue[s]).slot = StreamSlots
       /\ bytes[s] + CallHolds(s).bytes + ChunksHold(queue[s]).bytes = StreamBytes
  /\ frames + SumFunction([s \in Streams |->
                             CallHolds(s).frame + ChunksHold(queue[s]).frame]) = MaxFrames
  /\ conn + SumFunction([s \in Streams |->
                           CallHolds(s).conn + ChunksHold(queue[s]).conn]) = ConnBytes

\* FrameSlotFree: a call that has its stream's slot never waits for another
\* stream to free a frame slot of the connection: the per-stream shares of
\* max_queued_outbound_frames keep one stream's small writes from occupying the
\* metadata budget of the others.
FrameSlotFree == \A s \in Streams : pc[s] = "frame" => frames > 0

\* WritesEnd: a write on a stream that has credit and is polled ends, although
\* other streams have no credit and other calls are not polled, when the
\* connection's bytes exceed what those streams may hold (FLOW_CONTROL.md on
\* isolation); no set of calls waits for permits in a circle.
WritesEnd ==
  \A s \in Streams \ (Stalled \cup Idle) : pc[s] # "idle" ~> pc[s] = "idle"

=============================================================================
