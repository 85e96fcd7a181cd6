------------------------------- MODULE Writer -------------------------------
(***************************************************************************)
(* The writer task of one connection and everything that feeds it: the       *)
(* application (open, write, finish, reset, close, abort), the cleanup and   *)
(* keepalive tasks, the frames of a conforming peer that change credit, and  *)
(* the end of the connection.                                                *)
(***************************************************************************)
EXTENDS WriterQueues, Functions

CONSTANTS
  MaxOpen,     \* limits.max_open_streams
  Lengths,     \* payload lengths the application writes
  InitialConn, InitialStream,    \* limits in the peer's SETTINGS
  ConnLimits, StreamLimits,      \* limits in its MAX_DATA, MAX_STREAM_DATA
  MaxBytes,    \* bound: bytes accepted per stream
  MaxPings,    \* bound: keepalive ticks
  MaxDues,     \* bound: times a receive window comes to owe an update
  Scenarios    \* bound: sets of optional operations; a behaviour performs
               \* those of one set

ASSUME WriterAssumption ==
  /\ Lengths \cup ConnLimits \cup StreamLimits \subseteq Nat
  /\ InitialConn \in Nat /\ InitialStream \in Nat
  /\ MaxPings \in Nat /\ MaxDues \in Nat

VARIABLES
  q, st,       \* the queues and the per-stream send state
  closed, terminated, cleaned,   \* cleaned: mark_closed has emptied the state
  ids,         \* stream IDs assigned so far by either side
  streams,     \* streams in the connection's map
  held,        \* streams that hold an open_streams permit
  fins,        \* streams whose FIN finish has queued
  complete,    \* streams with send_complete set
  recvTerminal, discarded,  \* streams with recv_terminal, recv_discarded set
  stopping,    \* stream for which the cleanup task is about to queue STOP
  connDue, due,  \* receive windows whose update is due
  dues,
  pc, frame,   \* the writer task, and the frame in its hands
  permit,      \* writer.notify: stored notify_one permit
  woken,       \* writer.notify: the writer's Notified future has been woken
  pings,
  ops,         \* the optional operations of this behaviour
  accepted,    \* history: bytes accepted per stream
  opened,      \* history: streams whose OPEN the transport has taken
  ended,       \* history: streams whose FIN or RESET has been sent
  dataRun,     \* history: data frames since control work began to wait
  controlRun,  \* history: control frames since data could be sent
  passed       \* history: data frames of others since a stream could send

life == <<closed, terminated, cleaned>>
windows == <<recvTerminal, discarded, stopping, connDue, due, dues>>
map == <<ids, streams, held, complete>>
notify == <<permit, woken>>
bound == <<pings, ops>>
runs == <<dataRun, controlRun, passed>>
history == <<accepted, opened, ended, runs>>
vars == <<q, st, life, map, fins, windows, pc, frame, notify, bound, history>>

Local(s) == s % 2 = 0

Init ==
  /\ q = InitQueues
  /\ st = [s \in Streams |-> InitStream]
  /\ closed = FALSE /\ terminated = FALSE /\ cleaned = FALSE
  /\ ids = {} /\ streams = {} /\ held = {} /\ fins = {} /\ complete = {}
  /\ recvTerminal = {} /\ discarded = {} /\ stopping = {}
  /\ connDue = FALSE /\ due = {} /\ dues = 0
  /\ pc = "arm" /\ frame = NoFrame
  /\ permit = FALSE /\ woken = FALSE
  /\ pings = 0 /\ ops \in Scenarios
  /\ accepted = [s \in Streams |-> 0]
  /\ opened = {} /\ ended = {}
  /\ dataRun = 0 /\ controlRun = 0
  /\ passed = [s \in Streams |-> 0]

\* Notify::notify_one wakes the registered task or stores one permit.
NotifyOne ==
  IF pc = "wait" /\ ~woken
  THEN woken' = TRUE /\ UNCHANGED permit
  ELSE permit' = TRUE /\ UNCHANGED woken

\* Notify::notify_waiters reaches a Notified that has been created, and
\* stores nothing.
NotifyWaiters ==
  /\ woken' = (woken \/ pc \in {"eval", "poll", "wait"})
  /\ UNCHANGED permit

-----------------------------------------------------------------------------
(* Producers: application, cleanup task, keepalive task, reader task.  Apart
   from open_bi they check closed before they wait for the queue lock, so under
   the lock only closing stops them; a chunk for a stream that has been reset
   meanwhile is refused there too. *)

\* Streams of one side are opened in ID order.
NextOfItsSide(s) ==
  /\ s \notin ids
  /\ \A t \in Streams : t < s /\ t % 2 = s % 2 => t \in ids

\* A stream needs a permit: open_bi waits for one, the peer's OPEN must find
\* one.
Insert(s) ==
  /\ Cardinality(held) < MaxOpen
  /\ held' = held \cup {s}
  /\ ids' = ids \cup {s}
  /\ streams' = streams \cup {s}
  /\ UNCHANGED complete

\* open_bi publishes the stream and its OPEN together.  On a full queue it
\* calls mark_closed instead, as the other control producers do.
OpenBi(s) ==
  /\ Local(s) /\ NextOfItsSide(s)
  /\ ~closed /\ ~q.closing /\ Len(q.control) < MaxControl
  /\ q' = EnqueueControl(q, Frame("open", s))
  /\ Insert(s)
  /\ NotifyOne
  /\ UNCHANGED <<st, life, fins, windows, pc, frame, bound, history>>

\* on_remote_open: the peer's stream is registered.
RemoteOpen(s) ==
  /\ ~Local(s) /\ NextOfItsSide(s)
  /\ q.settings /\ ~closed
  /\ Insert(s)
  /\ UNCHANGED <<q, st, life, fins, windows, pc, frame, notify, bound, history>>

\* queue_stream_chunk with its permits in hand, up to the end of enqueue_data.
\* send_lock keeps other writers out until FinishStore.
SendChunk(s, n, fin) ==
  /\ s \in ids \ fins
  /\ ~q.closing /\ ~st[s].terminal
  /\ accepted[s] + n <= MaxBytes
  /\ q' = EnqueueData(q, s, [len |-> n, fin |-> fin])
  /\ fins' = IF fin THEN fins \cup {s} ELSE fins
  /\ accepted' = [accepted EXCEPT ![s] = @ + n]
  /\ NotifyOne
  /\ UNCHANGED <<st, life, map, windows, pc, frame, bound, opened, ended, runs>>

\* ... and the store of send_terminal that follows a queued FIN.
FinishStore(s) ==
  /\ s \in fins /\ ~st[s].terminal
  /\ st' = [st EXCEPT ![s].terminal = TRUE]
  /\ UNCHANGED <<q, life, map, fins, windows, pc, frame, notify, bound, history>>

\* reset_stream: by the application, a dropped handle, or STOP_SENDING.
ResetStream(s) ==
  /\ s \in ids
  /\ ~q.closing
  /\ ~st[s].dispatched /\ ~st[s].resetQueued
  /\ Len(q.control) < MaxControl
  /\ q' = QueueReset(q, s)
  /\ st' = [st EXCEPT ![s].resetQueued = TRUE, ![s].terminal = TRUE]
  /\ NotifyOne
  /\ UNCHANGED <<life, map, fins, windows, pc, frame, bound, history>>

\* The keepalive task's tick; a PING that is queued already is enough.
KeepAlive ==
  /\ pings < MaxPings
  /\ ~q.closing
  /\ pings' = pings + 1
  /\ q' = EnqueueControl(q, Ping)
  /\ Len(q'.control) <= MaxControl
  /\ IF q' = q THEN UNCHANGED notify ELSE NotifyOne
  /\ UNCHANGED <<st, life, map, fins, windows, pc, frame, ops, history>>

\* The peer has sent its SETTINGS and has seen the stream: it opened it, or
\* its OPEN is with the transport.
PeerKnows(s) ==
  /\ q.settings /\ ~terminated
  /\ s \in ids
  /\ ~Local(s) \/ s \in opened \/ frame = Frame("open", s)

\* The peer's SETTINGS, MAX_DATA and MAX_STREAM_DATA.
RecvSettings(limit, initial) ==
  /\ ~q.settings /\ ~terminated
  /\ q' = [q EXCEPT !.settings = TRUE, !.peerLimit = limit, !.initialLimit = initial]
  /\ NotifyOne
  /\ UNCHANGED <<st, life, map, fins, windows, pc, frame, bound, history>>

RecvMaxData(m) ==
  /\ q.settings /\ ~terminated
  /\ q' = [q EXCEPT !.peerLimit = Max2(@, m)]
  /\ NotifyOne
  /\ UNCHANGED <<st, life, map, fins, windows, pc, frame, bound, history>>

\* Credit for a stream that has been retired changes nothing.
RecvMaxStreamData(s, m) ==
  /\ PeerKnows(s)
  /\ st' = IF s \in streams THEN [st EXCEPT ![s].peerLimit = Max2(@, m)] ELSE st
  /\ NotifyOne
  /\ UNCHANGED <<q, life, map, fins, windows, pc, frame, bound, history>>

\* A receive window comes to owe an update (see ReceiveWindow).
ConnCreditDue ==
  /\ ~connDue /\ dues < MaxDues
  /\ \E s \in ids : PeerKnows(s)
  /\ connDue' = TRUE
  /\ dues' = dues + 1
  /\ NotifyOne
  /\ UNCHANGED <<q, st, life, map, fins, recvTerminal, discarded, stopping, due,
                 pc, frame, bound, history>>

StreamCreditDue(s) ==
  /\ s \in streams \ (recvTerminal \cup discarded \cup due) /\ dues < MaxDues
  /\ PeerKnows(s)
  /\ due' = due \cup {s}
  /\ dues' = dues + 1
  /\ NotifyOne
  /\ UNCHANGED <<q, st, life, map, fins, recvTerminal, discarded, stopping, connDue,
                 pc, frame, bound, history>>

\* Mutant: a retired stream's receive window stays registered.
RetireKeepingWindow(s) ==
  LET over == s \in streams \cap complete' \cap recvTerminal'
  IN  /\ held' = IF over THEN held \ {s} ELSE held
      /\ streams' = IF over /\ st[s].terminal THEN streams \ {s} ELSE streams
      /\ due' = due

\* try_retire_stream(s): the permit goes when both directions are over, the
\* map entry only if send_terminal has been stored by then.  next_frame skips
\* the windows of receive directions that are over or discarded.
Retire(s) ==
  LET over == s \in streams \cap complete' \cap recvTerminal'
  IN  /\ held' = IF over THEN held \ {s} ELSE held
      /\ streams' = IF over /\ st[s].terminal THEN streams \ {s} ELSE streams
      /\ due' = due \ (recvTerminal' \cup discarded')

\* The peer ends its direction with FIN or RESET_STREAM.
PeerEnds(s) ==
  /\ s \in streams \ recvTerminal
  /\ PeerKnows(s)
  /\ recvTerminal' = recvTerminal \cup {s}
  /\ UNCHANGED <<ids, complete, discarded>>
  /\ Retire(s)
  /\ UNCHANGED <<q, st, life, fins, stopping, connDue, dues, pc, frame, notify,
                 bound, history>>

\* handle_last_send_drop resets a direction that is not over (ResetStream), and
\* looks again whether the stream can be retired.
DropSend(s) ==
  /\ s \in streams /\ st[s].terminal
  /\ UNCHANGED <<ids, complete, recvTerminal, discarded>>
  /\ Retire(s)
  /\ UNCHANGED <<q, st, life, fins, stopping, connDue, dues, pc, frame, notify,
                 bound, history>>

\* handle_last_recv_drop, in the cleanup task and so one stream at a time:
\* inbound data is discarded and the receive direction looked at ...
DropRecv(s) ==
  /\ stopping = {} /\ s \in streams \ discarded
  /\ discarded' = discarded \cup {s}
  /\ stopping' = IF s \in recvTerminal \/ closed THEN stopping ELSE stopping \cup {s}
  /\ UNCHANGED <<ids, complete, recvTerminal>>
  /\ Retire(s)
  /\ UNCHANGED <<q, st, life, fins, connDue, dues, pc, frame, notify, bound, history>>

\* ... and, once the queue lock is free, STOP_SENDING is queued, even if the
\* peer has ended the direction meanwhile.
StopSending(s) ==
  /\ s \in stopping
  /\ stopping' = stopping \ {s}
  /\ \/ q.closing /\ UNCHANGED <<q, notify>>
     \/ /\ ~q.closing /\ Len(q.control) < MaxControl
        /\ q' = EnqueueControl(q, Frame("stop", s))
        /\ NotifyOne
  /\ UNCHANGED <<ids, complete, recvTerminal, discarded>>
  /\ Retire(s)
  /\ UNCHANGED <<st, life, fins, connDue, dues, pc, frame, bound, history>>

-----------------------------------------------------------------------------
(* The end of the connection. *)

\* Mutant: the closing state is published without waking the writer.
InitiateCloseSilently(code) ==
  /\ ~closed
  /\ q' = InitiateCloseQueues(q, code)
  /\ closed' = TRUE
  /\ UNCHANGED <<st, terminated, cleaned, map, fins, windows, pc, frame, notify,
                 bound, history>>

\* initiate_close: graceful for code 0, otherwise the queues are dropped.
InitiateClose(code) ==
  /\ ~closed
  /\ q' = InitiateCloseQueues(q, code)
  /\ closed' = TRUE
  /\ NotifyWaiters
  /\ UNCHANGED <<st, terminated, cleaned, map, fins, windows, pc, frame, bound,
                 history>>

Abort ==
  /\ ~terminated
  /\ closed' = TRUE /\ terminated' = TRUE
  /\ NotifyWaiters
  /\ UNCHANGED <<q, st, cleaned, map, fins, windows, pc, frame, bound, history>>

\* mark_closed: by the writer task when it ends, by a producer that finds the
\* control queue full, or by another task.
MarkClosed ==
  /\ ~cleaned
  /\ pc = "done" \/ "abort" \in ops \/ Len(q.control) >= MaxControl
  /\ closed' = TRUE /\ terminated' = TRUE /\ cleaned' = TRUE
  /\ q' = ShutdownQueues(q)
  /\ streams' = {}
  /\ due' = {}
  /\ NotifyWaiters
  /\ UNCHANGED <<st, ids, held, fins, complete, recvTerminal, discarded, stopping,
                 connDue, dues, pc, frame, bound, history>>

-----------------------------------------------------------------------------
(* The writer task: next_frame and the send that follows it. *)

CanSend == {s \in Streams : q.byStream[s] # <<>> /\ Eligible(q, st, s)}
ControlWaits == q.control # <<>> \/ connDue \/ due # {}
ControlFirst == q.controlTurn \/ Urgent(q)

\* The Notified future is created before the queues are locked.
Arm ==
  /\ pc = "arm"
  /\ pc' = "eval"
  /\ woken' = FALSE
  /\ UNCHANGED <<q, st, life, map, fins, windows, frame, permit, bound, history>>

Return(f) ==
  /\ frame' = f
  /\ pc' = IF f = NoFrame THEN "done" ELSE "send"
  /\ UNCHANGED <<life, map, fins, recvTerminal, discarded, stopping, dues, notify,
                 bound, accepted, opened, ended>>

\* Control work other than OPEN and SETTINGS counts against waiting data.
CountControl ==
  /\ dataRun' = 0
  /\ controlRun' = IF CanSend = {} THEN 0
                   ELSE controlRun + (IF Urgent(q) THEN 0 ELSE 1)
  /\ UNCHANGED passed

NextErrorClose ==
  /\ pc = "eval" /\ ClosesNow(q)
  /\ q' = [q EXCEPT !.closeFrame = NoFrame]
  /\ Return(q.closeFrame)
  /\ UNCHANGED <<st, connDue, due, runs>>

NextControl ==
  /\ pc = "eval" /\ ~ClosesNow(q)
  /\ ControlFirst /\ q.control # <<>>
  /\ q' = TakeControl(q)
  /\ Return(Head(q.control))
  /\ CountControl
  /\ UNCHANGED <<st, connDue, due>>

NextMaxData ==
  /\ pc = "eval" /\ ~ClosesNow(q)
  /\ ControlFirst /\ q.control = <<>> /\ connDue
  /\ q' = [q EXCEPT !.controlTurn = FALSE]
  /\ connDue' = FALSE
  /\ Return(Frame("max_data", 0))
  /\ CountControl
  /\ UNCHANGED <<st, due>>

NextMaxStreamData(s) ==
  /\ pc = "eval" /\ ~ClosesNow(q)
  /\ ControlFirst /\ q.control = <<>> /\ ~connDue /\ s \in due
  /\ q' = [q EXCEPT !.controlTurn = FALSE]
  /\ due' = due \ {s}
  /\ Return(Frame("max_stream_data", s))
  /\ CountControl
  /\ UNCHANGED <<st, connDue>>

ControlDone == ~(ControlFirst /\ ControlWaits)

NextData ==
  LET i == FirstEligible(q, st)
      s == q.ready[i]
  IN  /\ pc = "eval" /\ ~ClosesNow(q) /\ ControlDone
      /\ i # 0
      /\ q' = TakeData(q, st, i)
      /\ st' = Dispatched(q, st, s)
      /\ Return(DataFrame(q, st, s))
      /\ dataRun' = IF ControlWaits THEN dataRun + 1 ELSE 0
      /\ controlRun' = 0
      /\ passed' = [t \in Streams |-> IF t \in CanSend \ {s} THEN passed[t] + 1 ELSE 0]
      /\ UNCHANGED <<connDue, due>>

\* Nothing to send out of turn: give control the turn and look again.
PassTurn ==
  /\ pc = "eval" /\ ~ClosesNow(q) /\ ControlDone
  /\ FirstEligible(q, st) = 0 /\ ~q.controlTurn
  /\ q' = [q EXCEPT !.controlTurn = TRUE]
  /\ pc' = "arm"
  /\ controlRun' = 0
  /\ UNCHANGED <<st, life, map, fins, windows, frame, notify, bound, accepted,
                 opened, ended, dataRun, passed>>

\* Mutant: the drain ends although streams still wait for credit.
NextGracefulCloseEarly ==
  /\ pc = "eval" /\ ~ClosesNow(q) /\ ControlDone
  /\ FirstEligible(q, st) = 0 /\ q.controlTurn
  /\ q.closing
  /\ q' = [q EXCEPT !.closeFrame = NoFrame]
  /\ Return(q.closeFrame)
  /\ UNCHANGED <<st, connDue, due, runs>>

NextGracefulClose ==
  /\ pc = "eval" /\ ~ClosesNow(q) /\ ControlDone
  /\ FirstEligible(q, st) = 0 /\ q.controlTurn
  /\ q.closing /\ Drained(q)
  /\ q' = [q EXCEPT !.closeFrame = NoFrame]
  /\ Return(q.closeFrame)
  /\ UNCHANGED <<st, connDue, due, runs>>

\* Nothing at all to do: the lock is dropped, then the future is polled.
Wait ==
  /\ pc = "eval" /\ ~ClosesNow(q) /\ ControlDone
  /\ FirstEligible(q, st) = 0 /\ q.controlTurn
  /\ ~(q.closing /\ Drained(q))
  /\ pc' = "poll"
  /\ UNCHANGED <<q, st, life, map, fins, windows, frame, notify, bound, history>>

\* The first poll takes a stored permit, or finds that notify_waiters has been
\* called, or registers the task.
Poll ==
  /\ pc = "poll"
  /\ pc' = IF permit \/ woken THEN "arm" ELSE "wait"
  /\ permit' = FALSE
  /\ UNCHANGED <<q, st, life, map, fins, windows, frame, woken, bound, history>>

Woken ==
  /\ pc = "wait" /\ woken
  /\ pc' = "arm"
  /\ UNCHANGED <<q, st, life, map, fins, windows, frame, notify, bound, history>>

\* The transport takes the frame; FIN or RESET completes the send direction
\* and may retire the stream, CLOSE is the last frame.
SendDone ==
  LET ends == frame.type = "reset" \/ frame.fin
  IN  /\ pc = "send" /\ ~terminated
      /\ pc' = IF frame.type = "close" THEN "done" ELSE "arm"
      /\ frame' = NoFrame
      /\ opened' = IF frame.type = "open" THEN opened \cup {frame.id} ELSE opened
      /\ ended' = IF ends THEN ended \cup {frame.id} ELSE ended
      /\ complete' = IF ends THEN complete \cup ({frame.id} \cap streams) ELSE complete
      /\ UNCHANGED <<ids, recvTerminal, discarded>>
      /\ IF ends THEN Retire(frame.id) ELSE UNCHANGED <<streams, held, due>>
      /\ UNCHANGED <<q, st, life, fins, stopping, connDue, dues, notify, bound,
                     accepted, runs>>

\* The connection was terminated, or the transport failed.
SendBreak ==
  /\ pc = "send"
  /\ pc' = "done"
  /\ frame' = NoFrame
  /\ UNCHANGED <<q, st, life, map, fins, windows, notify, bound, history>>

-----------------------------------------------------------------------------
NextFrame ==
  \/ Arm
  \/ NextErrorClose
  \/ NextControl
  \/ NextMaxData
  \/ \E s \in Streams : NextMaxStreamData(s)
  \/ NextData
  \/ PassTurn
  \/ NextGracefulClose
  \/ Wait
  \/ Poll
  \/ Woken

\* write_chunk has a payload and no FIN, finish has a FIN and no payload.
Write(s) ==
  \/ "finish" \in ops /\ SendChunk(s, 0, TRUE)
  \/ \E n \in Lengths : SendChunk(s, n, FALSE)

Produce ==
  \/ \E s \in Streams :
       \/ OpenBi(s)
       \/ RemoteOpen(s)
       \/ Write(s)
       \/ FinishStore(s)
       \/ "reset" \in ops /\ ResetStream(s)
       \/ "stop" \in ops /\ (DropSend(s) \/ DropRecv(s))
       \/ StopSending(s)
       \/ "end" \in ops /\ PeerEnds(s)
       \/ "due" \in ops /\ StreamCreditDue(s)
       \/ \E m \in StreamLimits : RecvMaxStreamData(s, m)
  \/ KeepAlive
  \/ RecvSettings(InitialConn, InitialStream)
  \/ \E m \in ConnLimits : RecvMaxData(m)
  \/ "due" \in ops /\ ConnCreditDue

Finish ==
  \/ "close" \in ops /\ \E code \in {0, 1} : InitiateClose(code)
  \/ "abort" \in ops /\ Abort
  \/ MarkClosed

Next == NextFrame \/ SendDone \/ SendBreak \/ Produce \/ Finish

(* The runtime polls the writer when it can make progress, and a send to a
   live transport completes or fails. *)
Fairness == WF_vars(NextFrame) /\ WF_vars(SendDone \/ SendBreak)

Spec == Init /\ [][Next]_vars /\ Fairness

-----------------------------------------------------------------------------
Chunks == [len : Nat, fin : BOOLEAN]
Frames ==
  [type : {"none", "settings", "open", "reset", "stop", "ping", "max_data",
           "max_stream_data", "stream", "close"},
   id : Nat, len : Nat, fin : BOOLEAN]

(* The queues, the per-stream send state and the writer's own state have their
   types; in particular the byte counters never wrap below zero. *)
TypeOK ==
  /\ q \in [byStream : [Streams -> Seq(Chunks)], ready : Seq(Streams),
            control : Seq(Frames), closeFrame : Frames, graceful : BOOLEAN,
            closing : BOOLEAN, settings : BOOLEAN, peerLimit : Nat,
            initialLimit : Nat, sent : Nat, controlTurn : BOOLEAN]
  /\ st \in [Streams -> [sent : Nat, peerLimit : Nat, terminal : BOOLEAN,
                         dispatched : BOOLEAN, resetQueued : BOOLEAN]]
  /\ {closed, terminated, cleaned, connDue, permit, woken} \subseteq BOOLEAN
  /\ ids \subseteq Streams /\ streams \subseteq ids /\ held \subseteq ids
  /\ fins \subseteq ids /\ complete \subseteq ids
  /\ recvTerminal \subseteq ids /\ stopping \subseteq discarded
  /\ discarded \subseteq ids
  /\ due \subseteq streams
  /\ pc \in {"arm", "eval", "poll", "wait", "send", "done"}
  /\ frame \in Frames
  /\ pings \in 0..MaxPings /\ dues \in 0..MaxDues

(* next_frame's three expects never fail: ready lists exactly the streams with
   a nonempty queue, each once, through every enqueue, rotation, reset and
   close. *)
ReadyMatchesQueues ==
  /\ \A s \in Streams :
       q.byStream[s] # <<>> <=> \E i \in DOMAIN q.ready : q.ready[i] = s
  /\ \A i, j \in DOMAIN q.ready : q.ready[i] = q.ready[j] => i = j

(* Bytes dispatched stay within the credit the peer granted, on every stream
   and over the connection, and the connection counts every stream's bytes,
   ended ones included (FLOW_CONTROL: lifetime totals). *)
CreditRespected ==
  /\ q.sent <= q.peerLimit
  /\ q.sent = SumFunction([s \in Streams |-> st[s].sent])
  /\ \A s \in Streams : st[s].sent <= Max2(st[s].peerLimit, q.initialLimit)

(* A direction ends once: after a FIN or RESET has been handed to the
   transport the writer never takes another STREAM or RESET of that stream,
   however finish, reset and STOP_SENDING interleave with the writer. *)
EndIsFinal ==
  frame.type \in {"stream", "reset"} => frame.id \notin ended

(* The writer never sleeps on work: if it waits without a pending wakeup,
   next_frame would find nothing to return.  Some producers use
   notify_one and the closing paths use notify_waiters. *)
NeverSleepsOnWork ==
  pc = "wait" /\ ~woken =>
    /\ ~ClosesNow(q)
    /\ ~ControlWaits
    /\ CanSend = {}
    /\ ~(q.closing /\ Drained(q))

(* Control work and data alternate: at most one data frame passes waiting
   control work, and at most one non-urgent control frame passes data that
   could be sent. *)
Alternation == dataRun <= 1 /\ controlRun <= 1

(* Round robin: while a stream has sendable data, the others together send
   fewer frames than there are streams before it sends its own. *)
RoundRobin == \A s \in Streams : passed[s] < Cardinality(Streams)

(* A graceful CLOSE leaves only after everything that was accepted: every
   byte of every stream that was not reset, its FIN if finish succeeded, and
   every queued control frame. *)
CloseAfterDrain ==
  frame = Close(0) =>
    /\ q.control = <<>>
    /\ \A s \in Streams : ~st[s].resetQueued =>
         st[s].sent = accepted[s] /\ st[s].dispatched = (s \in fins)

(* A graceful drain stops only for want of credit: once close is published the
   writer ends, or streams are left that no credit lets send. *)
DrainProgresses ==
  q.graceful ~> (pc = "done" \/ (~Drained(q) /\ CanSend = {}))

(* OPEN precedes every STREAM, RESET_STREAM and other frame of its stream. *)
OpenPrecedesUse ==
  frame.type \in {"stream", "reset", "stop", "max_stream_data"} /\ Local(frame.id)
    => frame.id \in opened

=============================================================================
