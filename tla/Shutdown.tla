------------------------------ MODULE Shutdown ------------------------------
(***************************************************************************)
(* The end of one muxtls connection: the task group started by               *)
(* spawn_connection_tasks (reader, writer, keepalive, stream cleanup), its    *)
(* supervisor with the drain deadline, and the application calls that end     *)
(* the connection or race with its end.                                       *)
(*                                                                           *)
(* mark_closed is one action per await, so tasks interleave inside it.  The   *)
(* wait loops over Notify are guards here: Writer checks that next_frame      *)
(* misses no wakeup, and wait_terminated arms its future before it looks.     *)
(* Queued control frames are a count; of the data only is kept whether there  *)
(* is any; whether credit lets it go is left open.                            *)
(***************************************************************************)
EXTENDS Integers, FiniteSets

CONSTANTS
  Remote, Local,  \* streams the peer and the application may open
  MaxControl,     \* max_control_frames
  Scenarios       \* bound: sets of optional operations; a behaviour performs
                  \* those of one set

ASSUME StreamAssumption == Remote \cap Local = {} /\ MaxControl \in Nat \ {0}

VARIABLES
  closed, terminated, cleanup, joined,  \* cleanup: cleanup_started
  admitting,   \* open_streams has not been closed
  q,           \* [control, data, close, closing]: control frames, whether data
               \* is queued, the pending CLOSE
  hand,        \* the frame the writer has taken and not yet sent
  map,         \* shared.streams
  incoming,    \* streams queued for accept_bi
  handed,      \* streams whose handles the application holds
  told,        \* streams on which mark_connection_closed has run
  taken,       \* streams mark_closed has taken out of the map
  swept,       \* history: mark_closed has taken the map
  opening,     \* the stream on_remote_open is registering
  handles,     \* a Connection handle is left
  ops,         \* the optional operations of this behaviour
  pc,
  cause        \* history: why the connection was terminated

flags == <<closed, terminated, cleanup, joined, admitting>>
registry == <<map, incoming, handed, told, taken, swept, opening>>
scope == <<handles, ops>>
vars == <<flags, q, hand, registry, scope, pc, cause>>

Group == {"reader", "writer", "keepalive", "cleanup"}
Tasks == Group \cup {"deadline", "supervisor", "opener", "acceptor"}
NoStream == "none"

\* The queue with n control frames more, or fewer, and with or without data.
WithControl(n) ==
  [control |-> q.control + n, data |-> q.data, close |-> q.close,
   closing |-> q.closing]
WithData(d) ==
  [control |-> q.control, data |-> d, close |-> q.close, closing |-> q.closing]

\* The queue after shutdown or an error close, and with that close.
Emptied(close) ==
  [control |-> 0, data |-> FALSE, close |-> close, closing |-> TRUE]

Goto(t, l) == pc' = [pc EXCEPT ![t] = l]

Init ==
  /\ closed = FALSE /\ terminated = FALSE /\ cleanup = FALSE /\ joined = FALSE
  /\ admitting = TRUE
  /\ q = [control |-> 1, data |-> FALSE, close |-> "none", closing |-> FALSE]
  /\ hand = "none"
  /\ map = {} /\ incoming = {} /\ handed = {} /\ told = {} /\ taken = {}
  /\ swept = FALSE
  /\ opening = NoStream
  /\ handles = TRUE /\ ops \in Scenarios
  /\ pc = [t \in Tasks |->
             IF t = "writer" THEN "next"
             ELSE IF t = "deadline" THEN "watch"
             ELSE IF t = "supervisor" THEN "join" ELSE "loop"]
  /\ cause = "none"

-----------------------------------------------------------------------------
(* mark_closed, called by task t at "mark". *)

\* Where t continues after mark_closed.
Return(t) ==
  IF t = "supervisor" THEN "clear"
  ELSE IF t \in {"cleanup", "opener"} THEN "loop" ELSE "exit"

\* Call(t, why): t is about to run mark_closed.
Call(t, why) ==
  /\ Goto(t, "mark")
  /\ cause' = IF cause = "none" THEN why ELSE cause

\* Mutant: cleanup_started is set but not looked at.
MarkFlagsUnelected(t) ==
  /\ pc[t] = "mark"
  /\ closed' = TRUE /\ terminated' = TRUE /\ cleanup' = TRUE
  /\ admitting' = FALSE
  /\ Goto(t, "shutdown")
  /\ UNCHANGED <<joined, q, hand, registry, scope, cause>>

\* The flags, the notification, and the swap that elects one cleaner.
MarkFlags(t) ==
  /\ pc[t] = "mark"
  /\ closed' = TRUE /\ terminated' = TRUE /\ cleanup' = TRUE
  /\ admitting' = FALSE
  /\ Goto(t, IF cleanup THEN Return(t) ELSE "shutdown")
  /\ UNCHANGED <<joined, q, hand, registry, scope, cause>>

\* Mutant: only the pending CLOSE is dropped, the queued frames are kept.
MarkShutdownKeepingWork(t) ==
  /\ pc[t] = "shutdown"
  /\ q' = [control |-> q.control, data |-> q.data, close |-> "none",
           closing |-> TRUE]
  /\ Goto(t, "take")
  /\ UNCHANGED <<flags, hand, registry, scope, cause>>

\* writer.shutdown, once the queue lock is free.
MarkShutdown(t) ==
  /\ pc[t] = "shutdown"
  /\ q' = Emptied("none")
  /\ Goto(t, "take")
  /\ UNCHANGED <<flags, hand, registry, scope, cause>>

\* mem::take of the map, once its lock is free.
MarkTake(t) ==
  /\ pc[t] = "take"
  /\ taken' = map
  /\ map' = {}
  /\ swept' = TRUE
  /\ Goto(t, "tell")
  /\ UNCHANGED <<flags, q, hand, incoming, handed, told, opening, scope, cause>>

\* mark_connection_closed on every stream taken.
MarkTell(t) ==
  /\ pc[t] = "tell"
  /\ told' = told \cup taken
  /\ taken' = {}
  /\ Goto(t, Return(t))
  /\ UNCHANGED <<flags, q, hand, map, incoming, handed, swept, opening, scope,
                 cause>>

MarkStep(t) == MarkFlags(t) \/ MarkShutdown(t) \/ MarkTake(t) \/ MarkTell(t)

\* initiate_close, under the queue lock; the first call decides.
InitiateClose(code) ==
  IF closed
  THEN UNCHANGED <<closed, q, admitting>>
  ELSE /\ closed' = TRUE
       /\ admitting' = FALSE
       /\ q' = IF code = 0
               THEN [control |-> q.control, data |-> q.data,
                     close |-> "graceful", closing |-> TRUE]
               ELSE Emptied("error")

-----------------------------------------------------------------------------
(* The reader task. *)

\* Between frames the reader looks at terminated first.
ReaderStop ==
  /\ pc["reader"] = "loop" /\ terminated
  /\ Call("reader", "abort")
  /\ UNCHANGED <<flags, q, hand, registry, scope>>

Reading(op) == op \in ops /\ pc["reader"] = "loop" /\ ~terminated

\* End of the transport, a decoding failure, or the peer's CLOSE.
PeerCloses ==
  /\ Reading("peerclose")
  /\ Call("reader", "peer")
  /\ UNCHANGED <<flags, q, hand, registry, scope>>

\* A frame that breaks the protocol or a limit, or the idle timeout.
ReaderError ==
  /\ Reading("error")
  /\ Goto("reader", "fail")
  /\ UNCHANGED <<flags, q, hand, registry, scope, cause>>

\* initiate_close with code one, and out of the loop.
ReaderFail ==
  /\ pc["reader"] = "fail"
  /\ InitiateClose(1)
  /\ Call("reader", "error")
  /\ UNCHANGED <<terminated, cleanup, joined, hand, registry, scope>>

\* Mutant: the reset is queued whatever the queue's length.
PeerStopsUnbounded ==
  /\ Reading("stop") /\ map # {}
  /\ \/ ~closed /\ ~q.closing /\ q' = WithControl(1) /\ UNCHANGED pc
     \/ (closed \/ q.closing) /\ Goto("reader", "fail") /\ UNCHANGED q
  /\ UNCHANGED <<flags, hand, registry, scope, cause>>

\* STOP_SENDING for a stream in the map: reset_stream queues RESET and drops the
\* stream's data.  It fails once closed or when the queue is full, and its error
\* fails the connection.
PeerStops ==
  /\ Reading("stop") /\ map # {}
  /\ \/ /\ ~closed /\ ~q.closing /\ q.control < MaxControl
        /\ \/ q' = WithControl(1)
           \/ q' = [control |-> q.control + 1, data |-> FALSE, close |-> q.close,
                    closing |-> q.closing]
        /\ UNCHANGED pc
     \/ /\ closed \/ q.closing \/ q.control >= MaxControl
        /\ Goto("reader", "fail")
        /\ UNCHANGED q
  /\ UNCHANGED <<flags, hand, registry, scope, cause>>

\* OPEN_STREAM: the permit first ...
PeerOpens(s) ==
  /\ Reading("open") /\ s \notin map \cup handed \cup incoming \cup told
  /\ \/ admitting /\ opening' = s /\ Goto("reader", "insert")
     \/ ~admitting /\ UNCHANGED opening /\ Goto("reader", "fail")
  /\ UNCHANGED <<flags, q, hand, map, incoming, handed, told, taken, swept, scope,
                 cause>>

\* ... then the map, when its lock is free ...
ReaderInsert ==
  /\ pc["reader"] = "insert"
  /\ map' = map \cup {opening}
  /\ Goto("reader", "push")
  /\ UNCHANGED <<flags, q, hand, incoming, handed, told, taken, swept, opening,
                 scope, cause>>

\* ... and the queue of incoming streams.
ReaderPush ==
  /\ pc["reader"] = "push"
  /\ incoming' = incoming \cup {opening}
  /\ opening' = NoStream
  /\ Goto("reader", "loop")
  /\ UNCHANGED <<flags, q, hand, map, handed, told, taken, swept, scope, cause>>

-----------------------------------------------------------------------------
(* The writer task. *)

\* next_frame takes the CLOSE of an error close at once, that of a graceful
\* one when nothing else is queued; none is left after shutdown.
WriterTakeClose ==
  /\ pc["writer"] = "next" /\ q.closing
  /\ q.close = "graceful" => q.control = 0 /\ ~q.data
  /\ q' = [control |-> q.control, data |-> q.data, close |-> "none",
           closing |-> TRUE]
  /\ hand' = q.close
  /\ Goto("writer", IF q.close = "none" THEN "sink" ELSE "send")
  /\ UNCHANGED <<flags, registry, scope, cause>>

\* A control frame needs no credit.
WriterTakeControl ==
  /\ pc["writer"] = "next" /\ q.control > 0
  /\ q' = WithControl(-1)
  /\ hand' = "frame"
  /\ Goto("writer", "send")
  /\ UNCHANGED <<flags, registry, scope, cause>>

\* Data goes when there is credit, all that is queued or a part of it.
WriterTakeData ==
  /\ pc["writer"] = "next" /\ q.data
  /\ \E more \in BOOLEAN : q' = WithData(more)
  /\ hand' = "frame"
  /\ Goto("writer", "send")
  /\ UNCHANGED <<flags, registry, scope, cause>>

\* The transport takes the frame, or fails.
WriterSent ==
  /\ pc["writer"] = "send" /\ ~terminated
  /\ \/ Goto("writer", IF hand = "frame" THEN "next" ELSE "sink")
     \/ "fault" \in ops /\ Goto("writer", "sink")
  /\ hand' = "none"
  /\ UNCHANGED <<flags, q, registry, scope, cause>>

\* Mutant: the send does not give way to termination.
WriterBreakNever ==
  /\ pc["writer"] = "sink" /\ terminated
  /\ hand' = "none"
  /\ Call("writer", "abort")
  /\ UNCHANGED <<flags, q, registry, scope>>

\* Termination cuts a send and the closing of the sink short.
WriterBreak ==
  /\ pc["writer"] \in {"send", "sink"} /\ terminated
  /\ hand' = "none"
  /\ IF pc["writer"] = "send"
     THEN Goto("writer", "sink") /\ UNCHANGED cause
     ELSE Call("writer", "abort")
  /\ UNCHANGED <<flags, q, registry, scope>>

\* sink.close finishes or fails.
WriterSinkClosed ==
  /\ pc["writer"] = "sink" /\ ~terminated
  /\ Call("writer", "written")
  /\ UNCHANGED <<flags, q, hand, registry, scope>>

-----------------------------------------------------------------------------
(* The keepalive and cleanup tasks: both queue control frames. *)

\* The keepalive task ends on closed.
KeepaliveStop ==
  /\ pc["keepalive"] = "loop" /\ closed
  /\ Goto("keepalive", "exit")
  /\ UNCHANGED <<flags, q, hand, registry, scope, cause>>

\* A tick that finds the queue full closes the connection, unless a close has
\* won meanwhile.
KeepaliveTick ==
  /\ "tick" \in ops /\ pc["keepalive"] = "loop"
  /\ \/ /\ ~q.closing /\ q.control < MaxControl
        /\ q' = WithControl(1)
        /\ UNCHANGED <<pc, cause>>
     \/ /\ q.closing \/ q.control >= MaxControl
        /\ IF closed THEN Goto("keepalive", "exit") /\ UNCHANGED cause
           ELSE Call("keepalive", "full")
        /\ UNCHANGED q
  /\ UNCHANGED <<flags, hand, registry, scope>>

CleanupStop ==
  /\ pc["cleanup"] = "loop" /\ terminated
  /\ Goto("cleanup", "exit")
  /\ UNCHANGED <<flags, q, hand, registry, scope, cause>>

\* handle_last_recv_drop: STOP_SENDING, or mark_closed on a full queue.
DropRecv ==
  /\ "drop" \in ops /\ pc["cleanup"] = "loop" /\ ~terminated /\ ~closed
  /\ handed \cap map # {}
  /\ \/ ~q.closing /\ q.control < MaxControl /\ q' = WithControl(1)
        /\ UNCHANGED <<pc, cause>>
     \/ q.control >= MaxControl /\ Call("cleanup", "full") /\ UNCHANGED q
  /\ UNCHANGED <<flags, hand, registry, scope>>

-----------------------------------------------------------------------------
(* The supervisor: the deadline future it polls, and the join. *)

\* Closed is seen, or the last handle is gone and the drain is started.
DeadlineStart ==
  /\ pc["deadline"] = "watch" /\ (closed \/ ~handles)
  /\ InitiateClose(0)
  /\ Goto("deadline", "sleep")
  /\ UNCHANGED <<terminated, cleanup, joined, hand, registry, scope, cause>>

DeadlineExpires ==
  /\ "expire" \in ops /\ pc["deadline"] = "sleep"
  /\ Call("deadline", "deadline")
  /\ UNCHANGED <<flags, q, hand, registry, scope>>

\* The last task has been joined.  The deadline is polled no more, even if it
\* is inside mark_closed: select! takes either branch that is ready.
SupervisorJoined ==
  /\ pc["supervisor"] = "join"
  /\ \A t \in Group : pc[t] = "exit"
  /\ pc' = [pc EXCEPT !["supervisor"] = "mark", !["deadline"] = "exit"]
  /\ cause' = IF cause = "none" THEN "joined" ELSE cause
  /\ UNCHANGED <<flags, q, hand, registry, scope>>

\* The incoming queue is released and wait_closed returns.
SupervisorClear ==
  /\ pc["supervisor"] = "clear"
  /\ incoming' = {}
  /\ joined' = TRUE
  /\ Goto("supervisor", "exit")
  /\ UNCHANGED <<closed, terminated, cleanup, admitting, q, hand, map, handed, told,
                 taken, swept, opening, scope, cause>>

-----------------------------------------------------------------------------
(* The application. *)

CloseCall ==
  /\ handles /\ ~closed
  /\ InitiateClose(0)
  /\ UNCHANGED <<terminated, cleanup, joined, hand, registry, scope, pc, cause>>

AbortCall ==
  /\ "abort" \in ops /\ handles /\ ~terminated
  /\ closed' = TRUE /\ terminated' = TRUE
  /\ cause' = IF cause = "none" THEN "abort" ELSE cause
  /\ UNCHANGED <<cleanup, joined, admitting, q, hand, registry, scope, pc>>

\* Drop of the last Connection handle.
DropHandles ==
  /\ handles /\ pc["opener"] = "loop" /\ pc["acceptor"] = "loop"
  /\ handles' = FALSE
  /\ UNCHANGED <<flags, q, hand, registry, ops, pc, cause>>

\* Mutant: open_bi relies on the permit and looks at nothing under its locks.
OpenBiUnchecked(s) ==
  /\ handles /\ pc["opener"] \in {"loop", "locked"}
  /\ s \notin map \cup handed
  /\ IF pc["opener"] = "loop"
     THEN /\ admitting /\ Goto("opener", "locked")
          /\ UNCHANGED <<q, map, handed, cause>>
     ELSE /\ Goto("opener", "loop")
          /\ map' = map \cup {s} /\ handed' = handed \cup {s}
          /\ UNCHANGED <<q, cause>>
  /\ UNCHANGED <<flags, hand, incoming, told, taken, swept, opening, scope>>

\* open_bi with a permit ("locked"), then both locks: the stream is published
\* with its OPEN, or refused; a full queue closes the connection.
OpenBi(s) ==
  /\ handles /\ pc["opener"] \in {"loop", "locked"}
  /\ s \notin map \cup handed
  /\ IF pc["opener"] = "loop"
     THEN /\ ~closed /\ admitting /\ Goto("opener", "locked")
          /\ UNCHANGED <<q, map, handed, cause>>
     ELSE \/ /\ closed /\ Goto("opener", "loop")
             /\ UNCHANGED <<q, map, handed, cause>>
          \/ /\ ~closed /\ (q.closing \/ q.control >= MaxControl)
             /\ Call("opener", "full")
             /\ UNCHANGED <<q, map, handed>>
          \/ /\ ~closed /\ ~q.closing /\ q.control < MaxControl
             /\ q' = WithControl(1)
             /\ map' = map \cup {s} /\ handed' = handed \cup {s}
             /\ Goto("opener", "loop")
             /\ UNCHANGED cause
  /\ UNCHANGED <<flags, hand, incoming, told, taken, swept, opening, scope>>

\* The application drops the open_bi future while it waits for a lock.
CancelOpen ==
  /\ "cancel" \in ops /\ pc["opener"] \in {"locked", "shutdown", "take", "tell"}
  /\ Goto("opener", "loop")
  /\ UNCHANGED <<flags, q, hand, registry, scope, cause>>

\* enqueue_data for a stream of the application: under the queue lock only
\* closing stops a write that has its permits.
Write ==
  /\ "write" \in ops /\ handed # {} /\ ~q.closing
  /\ q' = WithData(TRUE)
  /\ UNCHANGED <<flags, hand, registry, scope, pc, cause>>

\* accept_bi looks at closed, then waits for the lock of the queue and pops.
AcceptBi ==
  /\ handles
  /\ \/ /\ pc["acceptor"] = "loop" /\ ~closed /\ "open" \in ops
        /\ Goto("acceptor", "pop")
        /\ UNCHANGED <<incoming, handed>>
     \/ /\ pc["acceptor"] = "pop"
        /\ Goto("acceptor", "loop")
        /\ \/ incoming = {} /\ UNCHANGED <<incoming, handed>>
           \/ \E s \in incoming :
                incoming' = incoming \ {s} /\ handed' = handed \cup {s}
  /\ UNCHANGED <<flags, q, hand, map, told, taken, swept, opening, scope, cause>>

-----------------------------------------------------------------------------
\* What a task does on its own once it is polled.
Step(t) ==
  \/ MarkStep(t)
  \/ t = "reader" /\ (ReaderStop \/ ReaderFail \/ ReaderInsert \/ ReaderPush)
  \/ t = "writer" /\ (WriterTakeClose \/ WriterTakeControl \/ WriterBreak)
  \/ t = "keepalive" /\ KeepaliveStop
  \/ t = "cleanup" /\ CleanupStop
  \/ t = "deadline" /\ (DeadlineStart \/ DeadlineExpires)
  \/ t = "supervisor" /\ (SupervisorJoined \/ SupervisorClear)

\* What the peer, the transport, the clock and the application decide.
Environment ==
  \/ PeerCloses \/ ReaderError \/ PeerStops
  \/ \E s \in Remote : PeerOpens(s)
  \/ WriterTakeData \/ WriterSent \/ WriterSinkClosed
  \/ KeepaliveTick \/ DropRecv
  \/ CloseCall \/ AbortCall \/ DropHandles
  \/ \E s \in Local : OpenBi(s)
  \/ CancelOpen \/ Write \/ AcceptBi

Next == (\E t \in Tasks : Step(t)) \/ Environment

(* The runtime polls every task that is ready, and timers fire; the peer, the
   transport and the application owe nothing. *)
Fairness == \A t \in Tasks : WF_vars(Step(t))

Spec == Init /\ [][Next]_vars /\ Fairness

-----------------------------------------------------------------------------
Labels ==
  {"loop", "next", "watch", "join", "mark", "shutdown", "take", "tell", "clear",
   "exit", "fail", "insert", "push", "send", "sink", "sleep", "locked", "pop"}

(* Flags, queue, registries and program counters have their types; the queue
   never exceeds its capacity. *)
TypeOK ==
  /\ {closed, terminated, cleanup, joined, admitting, swept, handles} \subseteq BOOLEAN
  /\ q \in [control : 0..MaxControl, data : BOOLEAN,
            close : {"none", "graceful", "error"}, closing : BOOLEAN]
  /\ hand \in {"none", "frame", "graceful", "error"}
  /\ UNION {map, incoming, handed, told, taken} \subseteq Remote \cup Local
  /\ opening \in Remote \cup {NoStream}
  /\ pc \in [Tasks -> Labels]
  /\ cause \in {"none", "abort", "peer", "error", "written", "full", "deadline",
                "joined"}

(* When wait_closed returns, every stream whose handles the application holds
   has been told that the connection is closed, so no read or write on it waits
   for ever, whichever task won the cleanup. *)
WaitersWoken == joined => handed \subseteq told

(* open_bi publishes nothing behind the cleanup: once mark_closed has taken the
   map, no local stream is in it, so that every stream open_bi has handed out is
   among those the cleaner tells.  open_bi checks closed, waits for a permit and
   two locks, and checks again. *)
OpenedBeforeSweep == swept => map \cap Local = {}

(* Nothing is queued behind a decided end: once the connection is closing and
   no graceful CLOSE waits for its drain (an error close, a CLOSE that has been
   taken, or shutdown), the queue is empty and stays so, however the producers
   of five tasks race for its lock. *)
NothingLeftQueued ==
  q.closing /\ q.close # "graceful" => q.control = 0 /\ ~q.data

(* The cleanup has one owner: cleanup_started elects a single task to empty the
   queues and to take and tell the streams, although every task of the group,
   the deadline, the supervisor and open_bi may call mark_closed at once. *)
CleanedOnce ==
  \A t, u \in Tasks :
    {pc[t], pc[u]} \subseteq {"shutdown", "take", "tell"} => t = u

\* Nobody runs the cleanup any more, since the open_bi future that owned it was
\* dropped before shutdown, and the writer sleeps in next_frame: the frames that
\* filled the queue went before terminated was set, and closing never is.
Abandoned ==
  /\ cleanup /\ \A t \in Tasks : pc[t] \notin {"shutdown", "take", "tell"}
  /\ pc["writer"] = "next" /\ ~q.closing /\ q.control = 0

(* Every end ends: once the connection is closed, by anyone, or its last handle
   is dropped, wait_closed returns whatever the peer and the transport do.  Only
   an open_bi dropped inside mark_closed can prevent it, and only if it leaves
   the writer asleep. *)
TerminatesUnlessAbandoned == (closed \/ ~handles) ~> (joined \/ Abandoned)

(* A graceful drain ends with its CLOSE, or is cut short by the deadline, an
   abort, the peer's close or the transport: frames that a conforming peer sent
   before it knew of the close do not end it (FLOW_CONTROL). *)
DrainIsKept ==
  [][q.close = "graceful" /\ q'.close = "none" =>
       \/ hand' = "graceful"
       \/ cause' \in {"deadline", "abort", "peer", "written", "joined"}]_vars

=============================================================================
