---------------------------- MODULE WriterQueues ----------------------------
(***************************************************************************)
(* The outbound queues of one muxtls connection (struct WriterQueues of      *)
(* src/muxtls/src/connection.rs) as operators on a record q, together with   *)
(* the send half of the per-stream atomics (StreamState), a function st.     *)
(* q is guarded by one mutex, so each operator is one atomic step.           *)
(*                                                                           *)
(* Payloads are lengths; a frame is a record [type, id, len, fin].           *)
(***************************************************************************)
EXTENDS Queues, FiniteSets

CONSTANTS
  Streams,        \* stream IDs, 0..n; even IDs are opened locally
  MaxControl,     \* limits.max_control_frames
  FrameCapacity   \* payload bytes that fit a STREAM frame of peer_max_frame

ASSUME QueueAssumption ==
  /\ Streams \subseteq Nat /\ IsFiniteSet(Streams)
  /\ MaxControl \in Nat
  /\ FrameCapacity \in Nat \ {0}

Min2(a, b) == IF a < b THEN a ELSE b
Max2(a, b) == IF a < b THEN b ELSE a
Minus(a, b) == IF a < b THEN 0 ELSE a - b      \* saturating_sub

Frame(type, id) == [type |-> type, id |-> id, len |-> 0, fin |-> FALSE]
Data(id, len, fin) == [type |-> "stream", id |-> id, len |-> len, fin |-> fin]
NoFrame == Frame("none", 0)
Settings == Frame("settings", 0)
Ping == Frame("ping", 0)
Close(code) == Frame("close", code)

\* Connection::new queues SETTINGS before any other frame.
InitQueues ==
  [byStream |-> [s \in Streams |-> <<>>], ready |-> <<>>,
   control |-> <<Settings>>, closeFrame |-> NoFrame,
   graceful |-> FALSE, closing |-> FALSE,
   settings |-> FALSE, peerLimit |-> 0, initialLimit |-> 0, sent |-> 0,
   controlTurn |-> TRUE]

InitStream ==
  [sent |-> 0, peerLimit |-> 0, terminal |-> FALSE, dispatched |-> FALSE,
   resetQueued |-> FALSE]

Drained(q) == \A s \in Streams : q.byStream[s] = <<>>

-----------------------------------------------------------------------------
(* Producers. *)

EnqueueData(q, s, chunk) ==
  [q EXCEPT !.byStream[s] = Append(@, chunk),
            !.ready = IF q.byStream[s] = <<>> THEN Append(@, s) ELSE @]

EnqueueControl(q, f) ==
  IF f.type = "ping" /\ \E i \in DOMAIN q.control : q.control[i] = Ping
  THEN q
  ELSE [q EXCEPT !.control = Append(@, f)]

\* Mutant: the reset leaves the stream's queued chunks in place.
QueueResetKeepingData(q, s) ==
  [q EXCEPT !.control = Append(@, Frame("reset", s))]

\* Mutant: the reset stream keeps its place in ready.
QueueResetKeepingReady(q, s) ==
  [q EXCEPT !.byStream[s] = <<>>, !.control = Append(@, Frame("reset", s))]

\* ready.retain(|id| id != s)
QueueReset(q, s) ==
  [q EXCEPT !.byStream[s] = <<>>, !.ready = Without(@, s),
            !.control = Append(@, Frame("reset", s))]

Cleared(q) ==
  [q EXCEPT !.byStream = [s \in Streams |-> <<>>], !.ready = <<>>,
            !.control = <<>>]

InitiateCloseQueues(q, code) ==
  [(IF code = 0 THEN q ELSE Cleared(q))
     EXCEPT !.closeFrame = Close(code), !.graceful = (code = 0),
            !.closing = TRUE]

ShutdownQueues(q) ==
  [Cleared(q) EXCEPT !.closeFrame = NoFrame, !.graceful = FALSE,
                     !.closing = TRUE]

-----------------------------------------------------------------------------
(* next_frame, in the order the code tries its sources. *)

ClosesNow(q) == q.closing /\ ~q.graceful

\* SETTINGS and OPEN are urgent when they are at the front of the queue.
Urgent(q) == q.control # <<>> /\ Head(q.control).type \in {"settings", "open"}

\* Mutant: a control frame does not hand the turn over to data.
TakeControlKeepingTurn(q) == [q EXCEPT !.control = Tail(@)]

\* Pop a queued control frame, and the turn goes to data.
TakeControl(q) == [q EXCEPT !.control = Tail(@), !.controlTurn = FALSE]

ConnCredit(q) == Minus(q.peerLimit, q.sent)
StreamCredit(q, st, s) ==
  Minus(Max2(st[s].peerLimit, q.initialLimit), st[s].sent)

\* Mutant: the connection's credit is forgotten.
CountStreamCreditOnly(q, st, s) ==
  Min2(Head(q.byStream[s]).len, Min2(StreamCredit(q, st, s), FrameCapacity))

\* Bytes of the first chunk that may go in one frame now.
Count(q, st, s) ==
  Min2(Head(q.byStream[s]).len,
       Min2(Min2(ConnCredit(q), StreamCredit(q, st, s)), FrameCapacity))

Eligible(q, st, s) ==
  /\ q.settings
  /\ Count(q, st, s) > 0 \/ Head(q.byStream[s]).len = 0

\* Position in ready of the stream that sends next; 0 if none may send.
FirstEligible(q, st) ==
  IF \E i \in DOMAIN q.ready : Eligible(q, st, q.ready[i])
  THEN CHOOSE i \in DOMAIN q.ready :
         /\ Eligible(q, st, q.ready[i])
         /\ \A j \in 1..(i - 1) : ~Eligible(q, st, q.ready[j])
  ELSE 0

\* What is left of the first chunk and of the queue after count bytes go.
Rest(queue, count) ==
  IF Head(queue).len = count
  THEN Tail(queue)
  ELSE [queue EXCEPT ![1].len = @ - count]

FinNow(q, st, s) ==
  Head(q.byStream[s]).fin /\ Head(q.byStream[s]).len = Count(q, st, s)

\* Mutant: a stream that has more to send keeps its place at the front.
TakeDataNoRotation(q, st, i) ==
  LET s == q.ready[i]
      rest == Rest(q.byStream[s], Count(q, st, s))
      others == SubSeq(q.ready, i + 1, Len(q.ready)) \o SubSeq(q.ready, 1, i - 1)
  IN  [q EXCEPT !.byStream[s] = rest,
                !.ready = IF rest = <<>> THEN others ELSE <<s>> \o others,
                !.sent = @ + Count(q, st, s),
                !.controlTurn = TRUE]

\* The stream at position i sends; those skipped before it rotate behind.
TakeData(q, st, i) ==
  LET s == q.ready[i]
      rest == Rest(q.byStream[s], Count(q, st, s))
      others == SubSeq(q.ready, i + 1, Len(q.ready)) \o SubSeq(q.ready, 1, i - 1)
  IN  [q EXCEPT !.byStream[s] = rest,
                !.ready = IF rest = <<>> THEN others ELSE Append(others, s),
                !.sent = @ + Count(q, st, s),
                !.controlTurn = TRUE]

\* The stream's own counters after the same dispatch.
Dispatched(q, st, s) ==
  [st EXCEPT ![s].sent = @ + Count(q, st, s),
             ![s].dispatched = @ \/ FinNow(q, st, s)]

DataFrame(q, st, s) == Data(s, Count(q, st, s), FinNow(q, st, s))

=============================================================================
