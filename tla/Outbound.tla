------------------------------ MODULE Outbound ------------------------------
(***************************************************************************)
(* The send half of one stream, from the application's calls to the frames   *)
(* it hands the transport: SendStream with its chunk and AsyncWrite           *)
(* interfaces (src/muxtls/src/stream.rs), the queue they feed, RESET, and the  *)
(* close of the connection.  Queue rotation among streams is Writer's matter, *)
(* the byte and frame budgets are Budget's.                                   *)
(*                                                                           *)
(* A payload is a sequence of byte numbers: the k-th byte the application     *)
(* offers is k.  One poll of a send_stream_chunk future is one step, in which  *)
(* it queues its chunk or fails; a poll that leaves it pending changes         *)
(* nothing.                                                                  *)
(***************************************************************************)
EXTENDS Integers, Sequences

CONSTANTS
  MaxBytes,      \* bound: bytes the application offers
  MaxWrite,      \* max_stream_payload
  QueueSlots,    \* permits of outbound_stream_frames
  FrameCapacity  \* payload bytes a STREAM frame can carry

ASSUME OutboundAssumption ==
  /\ MaxBytes \in Nat
  /\ {MaxWrite, QueueSlots, FrameCapacity} \subseteq Nat \ {0}

VARIABLES
  sendMode,      \* send_mode: 0 unused, 1 chunks, 2 AsyncWrite
  writeFut,      \* payload of the write in progress, <<>> if there is none
  finFut,        \* a finish or poll_shutdown is in progress
  shut,          \* shutdown_complete
  accepting,     \* poll_write has passed its checks and is draining write_fut
  storing,       \* the FIN is queued, send_terminal is not stored yet
  sendGone,      \* send_dropped: "no", "dropped", "cleaned"
  queue,         \* by_stream[id]: a sequence of [data, fin]
  resetOut,      \* the RESET is in the control queue
  finQueued,     \* a FIN has entered the queue
  sendTerminal, dispatched, resetQueued,   \* the stream's atomics
  sent, connLimit, streamLimit,            \* credit used and granted
  sendConn,      \* the connection: "open", "closing" (gracefully), "ended"
  accepted       \* bytes reported to the application as written

calls == <<sendMode, writeFut, finFut, shut, accepting, storing, sendGone>>
flow == <<sent, connLimit, streamLimit>>
outVars == <<calls, queue, resetOut, finQueued, sendTerminal, dispatched,
             resetQueued, flow, sendConn, accepted>>

OutInit(conn, stream) ==
  /\ sendMode = 0 /\ writeFut = <<>> /\ sendGone = "no"
  /\ finFut = FALSE /\ shut = FALSE /\ accepting = FALSE /\ storing = FALSE
  /\ queue = <<>> /\ resetOut = FALSE /\ finQueued = FALSE
  /\ sendTerminal = FALSE /\ dispatched = FALSE /\ resetQueued = FALSE
  /\ sent = 0 /\ connLimit = conn /\ streamLimit = stream
  /\ sendConn = "open" /\ accepted = 0

Payload(n) == [i \in 1..n |-> accepted + i]
SelectSendMode(m) == sendMode \in {0, m} /\ sendMode' = m
SendHandle == sendGone = "no" /\ ~storing

-----------------------------------------------------------------------------
(* The application's calls. *)

\* write_chunk: the payload counts as written only when the call returns.
WriteChunk(n) ==
  /\ SendHandle /\ SelectSendMode(1)
  /\ writeFut = <<>> /\ ~finFut
  /\ n <= MaxWrite /\ accepted + n <= MaxBytes
  /\ writeFut' = Payload(n)
  /\ UNCHANGED <<finFut, shut, accepting, storing, sendGone, queue, resetOut,
                 finQueued, sendTerminal, dispatched, resetQueued, flow,
                 sendConn, accepted>>

Finish ==
  /\ SendHandle /\ SelectSendMode(1)
  /\ writeFut = <<>> /\ ~finFut
  /\ finFut' = TRUE
  /\ UNCHANGED <<writeFut, shut, accepting, storing, sendGone, queue, resetOut,
                 finQueued, sendTerminal, dispatched, resetQueued, flow,
                 sendConn, accepted>>

\* A chunk-mode call is dropped before its chunk is queued.
CancelCall ==
  /\ SendHandle /\ sendMode = 1
  /\ writeFut # <<>> \/ finFut
  /\ writeFut' = <<>> /\ finFut' = FALSE
  /\ UNCHANGED <<sendMode, shut, accepting, storing, sendGone, queue, resetOut,
                 finQueued, sendTerminal, dispatched, resetQueued, flow,
                 sendConn, accepted>>

\* poll_write up to its flush: the checks a closed direction fails.
PollWrite ==
  /\ SendHandle /\ SelectSendMode(2)
  /\ ~accepting
  /\ sendConn = "open" /\ ~sendTerminal /\ ~finFut /\ ~shut
  /\ accepting' = TRUE
  /\ UNCHANGED <<writeFut, finFut, shut, storing, sendGone, queue, resetOut,
                 finQueued, sendTerminal, dispatched, resetQueued, flow,
                 sendConn, accepted>>

\* Mutant: the chunk of the previous call is not drained first.
AcceptBytesUnflushed(n) ==
  /\ accepting
  /\ n <= MaxWrite /\ accepted + n <= MaxBytes
  /\ writeFut' = Payload(n)
  /\ accepted' = accepted + n
  /\ accepting' = FALSE
  /\ UNCHANGED <<sendMode, finFut, shut, storing, sendGone, queue, resetOut,
                 finQueued, sendTerminal, dispatched, resetQueued, flow,
                 sendConn>>

\* The rest of poll_write: once the previous chunk is flushed the new bytes
\* are owned by a future that has not been polled, and reported as written.
AcceptBytes(n) ==
  /\ accepting /\ writeFut = <<>>
  /\ n <= MaxWrite /\ accepted + n <= MaxBytes
  /\ writeFut' = Payload(n)
  /\ accepted' = accepted + n
  /\ accepting' = FALSE
  /\ UNCHANGED <<sendMode, finFut, shut, storing, sendGone, queue, resetOut,
                 finQueued, sendTerminal, dispatched, resetQueued, flow,
                 sendConn>>

\* poll_write finds the flush pending and returns Pending.
AcceptLater ==
  /\ accepting
  /\ writeFut # <<>> \/ accepted = MaxBytes
  /\ accepting' = FALSE
  /\ UNCHANGED <<sendMode, writeFut, finFut, shut, storing, sendGone, queue,
                 resetOut, finQueued, sendTerminal, dispatched, resetQueued,
                 flow, sendConn, accepted>>

\* poll_shutdown creates the FIN's future after the last chunk is flushed.
PollShutdown ==
  /\ SendHandle /\ SelectSendMode(2)
  /\ ~accepting /\ ~shut /\ writeFut = <<>> /\ ~finFut
  /\ finFut' = TRUE
  /\ UNCHANGED <<writeFut, shut, accepting, storing, sendGone, queue, resetOut,
                 finQueued, sendTerminal, dispatched, resetQueued, flow,
                 sendConn, accepted>>

-----------------------------------------------------------------------------
(* Polls of the send_stream_chunk futures. *)

\* Mutant: outbound_stream_frames is not acquired.
CanQueueUnbounded == sendConn = "open" /\ ~sendTerminal

CanQueue == sendConn = "open" /\ ~sendTerminal /\ Len(queue) < QueueSlots

QueueChunk ==
  /\ writeFut # <<>> /\ CanQueue
  /\ queue' = Append(queue, [data |-> writeFut, fin |-> FALSE])
  /\ writeFut' = <<>>
  /\ accepted' = IF sendMode = 1 THEN accepted + Len(writeFut) ELSE accepted
  /\ UNCHANGED <<sendMode, finFut, shut, accepting, storing, sendGone,
                 resetOut, finQueued, sendTerminal, dispatched, resetQueued,
                 flow, sendConn>>

\* The FIN enters the queue; send_terminal is stored by a later instruction.
QueueFin ==
  /\ finFut /\ ~storing /\ writeFut = <<>> /\ CanQueue
  /\ queue' = Append(queue, [data |-> <<>>, fin |-> TRUE])
  /\ finQueued' = TRUE /\ storing' = TRUE
  /\ UNCHANGED <<sendMode, writeFut, finFut, shut, accepting, sendGone,
                 resetOut, sendTerminal, dispatched, resetQueued, flow,
                 sendConn, accepted>>

FinStored ==
  /\ storing
  /\ storing' = FALSE /\ finFut' = FALSE
  /\ sendTerminal' = TRUE
  /\ shut' = (sendMode = 2)
  /\ UNCHANGED <<sendMode, writeFut, accepting, sendGone, queue, resetOut,
                 finQueued, dispatched, resetQueued, flow, sendConn, accepted>>

\* A closed connection or an ended direction fails the call; in AsyncWrite
\* mode the bytes it owned had been reported as written and are lost.
QueueFails ==
  /\ sendConn # "open" \/ sendTerminal
  /\ ~storing
  /\ writeFut # <<>> \/ finFut
  /\ writeFut' = <<>> /\ finFut' = FALSE /\ accepting' = FALSE
  /\ UNCHANGED <<sendMode, shut, storing, sendGone, queue, resetOut,
                 finQueued, sendTerminal, dispatched, resetQueued, flow,
                 sendConn, accepted>>

-----------------------------------------------------------------------------
(* Reset, drop and close. *)

\* Mutant: a FIN already dispatched does not stop the reset.
ResetStreamAfterFin ==
  /\ sendConn = "open" /\ ~resetQueued
  /\ resetQueued' = TRUE /\ sendTerminal' = TRUE /\ resetOut' = TRUE
  /\ queue' = <<>>

\* reset_stream, under the queues lock: a dispatched FIN is not replaced.
ResetStream ==
  /\ sendConn = "open" /\ ~dispatched /\ ~resetQueued
  /\ resetQueued' = TRUE /\ sendTerminal' = TRUE /\ resetOut' = TRUE
  /\ queue' = <<>>

ResetApi ==
  /\ sendGone = "no" /\ ResetStream
  /\ UNCHANGED <<calls, finQueued, dispatched, flow, sendConn, accepted>>

\* Dropping the handle drops its futures with what they own.
DropSend ==
  /\ SendHandle /\ ~accepting
  /\ sendGone' = "dropped"
  /\ writeFut' = <<>> /\ finFut' = FALSE
  /\ UNCHANGED <<sendMode, shut, accepting, storing, queue, resetOut,
                 finQueued, sendTerminal, dispatched, resetQueued, flow,
                 sendConn, accepted>>

\* handle_last_send_drop, in the cleanup task: a direction that has not ended is
\* reset, unless the connection is ending or its control queue is full.
CleanSend ==
  /\ sendGone = "dropped"
  /\ sendGone' = "cleaned"
  /\ \/ ~sendTerminal /\ ResetStream
     \/ UNCHANGED <<resetQueued, sendTerminal, resetOut, queue>>
  /\ UNCHANGED <<sendMode, writeFut, finFut, shut, accepting, storing,
                 finQueued, dispatched, flow, sendConn, accepted>>

\* initiate_close(0): what is queued still goes out.
CloseGracefully ==
  /\ sendConn = "open"
  /\ sendConn' = "closing"
  /\ UNCHANGED <<calls, queue, resetOut, finQueued, sendTerminal, dispatched,
                 resetQueued, flow, accepted>>

\* initiate_close with an error, abort, the peer's CLOSE or a lost transport.
ConnectionEnds ==
  /\ sendConn # "ended"
  /\ sendConn' = "ended"
  /\ queue' = <<>> /\ resetOut' = FALSE
  /\ UNCHANGED <<calls, finQueued, sendTerminal, dispatched, resetQueued, flow,
                 accepted>>

-----------------------------------------------------------------------------
(* The writer task: what next_frame takes for this stream. *)

SendReset ==
  /\ resetOut
  /\ resetOut' = FALSE
  /\ UNCHANGED <<calls, queue, finQueued, sendTerminal, dispatched,
                 resetQueued, flow, sendConn, accepted>>

Smallest(S) == CHOOSE x \in S : \A y \in S : x <= y

Count ==
  Smallest({Len(Head(queue).data), FrameCapacity, connLimit - sent,
            streamLimit - sent})

DataFrame ==
  [type |-> "stream", data |-> SubSeq(Head(queue).data, 1, Count),
   fin |-> Head(queue).fin /\ Count = Len(Head(queue).data)]

\* The head chunk is split at the frame's capacity and the credit left.
SendData ==
  /\ queue # <<>>
  /\ Count > 0 \/ Head(queue).data = <<>>
  /\ LET rest == SubSeq(Head(queue).data, Count + 1, Len(Head(queue).data))
     IN queue' = IF rest = <<>> THEN Tail(queue)
                 ELSE <<[data |-> rest, fin |-> Head(queue).fin]>> \o Tail(queue)
  /\ sent' = sent + Count
  /\ dispatched' = (dispatched \/ DataFrame.fin)
  /\ UNCHANGED <<calls, resetOut, finQueued, sendTerminal, resetQueued,
                 connLimit, streamLimit, sendConn, accepted>>

-----------------------------------------------------------------------------
(* Frames from the peer. *)

RecvMaxData(m) ==
  /\ connLimit' = IF m > connLimit THEN m ELSE connLimit
  /\ UNCHANGED <<calls, queue, resetOut, finQueued, sendTerminal, dispatched,
                 resetQueued, sent, streamLimit, sendConn, accepted>>

RecvMaxStreamData(m) ==
  /\ streamLimit' = IF m > streamLimit THEN m ELSE streamLimit
  /\ UNCHANGED <<calls, queue, resetOut, finQueued, sendTerminal, dispatched,
                 resetQueued, sent, connLimit, sendConn, accepted>>

\* STOP_SENDING resets a direction that has not ended.  On a connection that is
\* closing, or whose control queue is full, reset_stream fails and the reader ends
\* the connection.
RecvStop ==
  \/ /\ \/ ResetStream
        \/ /\ sendConn = "open" /\ (dispatched \/ resetQueued)
           /\ UNCHANGED <<resetQueued, sendTerminal, resetOut, queue>>
     /\ UNCHANGED <<calls, finQueued, dispatched, flow, sendConn, accepted>>
  \/ /\ sendConn = "closing" \/ ~(dispatched \/ resetQueued)
     /\ ConnectionEnds

=============================================================================
