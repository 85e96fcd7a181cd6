-------------------------------- MODULE Pipe --------------------------------
(***************************************************************************)
(* One direction of one stream end to end: the send half of one endpoint     *)
(* (Outbound), the receive half of the other (Inbound), and the transport      *)
(* between them, ordered and reliable until it ends.  Together they implement  *)
(* ByteStream.                                                               *)
(***************************************************************************)
EXTENDS Outbound, Inbound

CONSTANTS
  MaxWire,  \* bound: frames in transit, each way
  Scenarios \* bound: sets of optional operations; a behaviour uses one set

VARIABLES
  wire,   \* frames on their way to the receiver
  back,   \* credit and STOP_SENDING on their way to the sender
  ops     \* the optional operations of this behaviour

vars == <<outVars, inVars, wire, back, ops>>

Init ==
  /\ OutInit(ConnWindow, StreamWindow)
  /\ InInit
  /\ wire = <<>> /\ back = <<>>
  /\ ops \in Scenarios

Allowed(op) == op \in ops

-----------------------------------------------------------------------------
(* Steps of the sender that put nothing on the transport. *)

\* "few" is the bound of a scenario that offers two bytes only.
Sizes == {n \in 1..MaxWrite : Allowed("few") => accepted + n <= 2}

Sender ==
  /\ \/ Allowed("chunk") /\ \E n \in Sizes : WriteChunk(n)
     \/ Allowed("chunk") /\ Finish
     \/ Allowed("chunk") /\ Allowed("cancel") /\ CancelCall
     \/ Allowed("async") /\ PollWrite
     \/ \E n \in Sizes : AcceptBytes(n)
     \/ AcceptLater
     \/ Allowed("async") /\ PollShutdown
     \/ QueueChunk \/ QueueFin \/ FinStored \/ QueueFails
     \/ Allowed("reset") /\ ResetApi
     \/ Allowed("dropsend") /\ (DropSend \/ CleanSend)
     \/ Allowed("close") /\ CloseGracefully
  /\ UNCHANGED <<inVars, wire, back, ops>>

\* Steps of the receiver that put nothing on the transport.
Receiver ==
  /\ \/ PushAcquire \/ PushLocked \/ MarkReset \/ MarkFin \/ MarkTerminal
     \/ Allowed("lost") /\ MarkConnectionClosed
     \/ Allowed("readchunk") /\ CallRead(1)
     \/ Allowed("asyncread") /\ CallRead(2)
     \/ PollNotified \/ ReadAgain
     \/ Allowed("cancel") /\ CancelRead
     \/ \E n \in 1..Len(buf) : GiveBytes(n)
     \/ Consume
     \/ Allowed("droprecv") /\ DropRecv
     \/ DiscardFlag \/ DiscardChunks
     \/ ~StopWanted /\ StopDone
  /\ UNCHANGED <<outVars, wire, back, ops>>

-----------------------------------------------------------------------------
(* The transport. *)

Put(f) ==
  /\ Len(wire) < MaxWire
  /\ wire' = Append(wire, f)
  /\ UNCHANGED <<inVars, back, ops>>

Reply(m) ==
  /\ Len(back) < MaxWire
  /\ back' = Append(back, m)
  /\ UNCHANGED <<outVars, wire, ops>>

ResetFrame == [type |-> "reset", data |-> <<>>, fin |-> FALSE]
CloseFrame == [type |-> "close", data |-> <<>>, fin |-> FALSE]

Transmit ==
  \/ SendData /\ Put(DataFrame)
  \/ SendReset /\ Put(ResetFrame)

\* CLOSE after the drain; a connection that just ends leaves the same trace.
TransmitClose ==
  /\ sendConn = "closing" /\ queue = <<>> /\ ~resetOut
  /\ ConnectionEnds /\ Put(CloseFrame)

SenderLost ==
  /\ Allowed("lost")
  /\ ConnectionEnds /\ Put(CloseFrame)

Deliver ==
  /\ wire # <<>>
  /\ wire' = Tail(wire)
  /\ IF Head(wire).type = "close" THEN reader = "idle" /\ MarkConnectionClosed
                                  ELSE TakeFrame(Head(wire))
  /\ UNCHANGED <<outVars, back, ops>>

Answer ==
  \/ ~recvClosed /\ GrantConn /\ Reply([type |-> "data", max |-> grantedC'])
  \/ ~recvClosed /\ GrantStream /\ Reply([type |-> "stream", max |-> grantedS'])
  \/ StopWanted /\ StopDone /\ Reply([type |-> "stop", max |-> 0])

Return ==
  /\ back # <<>>
  /\ back' = Tail(back)
  /\ LET m == Head(back) IN
     IF sendConn = "ended" THEN UNCHANGED outVars
     ELSE \/ m.type = "data" /\ RecvMaxData(m.max)
          \/ m.type = "stream" /\ RecvMaxStreamData(m.max)
          \/ m.type = "stop" /\ RecvStop
  /\ UNCHANGED <<inVars, ops>>
  /\ wire' = IF sendConn # "ended" /\ sendConn' = "ended"
             THEN Append(wire, CloseFrame) ELSE wire

Next ==
  \/ Sender \/ Receiver
  \/ Transmit \/ TransmitClose \/ SenderLost \/ Deliver
  \/ Answer \/ Return

Spec == Init /\ [][Next]_vars

-----------------------------------------------------------------------------
(* Properties. *)

ByteSeqs == Seq(1..MaxBytes)

\* TypeOK: the types of the state, with every queue within its bound
\* (outbound_stream_frames on the sending side, the window on the other).
TypeOK ==
  /\ sendMode \in 0..2 /\ recvMode \in 0..2
  /\ {writeFut, buf, frame.data} \subseteq ByteSeqs
  /\ {finFut, shut, accepting, storing, resetOut, finQueued, sendTerminal,
      dispatched, resetQueued, resetError, finReceived, recvClosed,
      recvTerminal, discarded, permit, woken} \subseteq BOOLEAN
  /\ sendConn \in {"open", "closing", "ended"}
  /\ sendGone \in {"no", "dropped", "cleaned"}
  /\ Len(queue) <= QueueSlots
  /\ Bytes(chunks) <= StreamWindow
  /\ reader \in {"idle", "push", "lock", "fin", "terminal", "reset", "failed"}
  /\ app \in {"idle", "poll", "wait", "again", "give", "consume", "release", "gone"}
  /\ cleaner \in {"idle", "discard", "clear", "stop", "done"}
  /\ permitsC \in 0..ConnWindow /\ permitsS \in 0..StreamWindow
  /\ accepted \in 0..MaxBytes /\ sent \in 0..MaxBytes

\* What the abstract stream says of how the sender has ended the direction.
Ending == IF resetQueued THEN "reset" ELSE IF finQueued THEN "fin" ELSE "open"

Stream == INSTANCE ByteStream WITH ending <- Ending

\* ImplementsByteStream: through chunk and AsyncWrite calls, cancelled calls,
\* splitting into frames, pages, partial reads, RESET, STOP_SENDING, dropped
\* handles and the end of the connection, the reader gets the accepted bytes in
\* order and once, sees end of file only after all of them, and a reset only if
\* there was one (SendStream and RecvStream, stream.rs).
ImplementsByteStream == Stream!Spec

InReader == IF reader \in {"push", "lock"} THEN Len(frame.data) ELSE 0

\* ReturnedOnce: every byte counted by the connection window is in exactly one
\* place or has been consumed once, although push_inbound races with
\* discard_inbound, with reads and with the Drop of chunks; a chunk filed too late
\* for the cleanup does not stay behind; and no permit of either budget is lost
\* or returned twice.
ReturnedOnce ==
  /\ reader # "failed" =>
       received = consumedC + Bytes(chunks) + Len(buf) + giving + InReader
  /\ cleaner \in {"stop", "done"} => chunks = <<>>
  /\ LET held == Bytes(chunks) + Len(buf)
                 + (IF reader = "lock" THEN Len(frame.data) ELSE 0)
     IN permitsC + held = ConnWindow /\ permitsS + held = StreamWindow

\* PeerNeverFails: what a conforming sender transmits is never refused:
\* push_inbound finds permits for every byte the windows admitted, no frame
\* follows the end of the direction, and RESET never meets an ended direction.
PeerNeverFails == reader = "failed" => recvClosed

\* ReaderAwake: a read that waits on inbound_notify without a notification has
\* nothing to return: no chunk, no reset, no end, no closed connection.  The
\* reader task may be about to notify it.
ReaderAwake ==
  app = "wait" /\ ~woken =>
    /\ chunks = <<>> /\ ~resetError /\ ~recvClosed /\ ~recvTerminal
    /\ finReceived => reader = "terminal"

=============================================================================
