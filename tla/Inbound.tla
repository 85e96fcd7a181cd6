------------------------------- MODULE Inbound -------------------------------
(***************************************************************************)
(* The receive half of one stream: the reader task that files STREAM and      *)
(* RESET frames (on_remote_stream_frame, push_inbound), the chunk queue with   *)
(* its pages and permits, RecvStream's read_chunk and AsyncRead, and the       *)
(* cleanup of a dropped handle.                                              *)
(*                                                                           *)
(* The step from one lock or atomic to the next is one action, so the reader  *)
(* task, the application and the cleanup task interleave between them.        *)
(* ReceiveWindow models a window's own atomics; here a window is its totals.   *)
(***************************************************************************)
EXTENDS Integers, Sequences, Functions

CONSTANTS
  StreamWindow, ConnWindow,  \* max_inbound_stream_bytes, max_inbound_conn_bytes
  PageSize                   \* page_size of push_inbound

ASSUME InboundAssumption ==
  /\ {StreamWindow, ConnWindow, PageSize} \subseteq Nat \ {0}
  /\ PageSize <= StreamWindow /\ StreamWindow <= ConnWindow

VARIABLES
  chunks, resetError, finReceived, recvClosed,   \* InboundState
  recvTerminal, discarded,                       \* the stream's atomics
  received,                \* bytes both windows have received
  consumedC, consumedS,    \* consumed totals: connection, stream
  grantedC, grantedS,      \* advertised limits
  permitsC, permitsS,      \* inbound_conn_bytes, inbound_stream_bytes
  reader, frame,           \* the reader task and the frame it handles
  recvMode,                \* recv_mode
  app, buf, giving,        \* the reading application, read_buf, bytes being consumed
  permit, woken,           \* inbound_notify
  cleaner,                 \* the cleanup of a dropped handle
  read, outcome            \* what the application was given and told

inboundState == <<chunks, resetError, finReceived, recvClosed>>
windows == <<received, consumedC, consumedS, grantedC, grantedS, permitsC, permitsS>>
application == <<recvMode, app, buf, giving, read, outcome>>
notifier == <<permit, woken>>
inVars == <<inboundState, recvTerminal, discarded, windows, reader, frame,
            application, notifier, cleaner>>

NoFrame == [type |-> "none", data |-> <<>>, fin |-> FALSE]

InInit ==
  /\ chunks = <<>> /\ resetError = FALSE /\ finReceived = FALSE
  /\ recvClosed = FALSE /\ recvTerminal = FALSE /\ discarded = FALSE
  /\ received = 0 /\ consumedC = 0 /\ consumedS = 0
  /\ grantedC = ConnWindow /\ grantedS = StreamWindow
  /\ permitsC = ConnWindow /\ permitsS = StreamWindow
  /\ reader = "idle" /\ frame = NoFrame
  /\ recvMode = 0 /\ app = "idle" /\ buf = <<>> /\ giving = 0
  /\ permit = FALSE /\ woken = FALSE
  /\ cleaner = "idle"
  /\ read = <<>> /\ outcome = "none"

Bytes(cs) == SumFunction([i \in DOMAIN cs |-> Len(cs[i].data)])

\* Mutant: the notification is not kept for a read that has not registered.
NotifyOneForgotten ==
  /\ woken' = (woken \/ app = "wait")
  /\ UNCHANGED permit

\* inbound_notify: notify_one is kept as a permit when nobody waits,
\* notify_waiters reaches the futures that exist.
NotifyOne ==
  IF app = "wait" /\ ~woken THEN woken' = TRUE /\ UNCHANGED permit
                            ELSE permit' = TRUE /\ UNCHANGED woken
NotifyWaiters ==
  /\ woken' = (woken \/ app \in {"poll", "wait"})
  /\ UNCHANGED permit

-----------------------------------------------------------------------------
(* The reader task. *)

\* The frame is admitted: the direction is open (ensure_peer_send_open) and both
\* windows have room.
Admit(f) ==
  /\ ~recvTerminal
  /\ received + Len(f.data) <= grantedC
  /\ received + Len(f.data) <= grantedS

\* Where the reader goes after the payload.
AfterPayload(f) == IF f.fin THEN "fin" ELSE "idle"

TakeFrame(f) ==
  /\ reader = "idle" /\ ~recvClosed
  /\ received' = IF Admit(f) THEN received + Len(f.data) ELSE received
  /\ reader' = IF ~Admit(f) THEN "failed"
               ELSE IF f.type = "reset" THEN "reset"
               ELSE IF f.data # <<>> THEN "push" ELSE AfterPayload(f)
  /\ frame' = IF reader' = "push" THEN f ELSE NoFrame
  /\ UNCHANGED <<inboundState, recvTerminal, discarded, consumedC, consumedS,
                 grantedC, grantedS, permitsC, permitsS, application, notifier,
                 cleaner>>

\* push_inbound up to the lock: discarded payloads are returned to the
\* connection window, the others take permits of both budgets.
PushAcquire ==
  /\ reader = "push"
  /\ LET n == Len(frame.data)
         got == ~discarded /\ ~recvClosed /\ permitsC >= n /\ permitsS >= n
     IN /\ consumedC' = IF discarded THEN consumedC + n ELSE consumedC
        /\ permitsC' = IF got THEN permitsC - n ELSE permitsC
        /\ permitsS' = IF got THEN permitsS - n ELSE permitsS
        /\ reader' = IF discarded THEN AfterPayload(frame)
                     ELSE IF got THEN "lock" ELSE "failed"
  /\ frame' = IF reader' = "lock" THEN frame ELSE NoFrame
  /\ UNCHANGED <<inboundState, recvTerminal, discarded, received, consumedS,
                 grantedC, grantedS, application, notifier, cleaner>>

\* A small payload joins the page at the tail, or starts one.
Filed(data) ==
  LET last == Len(chunks)
      joins == last > 0 /\ chunks[last].page
               /\ Len(chunks[last].data) + Len(data) <= PageSize
  IN IF joins
     THEN [chunks EXCEPT ![last] = [data |-> chunks[last].data \o data, page |-> TRUE]]
     ELSE Append(chunks, [data |-> data, page |-> Len(data) < (PageSize + 1) \div 2])

\* Mutant: recv_discarded is not looked at again under the lock.
PushLockedUnchecked ==
  /\ reader = "lock"
  /\ LET n == Len(frame.data)
         kept == ~finReceived
     IN /\ IF kept THEN NotifyOne ELSE UNCHANGED notifier
        /\ chunks' = IF kept THEN Filed(frame.data) ELSE chunks
        /\ permitsC' = IF kept THEN permitsC ELSE permitsC + n
        /\ permitsS' = IF kept THEN permitsS ELSE permitsS + n
        /\ consumedC' = IF FALSE THEN consumedC + n ELSE consumedC
        /\ reader' = IF kept THEN AfterPayload(frame) ELSE "failed"
  /\ frame' = NoFrame
  /\ UNCHANGED <<resetError, finReceived, recvClosed, recvTerminal, discarded,
                 received, consumedS, grantedC, grantedS, application, cleaner>>

\* push_inbound under the lock of the inbound state.
PushLocked ==
  /\ reader = "lock"
  /\ LET n == Len(frame.data)
         kept == ~discarded /\ ~finReceived
     IN /\ IF kept THEN NotifyOne ELSE UNCHANGED notifier
        /\ chunks' = IF kept THEN Filed(frame.data) ELSE chunks
        /\ permitsC' = IF kept THEN permitsC ELSE permitsC + n
        /\ permitsS' = IF kept THEN permitsS ELSE permitsS + n
        /\ consumedC' = IF discarded THEN consumedC + n ELSE consumedC
        /\ reader' = IF kept \/ discarded THEN AfterPayload(frame) ELSE "failed"
  /\ frame' = NoFrame
  /\ UNCHANGED <<resetError, finReceived, recvClosed, recvTerminal, discarded,
                 received, consumedS, grantedC, grantedS, application, cleaner>>

\* chunks.clear(): every chunk's Drop returns what it still holds.
ClearChunks ==
  /\ chunks' = <<>>
  /\ permitsC' = permitsC + Bytes(chunks)
  /\ permitsS' = permitsS + Bytes(chunks)
  /\ consumedC' = consumedC + Bytes(chunks)
  /\ consumedS' = consumedS + Bytes(chunks)
  /\ UNCHANGED <<received, grantedC, grantedS>>

MarkReset ==
  /\ reader = "reset"
  /\ resetError' = TRUE
  /\ ClearChunks
  /\ NotifyWaiters
  /\ reader' = "fin"
  /\ UNCHANGED <<finReceived, recvClosed, recvTerminal, discarded, frame,
                 application, cleaner>>

\* mark_recv_terminal: fin_received under the lock, then the atomic.
MarkFin ==
  /\ reader = "fin"
  /\ finReceived' = TRUE
  /\ reader' = "terminal"
  /\ UNCHANGED <<chunks, resetError, recvClosed, recvTerminal, discarded,
                 windows, frame, application, notifier, cleaner>>

MarkTerminal ==
  /\ reader = "terminal"
  /\ recvTerminal' = TRUE
  /\ NotifyWaiters
  /\ reader' = "idle"
  /\ UNCHANGED <<inboundState, discarded, windows, frame, application, cleaner>>

\* mark_connection_closed, by whichever task runs mark_closed.
MarkConnectionClosed ==
  /\ ~recvClosed
  /\ recvClosed' = TRUE
  /\ NotifyWaiters
  /\ UNCHANGED <<chunks, resetError, finReceived, recvTerminal, discarded,
                 windows, reader, frame, application, cleaner>>

-----------------------------------------------------------------------------
(* The reading application. *)

SelectRecvMode(m) == recvMode \in {0, m} /\ recvMode' = m

\* read_chunk from the creation of its Notified to the unlock.  AsyncRead
\* asks only when it holds no remainder and has not seen the end.
ReadCheck ==
  \/ /\ resetError
     /\ outcome' = "reset" /\ app' = "idle"
     /\ UNCHANGED <<chunks, finReceived, buf>>
  \/ /\ ~resetError /\ chunks # <<>>
     /\ buf' = Head(chunks).data /\ chunks' = Tail(chunks)
     /\ app' = "give"
     /\ UNCHANGED <<finReceived, outcome>>
  \/ /\ ~resetError /\ chunks = <<>> /\ (finReceived \/ recvTerminal)
     /\ finReceived' = TRUE
     /\ outcome' = "eof" /\ app' = "idle"
     /\ UNCHANGED <<chunks, buf>>
  \/ /\ ~resetError /\ chunks = <<>> /\ ~finReceived /\ ~recvTerminal
     /\ app' = IF recvClosed THEN "idle" ELSE "poll"
     /\ UNCHANGED <<chunks, finReceived, buf, outcome>>

CallRead(m) ==
  /\ app = "idle" /\ buf = <<>>
  /\ SelectRecvMode(m)
  /\ m = 2 => outcome # "eof"
  /\ ReadCheck
  /\ woken' = FALSE
  /\ UNCHANGED <<resetError, recvClosed, recvTerminal, discarded, windows,
                 reader, frame, giving, permit, cleaner, read>>

\* The first poll of the Notified takes a stored permit or registers.
PollNotified ==
  /\ app = "poll"
  /\ app' = IF permit \/ woken THEN "again" ELSE "wait"
  /\ permit' = (permit /\ woken)
  /\ UNCHANGED <<inboundState, recvTerminal, discarded, windows, reader, frame,
                 recvMode, buf, giving, woken, cleaner, read, outcome>>

ReadAgain ==
  /\ app = "again" \/ (app = "wait" /\ woken)
  /\ ReadCheck
  /\ woken' = FALSE
  /\ UNCHANGED <<resetError, recvClosed, recvTerminal, discarded, windows,
                 reader, frame, recvMode, giving, permit, cleaner, read>>

\* A chunk read is dropped while it waits; a notification it got is passed on.
CancelRead ==
  /\ recvMode = 1 /\ app = "wait"
  /\ app' = "idle"
  /\ permit' = (permit \/ woken) /\ woken' = FALSE
  /\ UNCHANGED <<inboundState, recvTerminal, discarded, windows, reader, frame,
                 recvMode, buf, giving, cleaner, read, outcome>>

\* Bytes go to the application: a whole chunk, or with AsyncRead as many as its
\* buffer takes.  consume gives the permits back first ...
GiveBytes(n) ==
  /\ app = "give" \/ (app = "idle" /\ recvMode = 2)
  /\ n \in 1..Len(buf)
  /\ recvMode = 1 => n = Len(buf)
  /\ read' = read \o SubSeq(buf, 1, n)
  /\ buf' = SubSeq(buf, n + 1, Len(buf))
  /\ permitsC' = permitsC + n /\ permitsS' = permitsS + n
  /\ giving' = n /\ app' = "consume"
  /\ UNCHANGED <<inboundState, recvTerminal, discarded, received, consumedC,
                 consumedS, grantedC, grantedS, reader, frame, recvMode,
                 notifier, cleaner, outcome>>

\* ... and then moves both windows.
Consume ==
  /\ app \in {"consume", "release"}
  /\ consumedC' = consumedC + giving /\ consumedS' = consumedS + giving
  /\ giving' = 0
  /\ app' = IF app = "consume" THEN "idle" ELSE "gone"
  /\ UNCHANGED <<inboundState, recvTerminal, discarded, received, grantedC,
                 grantedS, permitsC, permitsS, reader, frame, recvMode, buf,
                 notifier, cleaner, read, outcome>>

\* The handle is dropped, with its read in progress and its remainder.
DropRecv ==
  /\ app \in {"idle", "wait"} /\ cleaner = "idle"
  /\ cleaner' = "discard"
  /\ permitsC' = permitsC + Len(buf) /\ permitsS' = permitsS + Len(buf)
  /\ giving' = Len(buf) /\ buf' = <<>>
  /\ app' = "release" /\ woken' = FALSE
  /\ UNCHANGED <<inboundState, recvTerminal, discarded, received, consumedC,
                 consumedS, grantedC, grantedS, reader, frame, recvMode, permit,
                 read, outcome>>

-----------------------------------------------------------------------------
(* The cleanup task: handle_last_recv_drop. *)

DiscardFlag ==
  /\ cleaner = "discard"
  /\ discarded' = TRUE
  /\ cleaner' = "clear"
  /\ UNCHANGED <<inboundState, recvTerminal, windows, reader, frame,
                 application, notifier>>

DiscardChunks ==
  /\ cleaner = "clear"
  /\ ClearChunks
  /\ cleaner' = "stop"
  /\ UNCHANGED <<resetError, finReceived, recvClosed, recvTerminal, discarded,
                 reader, frame, application, notifier>>

\* STOP_SENDING goes out unless the direction has ended.
StopWanted == cleaner = "stop" /\ ~recvTerminal /\ ~recvClosed

StopDone ==
  /\ cleaner = "stop"
  /\ cleaner' = "done"
  /\ UNCHANGED <<inboundState, recvTerminal, discarded, windows, reader, frame,
                 application, notifier>>

-----------------------------------------------------------------------------
(* The writer task: window updates. *)

UpdateDue(consumed, granted, window) ==
  /\ consumed + window > granted
  /\ \/ 2 * (consumed + window - granted) >= window
     \/ received = granted

GrantConn ==
  /\ UpdateDue(consumedC, grantedC, ConnWindow)
  /\ grantedC' = consumedC + ConnWindow
  /\ UNCHANGED <<inboundState, recvTerminal, discarded, received, consumedC,
                 consumedS, grantedS, permitsC, permitsS, reader, frame,
                 application, notifier, cleaner>>

GrantStream ==
  /\ ~recvTerminal /\ ~discarded
  /\ UpdateDue(consumedS, grantedS, StreamWindow)
  /\ grantedS' = consumedS + StreamWindow
  /\ UNCHANGED <<inboundState, recvTerminal, discarded, received, consumedC,
                 consumedS, grantedC, permitsC, permitsS, reader, frame,
                 application, notifier, cleaner>>

=============================================================================
