------------------------------ MODULE Registry ------------------------------
(***************************************************************************)
(* The streams of one endpoint from OPEN to retirement: on_remote_open,       *)
(* open_bi, accept_bi, the ends of both directions, dropped handles, and       *)
(* try_retire_stream, which the reader, the writer and the cleanup task each   *)
(* run on their own.  The peer's moves are frames the reader takes; payloads,  *)
(* credit and the end of the connection are left to Pipe, Writer and Shutdown. *)
(* The control queue is shared by all streams; whether it is full when a        *)
(* stream's RESET or STOP_SENDING comes is left open ("full").                  *)
(*                                                                           *)
(* Sets hold the streams whose flag is set.  One action reaches from one lock  *)
(* or await to the next.                                                     *)
(***************************************************************************)
EXTENDS Integers, Sequences, FiniteSets

CONSTANTS
  Remote, Local,  \* streams the peer and the application may open
  MaxOpen,        \* max_open_streams
  Acceptors,      \* tasks that call accept_bi
  Scenarios       \* bound: sets of streams and optional operations; a
                  \* behaviour uses those of one set

ASSUME RegistryAssumption ==
  /\ Remote \cap Local = {}
  /\ MaxOpen \in Nat \ {0}

Streams == Remote \cup Local
Tasks == {"reader", "writer", "cleaner"}
NoStream == "none"

VARIABLES
  opened,        \* IDs used: next_remote_stream_id, next_local_stream_id
  free,          \* permits of open_streams
  held,          \* streams whose open_permit is still there
  map,           \* shared.streams
  incoming,      \* incoming_streams
  sendHandles, recvHandles,           \* handles the application owns
  sendDropped, recvDropped,           \* flags for the cleanup task
  ending,        \* streams whose FIN or RESET is queued
  resetQueued,   \* streams whose RESET has been queued
  refused,       \* history: streams whose RESET the cleanup task could not queue
  storing,       \* FIN queued, send_terminal not stored yet
  dispatched, sendTerminal, sendComplete, recvTerminal,
  stopped,       \* streams for which STOP_SENDING was sent
  dropNote, todo,  \* drop_notify's permit, the cleanup task's snapshot
  at, on, back,  \* per task: its place, its stream, where it returns
  acceptor, permit, woken,  \* accept_bi calls and incoming_notify
  ops            \* the streams and optional operations of this behaviour

admission == <<opened, free, held>>
handles == <<sendHandles, recvHandles, sendDropped, recvDropped, dropNote>>
resets == <<resetQueued, refused>>
ends == <<ending, resets, storing, dispatched, sendTerminal, sendComplete,
          recvTerminal>>
tasks == <<at, on, back, todo>>
accepting == <<acceptor, permit, woken>>
vars == <<admission, map, incoming, handles, ends, stopped, tasks,
          accepting, ops>>

Init ==
  /\ opened = {} /\ free = MaxOpen /\ held = {}
  /\ map = {} /\ incoming = <<>>
  /\ sendHandles = {} /\ recvHandles = {}
  /\ sendDropped = {} /\ recvDropped = {}
  /\ ending = {} /\ resetQueued = {} /\ refused = {}
  /\ storing = {} /\ dispatched = {}
  /\ sendTerminal = {} /\ sendComplete = {} /\ recvTerminal = {}
  /\ stopped = {}
  /\ dropNote = FALSE /\ todo = {}
  /\ at = [t \in Tasks |-> "idle"]
  /\ on = [t \in Tasks |-> NoStream]
  /\ back = [t \in Tasks |-> "idle"]
  /\ acceptor = [a \in Acceptors |-> "idle"]
  /\ permit = FALSE /\ woken = {}
  /\ ops \in Scenarios

Allowed(op) == op \in ops

Goto(t, l) == at' = [at EXCEPT ![t] = l]

\* Task t continues at l; between two pieces of work it has no stream.
Continue(t, l) ==
  /\ at' = [at EXCEPT ![t] = l]
  /\ on' = IF l = "recv" THEN on ELSE [on EXCEPT ![t] = NoStream]

\* Task t calls try_retire_stream(s) and then continues at l.
CallRetire(t, s, l) ==
  /\ at' = [at EXCEPT ![t] = "look"]
  /\ on' = [on EXCEPT ![t] = s]
  /\ back' = [back EXCEPT ![t] = l]

-----------------------------------------------------------------------------
(* try_retire_stream, run by task t. *)

\* The stream is still registered and both directions are over.
RetireLook(t) ==
  /\ at[t] = "look"
  /\ IF on[t] \in map \cap sendComplete \cap recvTerminal
     THEN Goto(t, "release") /\ UNCHANGED on
     ELSE Continue(t, back[t])
  /\ UNCHANGED <<admission, map, incoming, handles, ends, stopped, back, todo,
                 accepting, ops>>

\* Mutant: a permit is returned whoever comes second.
RetireReleaseTwice(t) ==
  /\ at[t] = "release"
  /\ held' = held \ {on[t]}
  /\ free' = free + 1
  /\ Goto(t, "remove")
  /\ UNCHANGED <<opened, map, incoming, handles, ends, stopped, on,
                 back, todo, accepting, ops>>

\* release_open_permit
RetireRelease(t) ==
  /\ at[t] = "release"
  /\ held' = held \ {on[t]}
  /\ free' = IF on[t] \in held THEN free + 1 ELSE free
  /\ Goto(t, "remove")
  /\ UNCHANGED <<opened, map, incoming, handles, ends, stopped, on,
                 back, todo, accepting, ops>>

\* The map is locked again and both flags are loaded again.
RetireRemove(t) ==
  /\ at[t] = "remove"
  /\ map' = IF on[t] \in sendTerminal \cap recvTerminal
            THEN map \ {on[t]} ELSE map
  /\ Continue(t, back[t])
  /\ UNCHANGED <<admission, incoming, handles, ends, stopped, back, todo,
                 accepting, ops>>

Retire(t) == RetireLook(t) \/ RetireRelease(t) \/ RetireRemove(t)

-----------------------------------------------------------------------------
(* Opening and accepting. *)

\* Mutant: nobody waiting, nothing is stored.
NotifyOneForgotten ==
  LET asleep == {a \in Acceptors : acceptor[a] = "wait" /\ a \notin woken} IN
  IF asleep = {} THEN UNCHANGED <<permit, woken>>
  ELSE \E a \in asleep : woken' = woken \cup {a} /\ UNCHANGED permit

\* incoming_notify.notify_one
NotifyOne ==
  LET asleep == {a \in Acceptors : acceptor[a] = "wait" /\ a \notin woken} IN
  IF asleep = {} THEN permit' = TRUE /\ UNCHANGED woken
  ELSE \E a \in asleep : woken' = woken \cup {a} /\ UNCHANGED permit

\* on_remote_open: an OPEN that finds no permit fails the connection.
RecvOpen(s) ==
  /\ at["reader"] = "idle" /\ s \in Remote \ opened
  /\ IF free > 0
     THEN /\ free' = free - 1 /\ held' = held \cup {s}
          /\ opened' = opened \cup {s}
          /\ on' = [on EXCEPT !["reader"] = s]
          /\ Goto("reader", "insert")
     ELSE Goto("reader", "failed") /\ UNCHANGED <<admission, on>>
  /\ UNCHANGED <<map, incoming, handles, ends, stopped, back, todo,
                 accepting, ops>>

ReaderInsert ==
  /\ at["reader"] = "insert"
  /\ map' = map \cup {on["reader"]}
  /\ Goto("reader", "push")
  /\ UNCHANGED <<admission, incoming, handles, ends, stopped, on, back,
                 todo, accepting, ops>>

\* The queue of unaccepted streams is bounded by max_open_streams.
ReaderPush ==
  /\ at["reader"] = "push"
  /\ IF Len(incoming) < MaxOpen
     THEN /\ incoming' = Append(incoming, on["reader"])
          /\ NotifyOne
          /\ Continue("reader", "idle")
     ELSE /\ Continue("reader", "failed")
          /\ UNCHANGED <<incoming, permit, woken>>
  /\ UNCHANGED <<admission, map, handles, ends, stopped, back, todo, acceptor,
                 ops>>

\* open_bi: permit, map and OPEN; the locks are taken before the ID.
OpenBi(s) ==
  /\ s \in Local \ opened /\ free > 0
  /\ free' = free - 1 /\ held' = held \cup {s} /\ opened' = opened \cup {s}
  /\ map' = map \cup {s}
  /\ sendHandles' = sendHandles \cup {s} /\ recvHandles' = recvHandles \cup {s}
  /\ UNCHANGED <<incoming, sendDropped, recvDropped, dropNote, ends, stopped,
                 tasks, accepting, ops>>

\* accept_bi from the creation of its Notified to the unlock of the queue.
AcceptCheck(a) ==
  /\ acceptor[a] \in {"idle", "again"} \/ (acceptor[a] = "wait" /\ a \in woken)
  /\ woken' = woken \ {a}
  /\ IF incoming = <<>>
     THEN /\ acceptor' = [acceptor EXCEPT ![a] = "poll"]
          /\ UNCHANGED <<incoming, sendHandles, recvHandles>>
     ELSE /\ acceptor' = [acceptor EXCEPT ![a] = "idle"]
          /\ incoming' = Tail(incoming)
          /\ sendHandles' = sendHandles \cup {Head(incoming)}
          /\ recvHandles' = recvHandles \cup {Head(incoming)}
  /\ UNCHANGED <<admission, map, sendDropped, recvDropped, dropNote, ends,
                 stopped, tasks, permit, ops>>

\* The first poll takes a stored permit or registers the call.
AcceptPoll(a) ==
  /\ acceptor[a] = "poll"
  /\ acceptor' = [acceptor EXCEPT ![a] = IF permit THEN "again" ELSE "wait"]
  /\ permit' = FALSE
  /\ UNCHANGED <<admission, map, incoming, handles, ends, stopped,
                 tasks, woken, ops>>

\* A waiting accept_bi is dropped; a notification it got goes to another.
AcceptCancel(a) ==
  /\ acceptor[a] = "wait"
  /\ acceptor' = [acceptor EXCEPT ![a] = "idle"]
  /\ woken' = woken \ {a}
  /\ permit' = (permit \/ a \in woken)
  /\ UNCHANGED <<admission, map, incoming, handles, ends, stopped,
                 tasks, ops>>

-----------------------------------------------------------------------------
(* The ends of the directions. *)

\* Mutant: the retirement is left to the writer task.
RecvEndUnretired(s) ==
  /\ at["reader"] = "idle" /\ s \in map \ recvTerminal
  /\ recvTerminal' = recvTerminal \cup {s}
  /\ UNCHANGED <<admission, map, incoming, handles, ending, resets, storing,
                 dispatched, sendTerminal, sendComplete, stopped, tasks,
                 accepting, ops>>

\* The peer's FIN or RESET: mark_recv_terminal, then retirement.
RecvEnd(s) ==
  /\ at["reader"] = "idle" /\ s \in map \ recvTerminal
  /\ recvTerminal' = recvTerminal \cup {s}
  /\ CallRetire("reader", s, "idle")
  /\ UNCHANGED <<admission, map, incoming, handles, ending, resets, storing,
                 dispatched, sendTerminal, sendComplete, stopped, todo,
                 accepting, ops>>

\* reset_stream, under the queue lock: a RESET replaces a queued FIN, not one
\* that has been taken; a second RESET changes nothing.
ResetStream(s) ==
  IF s \in dispatched \cup resetQueued
  THEN UNCHANGED <<ending, resetQueued, sendTerminal>>
  ELSE /\ ending' = ending \cup {s}
       /\ resetQueued' = resetQueued \cup {s}
       /\ sendTerminal' = sendTerminal \cup {s}

\* reset_stream on a full control queue: an error, and nothing is queued.
ResetFails(s) ==
  /\ Allowed("full") /\ s \notin dispatched \cup resetQueued
  /\ UNCHANGED <<ending, resetQueued, sendTerminal>>

\* STOP_SENDING; a stream that has been retired ignores it, and a RESET that
\* cannot be queued fails the connection.
RecvStop(s) ==
  /\ at["reader"] = "idle" /\ s \in map
  /\ \/ ResetStream(s) /\ UNCHANGED at
     \/ ResetFails(s) /\ Goto("reader", "failed")
  /\ UNCHANGED <<admission, map, incoming, handles, refused, storing, dispatched,
                 sendComplete, recvTerminal, stopped, on, back, todo, accepting,
                 ops>>

\* The application's reset; when it fails the application has the error, and
\* nothing has changed.
Reset(s) ==
  /\ s \in sendHandles
  /\ ResetStream(s)
  /\ UNCHANGED <<admission, map, incoming, handles, refused, storing, dispatched,
                 sendComplete, recvTerminal, stopped, tasks, accepting, ops>>

\* finish: the FIN is queued, and send_terminal stored by a later instruction.
Finish(s) ==
  /\ s \in sendHandles \ (sendTerminal \cup storing)
  /\ ending' = ending \cup {s} /\ storing' = storing \cup {s}
  /\ UNCHANGED <<admission, map, incoming, handles, resets, dispatched, sendTerminal,
                 sendComplete, recvTerminal, stopped, tasks, accepting, ops>>

FinishStore(s) ==
  /\ s \in storing
  /\ storing' = storing \ {s} /\ sendTerminal' = sendTerminal \cup {s}
  /\ UNCHANGED <<admission, map, incoming, handles, ending, resets, dispatched,
                 sendComplete, recvTerminal, stopped, tasks, accepting, ops>>

\* The writer task takes a FIN or RESET, sends it, ...
SendEnd(s) ==
  /\ at["writer"] = "idle" /\ s \in ending
  /\ ending' = ending \ {s}
  /\ dispatched' = IF s \in resetQueued THEN dispatched ELSE dispatched \cup {s}
  /\ Goto("writer", "sent") /\ on' = [on EXCEPT !["writer"] = s]
  /\ UNCHANGED <<admission, map, incoming, handles, resets, storing, sendTerminal,
                 sendComplete, recvTerminal, stopped, back, todo, accepting, ops>>

\* ... records that the direction is complete, and tries to retire the stream.
EndSent ==
  /\ at["writer"] = "sent"
  /\ sendComplete' = IF on["writer"] \in map
                     THEN sendComplete \cup {on["writer"]} ELSE sendComplete
  /\ CallRetire("writer", on["writer"], "idle")
  /\ UNCHANGED <<admission, map, incoming, handles, ending, resets, storing,
                 dispatched, sendTerminal, recvTerminal, stopped, todo, accepting,
                 ops>>

-----------------------------------------------------------------------------
(* Dropped handles and the cleanup task. *)

\* A finish in progress borrows the handle.
DropSend(s) ==
  /\ s \in sendHandles \ storing
  /\ sendHandles' = sendHandles \ {s}
  /\ sendDropped' = sendDropped \cup {s} /\ dropNote' = TRUE
  /\ UNCHANGED <<admission, map, incoming, recvHandles, recvDropped, ends,
                 stopped, tasks, accepting, ops>>

DropRecv(s) ==
  /\ s \in recvHandles
  /\ recvHandles' = recvHandles \ {s}
  /\ recvDropped' = recvDropped \cup {s} /\ dropNote' = TRUE
  /\ UNCHANGED <<admission, map, incoming, sendHandles, sendDropped, ends,
                 stopped, tasks, accepting, ops>>

\* drop_notify wakes the task, which takes a snapshot of the map.
CleanerWake ==
  /\ at["cleaner"] = "idle" /\ dropNote
  /\ dropNote' = FALSE /\ todo' = map
  /\ Goto("cleaner", "scan")
  /\ UNCHANGED <<admission, map, incoming, sendHandles, recvHandles, sendDropped,
                 recvDropped, ends, stopped, on, back, accepting, ops>>

\* Mutant: a drop announced during the sweep is forgotten with it.
CleanerNextForgets ==
  /\ at["cleaner"] = "scan"
  /\ \/ /\ todo = {} /\ dropNote' = FALSE
        /\ Goto("cleaner", "idle") /\ UNCHANGED <<todo, on>>
     \/ \E s \in todo :
          /\ todo' = todo \ {s} /\ UNCHANGED dropNote
          /\ on' = [on EXCEPT !["cleaner"] = s]
          /\ Goto("cleaner", "send")
  /\ UNCHANGED <<admission, map, incoming, sendHandles, recvHandles, sendDropped,
                 recvDropped, ends, stopped, back, accepting, ops>>

\* One stream of the snapshot after the other.
CleanerNext ==
  /\ at["cleaner"] = "scan"
  /\ \/ /\ todo = {}
        /\ Goto("cleaner", "idle") /\ UNCHANGED <<todo, on>>
     \/ \E s \in todo :
          /\ todo' = todo \ {s}
          /\ on' = [on EXCEPT !["cleaner"] = s]
          /\ Goto("cleaner", "send")
  /\ UNCHANGED <<admission, map, incoming, handles, ends, stopped, back,
                 accepting, ops>>

\* Mutant: a finished direction needs nothing, retirement included.
CleanerSendOnlyUnfinished ==
  /\ at["cleaner"] = "send"
  /\ LET s == on["cleaner"] IN
     IF s \in sendDropped \ sendTerminal
     THEN /\ sendDropped' = sendDropped \ {s}
          /\ ResetStream(s)
          /\ CallRetire("cleaner", s, "recv")
     ELSE /\ Goto("cleaner", "recv")
          /\ sendDropped' = sendDropped \ {s}
          /\ UNCHANGED <<ending, resetQueued, sendTerminal, on, back>>
  /\ UNCHANGED <<admission, map, incoming, sendHandles, recvHandles, recvDropped,
                 dropNote, refused, storing, dispatched, sendComplete, recvTerminal,
                 stopped, todo, accepting, ops>>

\* handle_last_send_drop: an unfinished direction is reset.  The flag has been
\* taken by then, and the error of a reset that fails is dropped.
CleanerSend ==
  /\ at["cleaner"] = "send"
  /\ LET s == on["cleaner"] IN
     IF s \in sendDropped
     THEN /\ sendDropped' = sendDropped \ {s}
          /\ \/ /\ IF s \in sendTerminal
                   THEN UNCHANGED <<ending, resetQueued, sendTerminal>>
                   ELSE ResetStream(s)
                /\ UNCHANGED refused
             \/ /\ s \notin sendTerminal /\ ResetFails(s)
                /\ refused' = refused \cup {s}
          /\ CallRetire("cleaner", s, "recv")
     ELSE /\ Goto("cleaner", "recv")
          /\ UNCHANGED <<sendDropped, ending, resets, sendTerminal, on, back>>
  /\ UNCHANGED <<admission, map, incoming, sendHandles, recvHandles, recvDropped,
                 dropNote, storing, dispatched, sendComplete, recvTerminal,
                 stopped, todo, accepting, ops>>

\* handle_last_recv_drop: the peer is asked to stop; a full control queue ends
\* the connection.
CleanerRecv ==
  /\ at["cleaner"] = "recv"
  /\ LET s == on["cleaner"] IN
     IF s \in recvDropped
     THEN /\ recvDropped' = recvDropped \ {s}
          /\ \/ /\ stopped' = IF s \in recvTerminal THEN stopped
                                                   ELSE stopped \cup {s}
                /\ CallRetire("cleaner", s, "scan")
             \/ /\ Allowed("full") /\ s \notin recvTerminal
                /\ Continue("cleaner", "failed")
                /\ UNCHANGED <<stopped, back>>
     ELSE /\ Continue("cleaner", "scan")
          /\ UNCHANGED <<recvDropped, stopped, back>>
  /\ UNCHANGED <<admission, map, incoming, sendHandles, recvHandles, sendDropped,
                 dropNote, ends, todo, accepting, ops>>

-----------------------------------------------------------------------------
Reader == ReaderInsert \/ ReaderPush
Writer == EndSent
Cleaner == CleanerWake \/ CleanerNext \/ CleanerSend \/ CleanerRecv

Next ==
  \/ \E t \in Tasks : Retire(t)
  \/ Reader \/ Writer \/ Cleaner
  \/ \E s \in Remote : Allowed(s) /\ RecvOpen(s)
  \/ \E s \in Local : Allowed(s) /\ OpenBi(s)
  \/ \E a \in Acceptors :
       AcceptCheck(a) \/ AcceptPoll(a) \/ (Allowed("cancel") /\ AcceptCancel(a))
  \/ \E s \in Streams :
       \/ RecvEnd(s) \/ SendEnd(s) \/ FinishStore(s)
       \/ Allowed("finish") /\ Finish(s)
       \/ Allowed("reset") /\ Reset(s)
       \/ Allowed("stop") /\ RecvStop(s)
       \/ Allowed("drop") /\ (DropSend(s) \/ DropRecv(s))

\* The runtime runs the three tasks and the application's started finish, and
\* the transport takes a RESET, which needs no credit; a FIN may wait behind data
\* for ever.  The peer ends a direction it was asked to stop.
Fairness ==
  /\ WF_vars(Retire("reader") \/ Reader)
  /\ WF_vars(\/ Retire("writer") \/ Writer
             \/ \E s \in Streams : s \in resetQueued /\ SendEnd(s))
  /\ WF_vars(Retire("cleaner") \/ Cleaner)
  /\ \A s \in Streams :
       /\ WF_vars(FinishStore(s))
       /\ SF_vars(s \in stopped /\ RecvEnd(s))

Spec == Init /\ [][Next]_vars /\ Fairness

-----------------------------------------------------------------------------
(* Properties. *)

Places == {"idle", "look", "release", "remove", "insert", "push", "failed",
           "sent", "scan", "send", "recv"}

\* TypeOK: types; a permit is free or with a stream.
TypeOK ==
  /\ {opened, held, map, sendHandles, recvHandles, sendDropped, recvDropped,
      ending, resetQueued, refused, storing, dispatched, sendTerminal,
      sendComplete, recvTerminal, stopped, todo} \subseteq SUBSET Streams
  /\ free = MaxOpen - Cardinality(held)
  /\ at \in [Tasks -> Places] /\ back \in [Tasks -> Places]
  /\ on \in [Tasks -> Streams \cup {NoStream}]
  /\ acceptor \in [Acceptors -> {"idle", "poll", "wait", "again"}]
  /\ woken \subseteq Acceptors /\ {permit, dropNote} \subseteq BOOLEAN

Over(s) == s \in sendComplete \cap recvTerminal
Retiring(s, places) == \E t \in Tasks : on[t] = s /\ at[t] \in places

\* PermitComesBack: a stream whose two directions are over never keeps its
\* permit of max_open_streams unless a task is about to return it: of the writer
\* that stores send_complete and the reader that stores recv_terminal, each
\* looking at the other's flag afterwards, one sees both.
PermitComesBack ==
  \A s \in map \cap held : Over(s) => Retiring(s, {"look", "release"})

\* LeavesTheMap: it stays registered only while a task is about to remove it, or
\* its send handle has not been cleaned up: a retirement that runs between the
\* queued FIN and the store of send_terminal is made up for by the cleanup task.
LeavesTheMap ==
  \A s \in map : Over(s) =>
    \/ Retiring(s, {"look", "release", "remove"})
    \/ s \in sendHandles \cup sendDropped

\* AcceptorAwake: an accept_bi that sleeps on incoming_notify has no stream to
\* return.
AcceptorAwake ==
  \A a \in Acceptors : acceptor[a] = "wait" /\ a \notin woken => incoming = <<>>

\* The application has had both halves of s and holds neither.
Dropped(s) ==
  /\ s \in map \ (sendHandles \cup recvHandles)
  /\ \A i \in DOMAIN incoming : incoming[i] # s
  /\ at["reader"] = "push" => on["reader"] # s

\* The reader or the cleanup task has ended the connection.
Failed == \E t \in Tasks : at[t] = "failed"

FinWaits(s) == s \in ending \ resetQueued

\* DroppedStreamsRetire: while neither half of a stream is with the application,
\* whichever was dropped first, its FIN waits for credit, or its RESET was refused
\* and nothing has ended the direction since, or it leaves the registry and
\* returns its permit: no drop is lost between two sweeps of the cleanup task.
DroppedStreamsRetire ==
  \A s \in Streams :
    Dropped(s) ~> \/ s \notin map \cup held
                  \/ FinWaits(s)
                  \/ s \in refused \ sendTerminal
                  \/ Failed

\* DroppedSendsEnd: a send handle dropped before its direction has ended resets
\* the direction (FLOW_CONTROL), unless the connection ends.
DroppedSendsEnd ==
  \A s \in Streams : s \in sendDropped ~> s \in sendTerminal \/ Failed

=============================================================================
