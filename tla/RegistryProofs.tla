--------------------------- MODULE RegistryProofs ---------------------------
(***************************************************************************)
(* Proofs about Registry for any sets of streams and any limit: a stream       *)
(* whose two directions are over returns its permit and leaves the map,         *)
(* however the reader, the writer and the cleanup task interleave their          *)
(* unlocked retirements.                                                      *)
(*                                                                           *)
(* The two properties are not inductive alone.  RInv adds that a stream's       *)
(* flags are set only after it was opened, that the reader inserts a stream      *)
(* whose receive direction is not over, and that a sent FIN or RESET whose       *)
(* send_terminal is not stored yet belongs to a finish that still owns the       *)
(* send handle: the case in which retirement keeps the stream in the map.        *)
(***************************************************************************)
EXTENDS Registry, FiniteSetTheorems, TLAPS

TasksInv ==
  /\ at \in [Tasks -> Places] /\ on \in [Tasks -> Streams \cup {NoStream}]
  /\ back \in [Tasks -> {"idle", "recv", "scan"}]
  /\ todo \cup map \subseteq Streams
  /\ at["reader"] = "insert" => on["reader"] \in Streams

OpenedInv ==
  /\ map \subseteq opened /\ recvTerminal \subseteq opened
  /\ at["reader"] = "insert" => on["reader"] \in opened \ recvTerminal

EndsInv ==
  /\ storing \subseteq sendHandles
  /\ ending \cup sendComplete \subseteq sendTerminal \cup storing
  /\ at["writer"] = "sent" => on["writer"] \in sendTerminal \cup storing

RInv == TasksInv /\ OpenedInv /\ EndsInv /\ PermitComesBack /\ LeavesTheMap

\* What the two properties speak of.
view == <<map, held, sendComplete, recvTerminal, sendHandles, sendDropped, at, on>>

-----------------------------------------------------------------------------
\* RInvInit: a new connection has no streams.
LEMMA RInvInit == Init => RInv
BY Zenon DEF Init, RInv, TasksInv, OpenedInv, EndsInv, PermitComesBack, LeavesTheMap,
   Places, Tasks

\* TasksKeep: every task stays at a place of its code.
LEMMA TasksKeep == TasksInv /\ [Next]_vars => TasksInv'
<1> SUFFICES ASSUME TasksInv, [Next]_vars PROVE TasksInv'
  BY Zenon
<1> USE DEF TasksInv, Tasks, Places, Streams
<1>1. ASSUME NEW t \in Tasks, Retire(t) PROVE TasksInv'
  BY <1>1, SMTT(30) DEF Retire, RetireLook, RetireRelease, RetireRemove, Goto, Continue
<1>2. ASSUME Reader \/ \E s \in Remote : RecvOpen(s) PROVE TasksInv'
  <2>1. CASE ReaderInsert
    BY <2>1, Zenon DEF ReaderInsert, Goto
  <2>2. CASE ReaderPush
    BY <2>2, SMTT(30) DEF ReaderPush, Continue
  <2>3. ASSUME NEW s \in Remote, RecvOpen(s) PROVE TasksInv'
    BY <2>3, SMTT(30) DEF RecvOpen, Goto
  <2> QED BY <1>2, <2>1, <2>2, <2>3, Zenon DEF Reader
<1>3. ASSUME Writer \/ \E s \in Streams : SendEnd(s) PROVE TasksInv'
  BY <1>3, SMTT(30) DEF Writer, EndSent, SendEnd, Goto, CallRetire
<1>4. CASE CleanerWake
  BY <1>4, Zenon DEF CleanerWake, Goto
<1>5. CASE CleanerNext
  <2>1. CASE todo = {} /\ Goto("cleaner", "idle") /\ UNCHANGED <<todo, on>>
    BY <1>5, <2>1, Zenon DEF CleanerNext, Goto
  <2>2. ASSUME NEW s \in todo, Goto("cleaner", "send"),
               on' = [on EXCEPT !["cleaner"] = s]
        PROVE  TasksInv'
    BY <1>5, <2>2, Zenon DEF CleanerNext, Goto
  <2> QED BY <1>5, <2>1, <2>2, Zenon DEF CleanerNext
<1>6. CASE CleanerSend \/ CleanerRecv
  BY <1>6, SMTT(30) DEF CleanerSend, CleanerRecv, Goto, Continue, CallRetire
<1>7. ASSUME NEW s \in Local, OpenBi(s) PROVE TasksInv'
  BY <1>7, Zenon DEF OpenBi, tasks
<1>8. ASSUME NEW s \in Streams, RecvEnd(s) PROVE TasksInv'
  BY <1>8, Zenon DEF RecvEnd, CallRetire
<1>9. CASE UNCHANGED <<tasks, map>>
  BY <1>9, Zenon DEF tasks
<1>10. ASSUME NEW a \in Acceptors, AcceptCheck(a) \/ AcceptPoll(a) \/ AcceptCancel(a)
       PROVE  UNCHANGED <<tasks, map>>
  BY <1>10, Zenon DEF AcceptCheck, AcceptPoll, AcceptCancel
<1>11. ASSUME NEW s \in Streams,
              \/ FinishStore(s) \/ Finish(s) \/ Reset(s)
              \/ DropSend(s) \/ DropRecv(s)
       PROVE  UNCHANGED <<tasks, map>>
  BY <1>11, Zenon DEF FinishStore, Finish, Reset, DropSend, DropRecv
<1>12. ASSUME NEW s \in Streams, RecvStop(s) PROVE TasksInv'
  BY <1>12, ZenonT(40) DEF RecvStop, Goto
<1> QED
  BY <1>1, <1>2, <1>3, <1>4, <1>5, <1>6, <1>7, <1>8, <1>9, <1>10, <1>11, <1>12,
     ZenonT(40)
  DEF Next, Cleaner, vars

\* OpenedKeep: only an opened stream is registered or ended by the peer.
LEMMA OpenedKeep == RInv /\ [Next]_vars => OpenedInv'
<1> SUFFICES ASSUME RInv, [Next]_vars PROVE OpenedInv'
  BY Zenon
<1> USE DEF RInv, OpenedInv, TasksInv, Tasks, Streams
<1>1. ASSUME NEW t \in Tasks, Retire(t) PROVE OpenedInv'
  BY <1>1, ZenonT(40) DEF Retire, RetireLook, RetireRelease, RetireRemove, Goto, Continue,
     admission, ends
<1>2. CASE ReaderInsert
  BY <1>2, Zenon DEF ReaderInsert, Goto, admission, ends
<1>3. CASE ReaderPush
  BY <1>3, Zenon DEF ReaderPush, Continue, admission, ends
<1>4. ASSUME NEW s \in Remote, RecvOpen(s) PROVE OpenedInv'
  BY <1>4, Zenon DEF RecvOpen, Goto, admission, ends
<1>5. ASSUME NEW s \in Local, OpenBi(s) PROVE OpenedInv'
  BY <1>5, Zenon DEF OpenBi, tasks, ends
<1>6. ASSUME NEW s \in Streams, RecvEnd(s) PROVE OpenedInv'
  BY <1>6, Zenon DEF RecvEnd, CallRetire, admission
<1>7. CASE Writer
  BY <1>7, Zenon DEF Writer, EndSent, CallRetire, admission
<1>8. ASSUME NEW s \in Streams, SendEnd(s) PROVE OpenedInv'
  BY <1>8, Zenon DEF SendEnd, Goto, admission
<1>9. CASE CleanerWake
  BY <1>9, Zenon DEF CleanerWake, Goto, admission, ends
<1>10. CASE CleanerNext
  BY <1>10, Zenon DEF CleanerNext, Goto, admission, ends
<1>11. CASE CleanerSend
  BY <1>11, Zenon DEF CleanerSend, Goto, CallRetire, admission
<1>12. CASE CleanerRecv
  BY <1>12, ZenonT(40) DEF CleanerRecv, Continue, CallRetire, admission, ends
<1>13. CASE UNCHANGED <<opened, map, recvTerminal, at, on>>
  BY <1>13, Zenon
<1>14. ASSUME NEW a \in Acceptors, AcceptCheck(a) \/ AcceptPoll(a) \/ AcceptCancel(a)
       PROVE  UNCHANGED <<opened, map, recvTerminal, at, on>>
  BY <1>14, Zenon DEF AcceptCheck, AcceptPoll, AcceptCancel, admission, ends, tasks
<1>15. ASSUME NEW s \in Streams,
              \/ FinishStore(s) \/ Finish(s) \/ Reset(s)
              \/ DropSend(s) \/ DropRecv(s)
       PROVE  UNCHANGED <<opened, map, recvTerminal, at, on>>
  BY <1>15, Zenon DEF FinishStore, Finish, Reset, DropSend, DropRecv,
     admission, ends, tasks
<1>16. ASSUME NEW s \in Streams, RecvStop(s) PROVE OpenedInv'
  BY <1>16, Zenon DEF RecvStop, Goto, admission
<1> QED
  BY <1>1, <1>2, <1>3, <1>4, <1>5, <1>6, <1>7, <1>8, <1>9, <1>10, <1>11, <1>12,
     <1>13, <1>14, <1>15, <1>16, ZenonT(40)
  DEF Next, Reader, Cleaner, vars, admission, ends, tasks

\* EndsKeep: a FIN or RESET is queued, sent or recorded only for a stream whose
\* send_terminal is stored or about to be stored by the finish that owns it.
LEMMA EndsKeep == RInv /\ [Next]_vars => EndsInv'
<1> SUFFICES ASSUME RInv, [Next]_vars PROVE EndsInv'
  BY Zenon
<1> USE DEF RInv, EndsInv, TasksInv, Tasks, Streams
<1>1. ASSUME NEW t \in Tasks, Retire(t) PROVE EndsInv'
  BY <1>1, ZenonT(40) DEF Retire, RetireLook, RetireRelease, RetireRemove, Goto, Continue,
     handles, ends
<1>2. ASSUME Reader \/ \E s \in Remote : RecvOpen(s) PROVE EndsInv'
  BY <1>2, SMTT(30) DEF Reader, ReaderInsert, ReaderPush, RecvOpen, Goto, Continue,
     handles, ends
<1>3. ASSUME NEW s \in Local, OpenBi(s) PROVE EndsInv'
  BY <1>3, Zenon DEF OpenBi, tasks, ends
<1>4. ASSUME NEW a \in Acceptors, AcceptCheck(a) \/ AcceptPoll(a) \/ AcceptCancel(a)
      PROVE  EndsInv'
  BY <1>4, Zenon DEF AcceptCheck, AcceptPoll, AcceptCancel, handles, ends, tasks
<1>5. ASSUME NEW s \in Streams, RecvEnd(s) PROVE EndsInv'
  BY <1>5, Zenon DEF RecvEnd, CallRetire, handles
<1>6. ASSUME NEW s \in Streams, Finish(s) \/ FinishStore(s) PROVE EndsInv'
  BY <1>6, Zenon DEF Finish, FinishStore, handles, tasks
<1>7. ASSUME NEW s \in Streams, Reset(s) \/ RecvStop(s) PROVE EndsInv'
  <2>1. CASE Reset(s)
    BY <2>1, Zenon DEF Reset, ResetStream, handles, tasks
  <2>2. CASE RecvStop(s)
    BY <2>2, SMTT(30) DEF RecvStop, ResetStream, ResetFails, Goto, handles
  <2> QED BY <1>7, <2>1, <2>2, Zenon
<1>8. ASSUME NEW s \in Streams, DropSend(s) \/ DropRecv(s) PROVE EndsInv'
  BY <1>8, Zenon DEF DropSend, DropRecv, ends, tasks
<1>9. ASSUME NEW s \in Streams, SendEnd(s) PROVE EndsInv'
  BY <1>9, Zenon DEF SendEnd, Goto, handles
<1>10. CASE Writer
  BY <1>10, Zenon DEF Writer, EndSent, CallRetire, handles
<1>11. CASE CleanerWake
  BY <1>11, Zenon DEF CleanerWake, Goto, ends
<1>12. CASE CleanerNext
  BY <1>12, Zenon DEF CleanerNext, Goto, handles, ends
<1>13. CASE CleanerSend
  BY <1>13, SMTT(30) DEF CleanerSend, ResetStream, ResetFails, Goto, CallRetire, resets
<1>14. CASE CleanerRecv
  BY <1>14, SMTT(30) DEF CleanerRecv, Continue, CallRetire, ends
<1>15. CASE UNCHANGED vars
  BY <1>15, Zenon DEF vars, handles, ends, tasks
<1> QED
  BY <1>1, <1>2, <1>3, <1>4, <1>5, <1>6, <1>7, <1>8, <1>9, <1>10, <1>11, <1>12,
     <1>13, <1>14, <1>15, ZenonT(40)
  DEF Next, Cleaner

\* PermitKeeps: a task that could have returned the permit of an ended stream
\* has returned it, or found that another task will.
LEMMA PermitKeeps == RInv /\ [Next]_vars => PermitComesBack'
<1> SUFFICES ASSUME RInv, [Next]_vars PROVE PermitComesBack'
  BY Zenon
<1> USE DEF RInv, TasksInv, OpenedInv, EndsInv, PermitComesBack, Over, Retiring, Tasks
<1>1. ASSUME NEW t \in Tasks, RetireLook(t) PROVE PermitComesBack'
  BY <1>1, SMTT(30) DEF RetireLook, Goto, Continue, admission, handles, ends
<1>2. ASSUME NEW t \in Tasks, RetireRelease(t) PROVE PermitComesBack'
  BY <1>2, SMTT(30) DEF RetireRelease, Goto, handles, ends
<1>3. ASSUME NEW t \in Tasks, RetireRemove(t) PROVE PermitComesBack'
  BY <1>3, SMTT(30) DEF RetireRemove, Continue, admission, handles, ends
<1>4. CASE ReaderInsert
  BY <1>4, SMTT(30) DEF ReaderInsert, Goto, admission, handles, ends
<1>5. CASE ReaderPush
  BY <1>5, SMTT(30) DEF ReaderPush, Continue, admission, handles, ends
<1>6. ASSUME NEW s \in Remote, RecvOpen(s) PROVE PermitComesBack'
  BY <1>6, SMTT(30) DEF RecvOpen, Goto, admission, handles, ends
<1>7. ASSUME NEW s \in Local, OpenBi(s) PROVE PermitComesBack'
  BY <1>7, Zenon DEF OpenBi, tasks, ends
<1>8. ASSUME NEW s \in Streams, RecvEnd(s) PROVE PermitComesBack'
  BY <1>8, ZenonT(40) DEF RecvEnd, CallRetire, admission, handles
<1>9. ASSUME NEW s \in Streams, SendEnd(s) PROVE PermitComesBack'
  BY <1>9, SMTT(30) DEF SendEnd, Goto, admission, handles
<1>10. CASE EndSent
  BY <1>10, SMTT(30) DEF EndSent, CallRetire, admission, handles
<1>11. CASE CleanerWake
  BY <1>11, SMTT(30) DEF CleanerWake, Goto, admission, ends
<1>12. CASE CleanerNext
  BY <1>12, SMTT(30) DEF CleanerNext, Goto, admission, handles, ends
<1>13. CASE CleanerSend
  BY <1>13, SMTT(30) DEF CleanerSend, Goto, CallRetire, admission
<1>14. CASE CleanerRecv
  BY <1>14, SMTT(30) DEF CleanerRecv, Continue, CallRetire, admission, ends
<1>15. ASSUME NEW s \in Streams, FinishStore(s) \/ Finish(s) \/ Reset(s)
       PROVE  UNCHANGED view
  BY <1>15, Zenon DEF FinishStore, Finish, Reset, admission, handles, tasks, view
<1>16. ASSUME NEW s \in Streams, DropSend(s) \/ DropRecv(s) PROVE PermitComesBack'
  BY <1>16, ZenonT(40) DEF DropSend, DropRecv, admission, ends, tasks
<1>17. ASSUME NEW a \in Acceptors, AcceptCheck(a) PROVE PermitComesBack'
  BY <1>17, SMTT(30) DEF AcceptCheck, admission, ends, tasks
<1>18. ASSUME NEW a \in Acceptors, AcceptPoll(a) \/ AcceptCancel(a)
       PROVE  UNCHANGED view
  BY <1>18, Zenon DEF AcceptPoll, AcceptCancel, admission, handles, ends, tasks, view
<1>19. CASE UNCHANGED view
  BY <1>19, ZenonT(40) DEF view
<1>20. CASE UNCHANGED vars
  BY <1>19, <1>20, Zenon DEF vars, view, admission, handles, ends, tasks
<1>21. ASSUME NEW s \in Streams, RecvStop(s) PROVE PermitComesBack'
  BY <1>21, SMTT(30) DEF RecvStop, Goto, admission, handles
<1> QED
  BY <1>1, <1>2, <1>3, <1>4, <1>5, <1>6, <1>7, <1>8, <1>9, <1>10, <1>11, <1>12,
     <1>13, <1>14, <1>15, <1>16, <1>17, <1>18, <1>19, <1>20, <1>21,
     ZenonT(40)
  DEF Next, Retire, Reader, Writer, Cleaner

\* MapKeeps: a retirement that keeps an ended stream in the map leaves it to a
\* finish that still owns the send handle.
LEMMA MapKeeps == RInv /\ [Next]_vars => LeavesTheMap'
<1> SUFFICES ASSUME RInv, [Next]_vars PROVE LeavesTheMap'
  BY Zenon
<1> USE DEF RInv, TasksInv, OpenedInv, EndsInv, LeavesTheMap, Over, Retiring, Tasks
<1>1. ASSUME NEW t \in Tasks, RetireLook(t) PROVE LeavesTheMap'
  BY <1>1, SMTT(30) DEF RetireLook, Goto, Continue, admission, handles, ends
<1>2. ASSUME NEW t \in Tasks, RetireRelease(t) PROVE LeavesTheMap'
  BY <1>2, Zenon DEF RetireRelease, Goto, handles, ends
<1>3. ASSUME NEW t \in Tasks, RetireRemove(t) PROVE LeavesTheMap'
  BY <1>3, SMTT(30) DEF RetireRemove, Continue, admission, handles, ends
<1>4. CASE ReaderInsert
  BY <1>4, ZenonT(40) DEF ReaderInsert, Goto, admission, handles, ends
<1>5. CASE ReaderPush
  BY <1>5, SMTT(30) DEF ReaderPush, Continue, admission, handles, ends
<1>6. ASSUME NEW s \in Remote, RecvOpen(s) PROVE LeavesTheMap'
  BY <1>6, SMTT(30) DEF RecvOpen, Goto, admission, handles, ends
<1>7. ASSUME NEW s \in Local, OpenBi(s) PROVE LeavesTheMap'
  BY <1>7, ZenonT(40) DEF OpenBi, tasks, ends
<1>8. ASSUME NEW s \in Streams, RecvEnd(s) PROVE LeavesTheMap'
  BY <1>8, Zenon DEF RecvEnd, CallRetire, admission, handles
<1>9. ASSUME NEW s \in Streams, SendEnd(s) PROVE LeavesTheMap'
  BY <1>9, Zenon DEF SendEnd, Goto, admission, handles
<1>10. CASE EndSent
  BY <1>10, Zenon DEF EndSent, CallRetire, admission, handles
<1>11. CASE CleanerWake
  BY <1>11, Zenon DEF CleanerWake, Goto, admission, ends
<1>12. CASE CleanerNext
  BY <1>12, SMTT(30) DEF CleanerNext, Goto, admission, handles, ends
<1>13. CASE CleanerSend
  BY <1>13, SMTT(30) DEF CleanerSend, Goto, CallRetire, admission
<1>14. CASE CleanerRecv
  BY <1>14, SMTT(30) DEF CleanerRecv, Continue, CallRetire, admission, ends
<1>15. ASSUME NEW s \in Streams, FinishStore(s) \/ Finish(s) \/ Reset(s)
       PROVE  UNCHANGED view
  BY <1>15, Zenon DEF FinishStore, Finish, Reset, admission, handles, tasks, view
<1>16. ASSUME NEW s \in Streams, DropSend(s) \/ DropRecv(s) PROVE LeavesTheMap'
  BY <1>16, Zenon DEF DropSend, DropRecv, admission, ends, tasks
<1>17. ASSUME NEW a \in Acceptors, AcceptCheck(a) PROVE LeavesTheMap'
  BY <1>17, ZenonT(40) DEF AcceptCheck, admission, ends, tasks
<1>18. ASSUME NEW a \in Acceptors, AcceptPoll(a) \/ AcceptCancel(a)
       PROVE  UNCHANGED view
  BY <1>18, Zenon DEF AcceptPoll, AcceptCancel, admission, handles, ends, tasks, view
<1>19. CASE UNCHANGED view
  BY <1>19, Zenon DEF view
<1>20. CASE UNCHANGED vars
  BY <1>19, <1>20, Zenon DEF vars, view, admission, handles, ends, tasks
<1>21. ASSUME NEW s \in Streams, RecvStop(s) PROVE LeavesTheMap'
  BY <1>21, SMTT(30) DEF RecvStop, Goto, admission, handles
<1> QED
  BY <1>1, <1>2, <1>3, <1>4, <1>5, <1>6, <1>7, <1>8, <1>9, <1>10, <1>11, <1>12,
     <1>13, <1>14, <1>15, <1>16, <1>17, <1>18, <1>19, <1>20, <1>21,
     ZenonT(40)
  DEF Next, Retire, Reader, Writer, Cleaner

-----------------------------------------------------------------------------
\* RegistryInvariant: RInv is an inductive invariant of the registry.
THEOREM RegistryInvariant == Spec => []RInv
<1>1. Init => RInv
  BY RInvInit, Zenon
<1>2. RInv /\ [Next]_vars => RInv'
  BY TasksKeep, OpenedKeep, EndsKeep, PermitKeeps, MapKeeps, Zenon DEF RInv
<1> QED BY <1>1, <1>2, PTL DEF Spec

\* PermitsComeBack: with any number of streams and any max_open_streams, a
\* stream whose two directions are over has returned its permit or a task is in
\* try_retire_stream with it.
THEOREM PermitsComeBack == Spec => []PermitComesBack
<1>1. RInv => PermitComesBack
  BY Zenon DEF RInv
<1> QED BY RegistryInvariant, <1>1, PTL

\* StreamsLeaveTheMap: it has left shared.streams, a task is about to remove it,
\* or the cleanup task has still to see its send handle dropped.
THEOREM StreamsLeaveTheMap == Spec => []LeavesTheMap
<1>1. RInv => LeavesTheMap
  BY Zenon DEF RInv
<1> QED BY RegistryInvariant, <1>1, PTL


-----------------------------------------------------------------------------
(* Types, and the books of open_streams. *)

StreamSets ==
  /\ opened \subseteq Streams /\ map \subseteq Streams
  /\ sendHandles \subseteq Streams /\ recvHandles \subseteq Streams
  /\ sendDropped \subseteq Streams /\ recvDropped \subseteq Streams
  /\ ending \subseteq Streams /\ storing \subseteq Streams
  /\ resetQueued \subseteq Streams /\ refused \subseteq Streams
  /\ dispatched \subseteq Streams /\ sendTerminal \subseteq Streams
  /\ sendComplete \subseteq Streams /\ recvTerminal \subseteq Streams
  /\ stopped \subseteq Streams /\ todo \subseteq Streams
  /\ incoming \in Seq(Streams)
  /\ at["reader"] \in {"insert", "push"} => on["reader"] \in Streams

\* The books: what is not free is with the streams that hold it.
PermitInv ==
  /\ IsFiniteSet(held) /\ held \subseteq opened
  /\ free = MaxOpen - Cardinality(held)

\* The calls of accept_bi, and the notifications.
AcceptInv ==
  /\ acceptor \in [Acceptors -> {"idle", "poll", "wait", "again"}]
  /\ woken \subseteq Acceptors /\ permit \in BOOLEAN /\ dropNote \in BOOLEAN

\* StreamSetsInit: a new connection has no streams, all permits and no call of
\* accept_bi.
LEMMA StreamSetsInit == Init => StreamSets /\ PermitInv /\ AcceptInv
<1> SUFFICES ASSUME Init PROVE StreamSets /\ PermitInv /\ AcceptInv
  BY Zenon
<1>1. StreamSets
  BY SMTT(30) DEF Init, StreamSets, Tasks
<1>2. PermitInv
  BY FS_EmptySet, RegistryAssumption, SMTT(30) DEF Init, PermitInv
<1>3. AcceptInv
  BY Zenon DEF Init, AcceptInv
<1> QED BY <1>1, <1>2, <1>3, Zenon

\* StreamSetsKeep: every step adds only streams of the two peers to the sets,
\* for any number of streams.
LEMMA StreamSetsKeep == TasksInv /\ StreamSets /\ [Next]_vars => StreamSets'
<1> SUFFICES ASSUME TasksInv, StreamSets, [Next]_vars PROVE StreamSets'
  BY Zenon
<1> USE DEF StreamSets, TasksInv, Tasks, admission, handles, ends, resets, tasks
<1>1. ASSUME NEW t \in Tasks, Retire(t) PROVE StreamSets'
  BY <1>1, SMTT(30) DEF Retire, RetireLook, RetireRelease, RetireRemove, Goto, Continue
<1>2. CASE ReaderInsert
  BY <1>2, Zenon DEF ReaderInsert, Goto
<1>3. CASE ReaderPush
  <2>1. on["reader"] \in Streams
    BY <1>3, Zenon DEF ReaderPush
  <2>2. Append(incoming, on["reader"]) \in Seq(Streams)
    BY <2>1, SMTT(30)
  <2>3. incoming' \in Seq(Streams)
    BY <1>3, <2>2, Zenon DEF ReaderPush
  <2>4. at'["reader"] \notin {"insert", "push"}
    BY <1>3, ZenonT(40) DEF ReaderPush, Continue
  <2>5. UNCHANGED <<opened, map, handles, ends, stopped, todo>>
    BY <1>3, Zenon DEF ReaderPush
  <2> QED BY <2>3, <2>4, <2>5, Zenon
<1>4. ASSUME NEW s \in Remote, RecvOpen(s) PROVE StreamSets'
  BY <1>4, SMTT(30) DEF RecvOpen, Goto, Streams
<1>5. ASSUME NEW s \in Local, OpenBi(s) PROVE StreamSets'
  BY <1>5, Zenon DEF OpenBi, Streams
<1>6. ASSUME NEW a \in Acceptors, AcceptCheck(a) PROVE StreamSets'
  <2>1. incoming # <<>> => Head(incoming) \in Streams /\ Tail(incoming) \in Seq(Streams)
    BY SMTT(30)
  <2>2. incoming' \in Seq(Streams)
    BY <1>6, <2>1, Zenon DEF AcceptCheck
  <2>3. sendHandles' \subseteq Streams /\ recvHandles' \subseteq Streams
    BY <1>6, <2>1, Zenon DEF AcceptCheck
  <2>4. UNCHANGED <<opened, map, sendDropped, recvDropped, ends, stopped, tasks>>
    BY <1>6, Zenon DEF AcceptCheck
  <2> QED BY <2>2, <2>3, <2>4, Zenon
<1>7. ASSUME NEW a \in Acceptors, AcceptPoll(a) \/ AcceptCancel(a) PROVE StreamSets'
  BY <1>7, Zenon DEF AcceptPoll, AcceptCancel
<1>8. ASSUME NEW s \in Streams, RecvEnd(s) PROVE StreamSets'
  BY <1>8, Zenon DEF RecvEnd, CallRetire
<1>9. ASSUME NEW s \in Streams, Finish(s) \/ FinishStore(s) PROVE StreamSets'
  BY <1>9, Zenon DEF Finish, FinishStore
<1>10. ASSUME NEW s \in Streams, Reset(s) \/ RecvStop(s) PROVE StreamSets'
  <2>1. CASE Reset(s)
    BY <2>1, Zenon DEF Reset, ResetStream
  <2>2. CASE RecvStop(s)
    BY <2>2, SMTT(30) DEF RecvStop, ResetStream, ResetFails, Goto
  <2> QED BY <1>10, <2>1, <2>2, Zenon
<1>11. ASSUME NEW s \in Streams, DropSend(s) \/ DropRecv(s) PROVE StreamSets'
  BY <1>11, Zenon DEF DropSend, DropRecv
<1>12. ASSUME NEW s \in Streams, SendEnd(s) PROVE StreamSets'
  BY <1>12, Zenon DEF SendEnd, Goto
<1>13. CASE EndSent
  BY <1>13, Zenon DEF EndSent, CallRetire
<1>14. CASE CleanerWake
  BY <1>14, Zenon DEF CleanerWake, Goto
<1>15. CASE CleanerNext
  BY <1>15, ZenonT(40) DEF CleanerNext, Goto
<1>16. CASE CleanerSend
  BY <1>16, SMTT(30) DEF CleanerSend, ResetStream, ResetFails, Goto, CallRetire
<1>17. CASE CleanerRecv
  BY <1>17, SMTT(30) DEF CleanerRecv, Continue, CallRetire
<1>18. CASE UNCHANGED vars
  BY <1>18, Zenon DEF vars
<1> QED
  BY <1>1, <1>2, <1>3, <1>4, <1>5, <1>6, <1>7, <1>8, <1>9, <1>10, <1>11, <1>12,
     <1>13, <1>14, <1>15, <1>16, <1>17, <1>18, ZenonT(40)
  DEF Next, Reader, Writer, Cleaner

\* PermitTaken: open_bi and on_remote_open take one permit of open_streams for
\* a stream that holds none.
LEMMA PermitTaken ==
  ASSUME PermitInv, NEW s, s \notin opened, free' = free - 1,
         held' = held \cup {s}, opened' = opened \cup {s}
  PROVE  PermitInv'
<1>1. IsFiniteSet(held') /\ Cardinality(held') = Cardinality(held) + 1
  BY FS_AddElement, Zenon DEF PermitInv
<1>2. Cardinality(held) \in Nat
  BY FS_CardinalityType, Zenon DEF PermitInv
<1>3. held' \subseteq opened'
  BY Zenon DEF PermitInv
<1>4. free' = MaxOpen - Cardinality(held')
  BY <1>1, <1>2, RegistryAssumption, SMTT(30) DEF PermitInv
<1> QED BY <1>1, <1>3, <1>4, Zenon DEF PermitInv

\* PermitReturned: try_retire_stream gives the permit of a stream back once.
LEMMA PermitReturned ==
  ASSUME PermitInv, NEW s, free' = IF s \in held THEN free + 1 ELSE free,
         held' = held \ {s}, opened' = opened
  PROVE  PermitInv'
<1>1. IsFiniteSet(held')
      /\ Cardinality(held') = IF s \in held THEN Cardinality(held) - 1
                                            ELSE Cardinality(held)
  BY FS_RemoveElement, Zenon DEF PermitInv
<1>2. Cardinality(held) \in Nat
  BY FS_CardinalityType, Zenon DEF PermitInv
<1>3. held' \subseteq opened'
  BY Zenon DEF PermitInv
<1>4. free' = MaxOpen - Cardinality(held')
  BY <1>1, <1>2, RegistryAssumption, SMTT(30) DEF PermitInv
<1> QED BY <1>1, <1>3, <1>4, Zenon DEF PermitInv

\* PermitsKeep: every step keeps the account of permits, free ones and those
\* that streams hold.
LEMMA PermitsKeep == PermitInv /\ [Next]_vars => PermitInv'
<1> SUFFICES ASSUME PermitInv, [Next]_vars PROVE PermitInv'
  BY Zenon
<1>1. ASSUME NEW t \in Tasks, RetireRelease(t) PROVE PermitInv'
  BY <1>1, PermitReturned, Zenon DEF RetireRelease
<1>2. ASSUME NEW s \in Remote, RecvOpen(s) PROVE PermitInv' \/ UNCHANGED admission
  BY <1>2, PermitTaken, Zenon DEF RecvOpen
<1>3. ASSUME NEW s \in Local, OpenBi(s) PROVE PermitInv'
  BY <1>3, PermitTaken, Zenon DEF OpenBi
<1>4. CASE UNCHANGED admission
  BY <1>4, Zenon DEF PermitInv, admission
<1>5. ASSUME NEW t \in Tasks, RetireLook(t) \/ RetireRemove(t)
      PROVE  UNCHANGED admission
  BY <1>5, Zenon DEF RetireLook, RetireRemove
<1>6. ASSUME Reader \/ Writer \/ Cleaner PROVE UNCHANGED admission
  BY <1>6, Zenon DEF Reader, ReaderInsert, ReaderPush, Writer, EndSent, Cleaner,
     CleanerWake, CleanerNext, CleanerSend, CleanerRecv
<1>7. ASSUME NEW a \in Acceptors, AcceptCheck(a) \/ AcceptPoll(a) \/ AcceptCancel(a)
      PROVE  UNCHANGED admission
  BY <1>7, Zenon DEF AcceptCheck, AcceptPoll, AcceptCancel
<1>8. ASSUME NEW s \in Streams,
             \/ RecvEnd(s) \/ SendEnd(s) \/ FinishStore(s) \/ Finish(s)
             \/ Reset(s) \/ RecvStop(s) \/ DropSend(s) \/ DropRecv(s)
      PROVE  UNCHANGED admission
  BY <1>8, Zenon DEF RecvEnd, SendEnd, FinishStore, Finish, Reset, RecvStop, DropSend,
     DropRecv
<1>9. ASSUME UNCHANGED vars PROVE UNCHANGED admission
  BY <1>9, Zenon DEF vars
<1> QED
  BY <1>1, <1>2, <1>3, <1>4, <1>5, <1>6, <1>7, <1>8, <1>9, ZenonT(40) DEF Next, Retire

\* AcceptSteps: only these steps touch the calls of accept_bi and their
\* notifications.
LEMMA AcceptSteps ==
  ASSUME [Next]_vars,
         ~\E a \in Acceptors : AcceptCheck(a) \/ AcceptPoll(a) \/ AcceptCancel(a),
         ~ReaderPush
  PROVE  UNCHANGED <<acceptor, permit, woken, incoming>>
<1> USE DEF accepting
<1>1. ASSUME NEW t \in Tasks, Retire(t) PROVE UNCHANGED <<acceptor, permit, woken, incoming>>
  BY <1>1, Zenon DEF Retire, RetireLook, RetireRelease, RetireRemove
<1>2. ASSUME ReaderInsert \/ Writer \/ Cleaner
      PROVE  UNCHANGED <<acceptor, permit, woken, incoming>>
  BY <1>2, Zenon DEF ReaderInsert, Writer, EndSent, Cleaner, CleanerWake, CleanerNext,
     CleanerSend, CleanerRecv
<1>3. ASSUME NEW s \in Streams, RecvOpen(s) \/ OpenBi(s)
      PROVE  UNCHANGED <<acceptor, permit, woken, incoming>>
  BY <1>3, Zenon DEF RecvOpen, OpenBi
<1>4. ASSUME NEW s \in Streams,
             \/ RecvEnd(s) \/ SendEnd(s) \/ FinishStore(s) \/ Finish(s)
             \/ Reset(s) \/ RecvStop(s) \/ DropSend(s) \/ DropRecv(s)
      PROVE  UNCHANGED <<acceptor, permit, woken, incoming>>
  BY <1>4, Zenon DEF RecvEnd, SendEnd, FinishStore, Finish, Reset, RecvStop, DropSend,
     DropRecv
<1>5. ASSUME UNCHANGED vars PROVE UNCHANGED <<acceptor, permit, woken, incoming>>
  BY <1>5, Zenon DEF vars
<1> QED
  BY <1>1, <1>2, <1>3, <1>4, <1>5, ZenonT(40) DEF Next, Reader, Streams

\* DropNoteKeeps: the note of a dropped handle for the cleanup task stays
\* Boolean.
LEMMA DropNoteKeeps == dropNote \in BOOLEAN /\ [Next]_vars => dropNote' \in BOOLEAN
<1> SUFFICES ASSUME dropNote \in BOOLEAN, [Next]_vars PROVE dropNote' \in BOOLEAN
  BY Zenon
<1> USE DEF handles
<1>1. ASSUME NEW t \in Tasks, Retire(t) PROVE dropNote' \in BOOLEAN
  BY <1>1, Zenon DEF Retire, RetireLook, RetireRelease, RetireRemove
<1>2. ASSUME Reader \/ Writer \/ Cleaner
      PROVE  dropNote' \in BOOLEAN
  BY <1>2, Zenon DEF Reader, ReaderInsert, ReaderPush, Writer, EndSent, Cleaner, CleanerWake,
     CleanerNext, CleanerSend, CleanerRecv
<1>3. ASSUME NEW s \in Streams, RecvOpen(s) \/ OpenBi(s) PROVE dropNote' \in BOOLEAN
  BY <1>3, Zenon DEF RecvOpen, OpenBi
<1>4. ASSUME NEW s \in Streams,
             \/ RecvEnd(s) \/ SendEnd(s) \/ FinishStore(s) \/ Finish(s)
             \/ Reset(s) \/ RecvStop(s) \/ DropSend(s) \/ DropRecv(s)
      PROVE  dropNote' \in BOOLEAN
  BY <1>4, Zenon DEF RecvEnd, SendEnd, FinishStore, Finish, Reset, RecvStop, DropSend,
     DropRecv
<1>5. ASSUME NEW a \in Acceptors, AcceptCheck(a) \/ AcceptPoll(a) \/ AcceptCancel(a)
      PROVE  dropNote' \in BOOLEAN
  BY <1>5, Zenon DEF AcceptCheck, AcceptPoll, AcceptCancel
<1>6. ASSUME UNCHANGED vars PROVE dropNote' \in BOOLEAN
  BY <1>6, Zenon DEF vars
<1> QED
  BY <1>1, <1>2, <1>3, <1>4, <1>5, <1>6, ZenonT(40) DEF Next, Streams

\* AcceptKeeps: the calls of accept_bi stay at the places of its loop, and only
\* they are woken.
LEMMA AcceptKeeps == AcceptInv /\ [Next]_vars => AcceptInv'
<1> SUFFICES ASSUME AcceptInv, [Next]_vars PROVE AcceptInv'
  BY Zenon
<1>0. dropNote' \in BOOLEAN
  BY DropNoteKeeps, Zenon DEF AcceptInv
<1>1. CASE ReaderPush
  BY <1>0, <1>1, Zenon DEF ReaderPush, NotifyOne, AcceptInv
<1>2. ASSUME NEW a \in Acceptors, AcceptCheck(a) PROVE AcceptInv'
  BY <1>0, <1>2, Zenon DEF AcceptCheck, AcceptInv
<1>3. ASSUME NEW a \in Acceptors, AcceptPoll(a) PROVE AcceptInv'
  BY <1>0, <1>3, Zenon DEF AcceptPoll, AcceptInv
<1>4. ASSUME NEW a \in Acceptors, AcceptCancel(a) PROVE AcceptInv'
  BY <1>0, <1>4, Zenon DEF AcceptCancel, AcceptInv
<1>5. CASE UNCHANGED <<acceptor, permit, woken>>
  BY <1>0, <1>5, Zenon DEF AcceptInv
<1> QED BY <1>1, <1>2, <1>3, <1>4, <1>5, AcceptSteps, ZenonT(40)

\* TypeCorrect: for any number of streams and any max_open_streams the sets
\* hold streams only, every task is at a place of its code, and the free
\* permits of open_streams are max_open_streams less one for each stream that
\* holds one.
THEOREM TypeCorrect == Spec => []TypeOK
<1> DEFINE TInv == TasksInv /\ StreamSets /\ PermitInv /\ AcceptInv
<1>1. Init => TInv
  BY RInvInit, StreamSetsInit, Zenon DEF RInv
<1>2. TInv /\ [Next]_vars => TInv'
  BY TasksKeep, StreamSetsKeep, PermitsKeep, AcceptKeeps, Zenon
<1>3. TInv => TypeOK
  <2> SUFFICES ASSUME TInv PROVE TypeOK
    BY Zenon
  <2>1. held \in SUBSET Streams
    BY Zenon DEF StreamSets, PermitInv
  <2>2. {opened, held, map, sendHandles, recvHandles, sendDropped, recvDropped,
         ending, resetQueued, refused, storing, dispatched, sendTerminal,
         sendComplete, recvTerminal, stopped, todo} \subseteq SUBSET Streams
    BY <2>1, Zenon DEF StreamSets
  <2>3. at \in [Tasks -> Places] /\ back \in [Tasks -> Places]
        /\ on \in [Tasks -> Streams \cup {NoStream}]
    BY Zenon DEF TasksInv, Places
  <2> QED BY <2>2, <2>3, Zenon DEF TypeOK, PermitInv, AcceptInv
<1> QED BY <1>1, <1>2, <1>3, PTL DEF Spec

\* A call that has looked and not yet polled finds a stored permit if a stream
\* came in between.
LookedInv == \A a \in Acceptors : acceptor[a] = "poll" /\ incoming # <<>> => permit

\* LoneAcceptorIsAwake: a task that is alone in accept_bi does not sleep while
\* a stream waits to be accepted: on_remote_open queues the stream before it
\* notifies, and accept_bi looks again after each notification.
THEOREM LoneAcceptorIsAwake ==
  ASSUME NEW CONSTANT lone, Acceptors = {lone}
  PROVE  Spec => []AcceptorAwake
<1> DEFINE AInv == AcceptInv /\ AcceptorAwake /\ LookedInv
<1>1. Init => AInv
  <2>1. Init => AcceptorAwake /\ LookedInv
    BY Zenon DEF Init, AcceptorAwake, LookedInv
  <2> QED BY <2>1, StreamSetsInit, Zenon
<1>2. AInv /\ [Next]_vars => AInv'
  <2> SUFFICES ASSUME AInv, [Next]_vars PROVE AcceptorAwake' /\ LookedInv'
    BY AcceptKeeps, Zenon
  <2> USE DEF AcceptInv, AcceptorAwake, LookedInv
  <2>1. CASE ReaderPush
    BY <2>1, Zenon DEF ReaderPush, NotifyOne
  <2>2. ASSUME NEW a \in Acceptors, AcceptCheck(a) PROVE AcceptorAwake' /\ LookedInv'
    BY <2>2, Zenon DEF AcceptCheck
  <2>3. ASSUME NEW a \in Acceptors, AcceptPoll(a) PROVE AcceptorAwake' /\ LookedInv'
    BY <2>3, Zenon DEF AcceptPoll
  <2>4. ASSUME NEW a \in Acceptors, AcceptCancel(a) PROVE AcceptorAwake' /\ LookedInv'
    BY <2>4, Zenon DEF AcceptCancel
  <2>5. CASE UNCHANGED <<acceptor, permit, woken, incoming>>
    BY <2>5, Zenon
  <2> QED BY <2>1, <2>2, <2>3, <2>4, <2>5, AcceptSteps, Zenon
<1>3. AInv => AcceptorAwake
  BY Zenon
<1> QED BY <1>1, <1>2, <1>3, PTL DEF Spec

=============================================================================
