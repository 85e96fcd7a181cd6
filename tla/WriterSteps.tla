----------------------------- MODULE WriterSteps ----------------------------
(***************************************************************************)
(* The steps of Writer: what each does to the queues, the credit, the turns  *)
(* and the frame in hand, and that each keeps the list of ready streams, the *)
(* credit and the alternation of control and data.  What the proofs need of  *)
(* sums, cardinalities and ranges are the three laws ReadyLaws, CreditLaws   *)
(* and ChunkLaws, which the lemmas assume and WriterProofs proves.           *)
(***************************************************************************)
EXTENDS Writer, TLAPS

-----------------------------------------------------------------------------
\* The state of the writer, field by field.

\* The struct WriterQueues.
Queue ==
  [byStream : [Streams -> Seq(Chunks)], ready : Seq(Streams),
   control : Seq(Frames), closeFrame : Frames, graceful : BOOLEAN,
   closing : BOOLEAN, settings : BOOLEAN, peerLimit : Nat,
   initialLimit : Nat, sent : Nat, controlTurn : BOOLEAN]

\* The atomics of the send half of a stream.
SendState ==
  [sent : Nat, peerLimit : Nat, terminal : BOOLEAN, dispatched : BOOLEAN,
   resetQueued : BOOLEAN]

\* The data queues and the ready list are left alone.
SameData(n, r) == n.byStream = r.byStream /\ n.ready = r.ready

\* The control queue and the turn are left alone.
SameControl(n, r) == n.control = r.control /\ n.controlTurn = r.controlTurn

\* The state of the close is left alone.
SameEnd(n, r) ==
  n.closeFrame = r.closeFrame /\ n.graceful = r.graceful /\ n.closing = r.closing

\* The connection's credit is left alone.
SameCredit(n, r) ==
  /\ n.settings = r.settings /\ n.peerLimit = r.peerLimit
  /\ n.initialLimit = r.initialLimit /\ n.sent = r.sent

\* o is d without its element at i, each element taken from where `from` says.
RotatedBy(from, d, i, o) ==
  \E n \in Nat :
    /\ DOMAIN d = 1..n /\ DOMAIN o = 1..(n - 1) /\ n = Len(d)
    /\ \A k \in 1..(n - 1) : o[k] = d[from[k]] /\ from[k] \in 1..n /\ from[k] # i
    /\ \A k \in 1..(n - 1) : from[k] > i => from[k] = k + i
    /\ \A k, l \in 1..(n - 1) : from[k] = from[l] => k = l
    /\ \A j \in 1..n : j # i => \E k \in 1..(n - 1) : from[k] = j

-----------------------------------------------------------------------------
\* The steps of Writer, by what they do to the queues, the send state, the frame in
\* hand and the history.

\* The state the scheduling of the writer depends on has its types.
CoreTypes ==
  /\ q \in Queue /\ st \in [Streams -> SendState] /\ frame \in Frames
  /\ fins \subseteq Streams /\ ended \subseteq Nat
  /\ accepted \in [Streams -> Nat] /\ passed \in [Streams -> Nat]
  /\ dataRun \in Nat /\ controlRun \in Nat

\* The history is left alone.
SameHistory == UNCHANGED <<fins, accepted, ended, dataRun, controlRun, passed>>

\* The writer task stays where it is.
SameWriter == UNCHANGED <<frame, pc, closed>>

\* next_frame returns f.
Took(f) == frame' = f /\ pc' = IF f = NoFrame THEN "done" ELSE "send"

\* A step that the queues do not see.
Calm ==
  /\ UNCHANGED <<q, st, frame>> /\ SameHistory
  /\ closed => closed'
  /\ pc' = "send" <=> pc = "send"

\* A control frame other than RESET is queued.
Put(f) ==
  /\ ~q.closing /\ f.type \in {"open", "ping", "stop"} /\ ~f.fin
  /\ q'.control = Append(q.control, f) /\ q'.controlTurn = q.controlTurn
  /\ SameData(q', q) /\ SameEnd(q', q) /\ SameCredit(q', q)
  /\ UNCHANGED st /\ SameHistory /\ SameWriter

\* enqueue_data of a chunk, the FIN of finish among them.
PutChunk(s, c) ==
  /\ s \notin fins /\ ~q.closing /\ ~st[s].terminal
  /\ q'.byStream = [q.byStream EXCEPT ![s] = Append(q.byStream[s], c)]
  /\ q'.ready = IF q.byStream[s] = <<>> THEN Append(q.ready, s) ELSE q.ready
  /\ SameControl(q', q) /\ SameEnd(q', q) /\ SameCredit(q', q)
  /\ fins' = IF c.fin THEN fins \cup {s} ELSE fins
  /\ accepted' = [accepted EXCEPT ![s] = @ + c.len]
  /\ UNCHANGED <<st, ended, dataRun, controlRun, passed>> /\ SameWriter

\* FinishStore and RecvMaxStreamData.
StreamNews ==
  /\ \A x \in Streams :
       /\ st[x].terminal => st'[x].terminal
       /\ st'[x].peerLimit >= st[x].peerLimit
       /\ st'[x].sent = st[x].sent /\ st'[x].dispatched = st[x].dispatched
       /\ st'[x].resetQueued = st[x].resetQueued
  /\ UNCHANGED q /\ SameHistory /\ SameWriter

\* reset_stream.
PutReset(s) ==
  /\ ~q.closing /\ ~st[s].dispatched /\ ~st[s].resetQueued
  /\ q'.byStream = [q.byStream EXCEPT ![s] = <<>>]
  /\ q'.ready = Without(q.ready, s)
  /\ q'.control = Append(q.control, Frame("reset", s))
  /\ q'.controlTurn = q.controlTurn
  /\ SameEnd(q', q) /\ SameCredit(q', q)
  /\ \A x \in Streams :
       /\ (st'[x].terminal <=> st[x].terminal \/ x = s)
       /\ (st'[x].resetQueued <=> st[x].resetQueued \/ x = s)
       /\ st'[x].sent = st[x].sent /\ st'[x].peerLimit = st[x].peerLimit
       /\ st'[x].dispatched = st[x].dispatched
  /\ SameHistory /\ SameWriter

\* RecvSettings and RecvMaxData.
ConnNews ==
  /\ q'.settings = TRUE /\ q'.sent = q.sent
  /\ q.settings => q'.peerLimit >= q.peerLimit /\ q'.initialLimit = q.initialLimit
  /\ SameData(q', q) /\ SameControl(q', q) /\ SameEnd(q', q)
  /\ UNCHANGED st /\ SameHistory /\ SameWriter

\* InitiateClose(0).
CloseGracefully ==
  /\ ~closed /\ closed'
  /\ q'.closeFrame = Close(0) /\ q'.graceful /\ q'.closing
  /\ SameData(q', q) /\ SameControl(q', q) /\ SameCredit(q', q)
  /\ UNCHANGED <<st, frame, pc>> /\ SameHistory

\* What drops the queues: InitiateClose(1) and MarkClosed.
DropQueues ==
  /\ closed'
  /\ q'.closeFrame \in {NoFrame, Close(1)} /\ ~q'.graceful /\ q'.closing
  /\ q'.byStream = [s \in Streams |-> <<>>] /\ q'.ready = <<>> /\ q'.control = <<>>
  /\ q'.controlTurn = q.controlTurn /\ SameCredit(q', q)
  /\ UNCHANGED <<st, frame, pc>> /\ SameHistory

\* next_frame returns the pending CLOSE.
TakeClose ==
  /\ pc = "eval" /\ q.closing
  /\ q.graceful => q.control = <<>> /\ Drained(q)
  /\ q'.closeFrame = NoFrame /\ q'.graceful = q.graceful /\ q'.closing = q.closing
  /\ SameData(q', q) /\ SameControl(q', q) /\ SameCredit(q', q)
  /\ Took(q.closeFrame)
  /\ UNCHANGED <<st, closed>> /\ SameHistory

\* next_frame returns a control frame, or an update of a receive window.
TakeControlWork ==
  /\ pc = "eval" /\ ControlFirst
  /\ \/ q.control # <<>> /\ q'.control = Tail(q.control) /\ Took(Head(q.control))
     \/ /\ q.control = <<>> /\ q'.control = <<>>
        /\ \E f \in Frames :
             f.type \in {"max_data", "max_stream_data"} /\ ~f.fin /\ Took(f)
  /\ q'.controlTurn = FALSE
  /\ SameData(q', q) /\ SameEnd(q', q) /\ SameCredit(q', q)
  /\ dataRun' = 0
  /\ controlRun' \in {0, controlRun} \/ (~Urgent(q) /\ controlRun' = controlRun + 1)
  /\ UNCHANGED <<st, closed, fins, accepted, ended, passed>>

\* next_frame returns k bytes of stream s, the i-th in the ready list; b is left of its
\* queue.
Dispatch(i, s, k, f, b) ==
  /\ pc = "eval" /\ ControlDone
  /\ i \in DOMAIN q.ready /\ s = q.ready[i]
  /\ Eligible(q, st, s) /\ \A j \in 1..(i - 1) : ~Eligible(q, st, q.ready[j])
  /\ k = Count(q, st, s) /\ (f <=> FinNow(q, st, s)) /\ b = Rest(q.byStream[s], k)
  /\ q'.byStream = [q.byStream EXCEPT ![s] = b]
  /\ LET o == SubSeq(q.ready, i + 1, Len(q.ready)) \o SubSeq(q.ready, 1, i - 1)
     IN  q'.ready = IF b = <<>> THEN o ELSE Append(o, s)
  /\ q'.sent = q.sent + k /\ q'.controlTurn = TRUE /\ q'.control = q.control
  /\ SameEnd(q', q)
  /\ q'.settings = q.settings /\ q'.peerLimit = q.peerLimit
  /\ q'.initialLimit = q.initialLimit
  /\ \A x \in Streams :
       /\ st'[x].sent = IF x = s THEN st[x].sent + k ELSE st[x].sent
       /\ (st'[x].dispatched <=> st[x].dispatched \/ (x = s /\ f))
       /\ st'[x].terminal = st[x].terminal /\ st'[x].peerLimit = st[x].peerLimit
       /\ st'[x].resetQueued = st[x].resetQueued
  /\ Took(Data(s, k, f))
  /\ dataRun' = IF ControlWaits THEN dataRun + 1 ELSE 0
  /\ controlRun' = 0
  /\ passed' = [t \in Streams |-> IF t \in CanSend \ {s} THEN passed[t] + 1 ELSE 0]
  /\ UNCHANGED <<closed, fins, accepted, ended>>

\* next_frame finds nothing to send and gives the turn to control frames.
GiveTurn ==
  /\ pc = "eval" /\ pc' = "arm"
  /\ q'.controlTurn = TRUE /\ q'.control = q.control
  /\ SameData(q', q) /\ SameEnd(q', q) /\ SameCredit(q', q)
  /\ controlRun' = 0
  /\ UNCHANGED <<st, frame, closed, fins, accepted, ended, dataRun, passed>>

\* The transport has taken the frame in hand.
Sent ==
  /\ pc = "send" /\ frame' = NoFrame /\ pc' \in {"arm", "done"}
  /\ ended' = IF frame.type = "reset" \/ frame.fin THEN ended \cup {frame.id} ELSE ended
  /\ UNCHANGED <<q, st, closed, fins, accepted, dataRun, controlRun, passed>>

\* The transport has failed.
Failed ==
  /\ pc = "send" /\ frame' = NoFrame /\ pc' = "done"
  /\ UNCHANGED <<q, st, closed>> /\ SameHistory

\* All of these.
Step ==
  \/ Calm
  \/ \E f \in Frames : Put(f)
  \/ \E s \in Streams, c \in Chunks : PutChunk(s, c)
  \/ StreamNews
  \/ \E s \in Streams : PutReset(s)
  \/ ConnNews \/ CloseGracefully \/ DropQueues
  \/ TakeClose \/ TakeControlWork
  \/ \E i \in Nat, s \in Streams, k \in Nat, f \in BOOLEAN, b \in Seq(Chunks) :
       Dispatch(i, s, k, f, b)
  \/ GiveTurn \/ Sent \/ Failed

-----------------------------------------------------------------------------
\* The inductive invariants.

\* Credit is respected, and nothing is sent before the peer's SETTINGS.
CreditInv ==
  /\ CreditRespected
  /\ ~q.settings => q.sent = 0 /\ \A s \in Streams : st[s].sent = 0

\* Whoever was served last does not have the turn.
AltInv ==
  /\ dataRun <= 1 /\ (dataRun >= 1 => q.controlTurn)
  /\ controlRun <= 1 /\ (controlRun >= 1 => ~q.controlTurn)

\* A RESET of stream s is in the control queue.
ResetWaits(s) == \E i \in DOMAIN q.control : q.control[i].type = "reset" /\ q.control[i].id = s

\* FIN is the last chunk of its queue; a direction that has ended has an empty queue.
FinInv ==
  \A s \in Streams :
    /\ \A i \in DOMAIN q.byStream[s] :
         q.byStream[s][i].fin => s \in fins /\ i = Len(q.byStream[s])
    /\ st[s].dispatched => s \in fins /\ q.byStream[s] = <<>>
    /\ st[s].resetQueued => /\ q.byStream[s] = <<>>
                            /\ st[s].terminal /\ ~st[s].dispatched

\* The control queue holds no data, and one RESET of a stream at most.
ControlInv ==
  /\ \A i \in DOMAIN q.control :
       /\ q.control[i].type \notin {"stream", "close"} /\ ~q.control[i].fin
       /\ q.control[i].type = "reset" =>
            q.control[i].id \in Streams /\ st[q.control[i].id].resetQueued
  /\ \A i, j \in DOMAIN q.control :
       /\ q.control[i].type = "reset" /\ q.control[j].type = "reset"
       /\ q.control[i].id = q.control[j].id
       => i = j
  /\ q.closeFrame.type \in {"none", "close"} /\ ~q.closeFrame.fin

\* The frame in hand is not of a direction that has ended.
HandInv ==
  /\ frame.fin => frame.type = "stream"
  /\ frame.type = "stream" => /\ frame.id \in Streams \ ended
                              /\ frame.fin => st[frame.id].dispatched
  /\ frame.type = "reset" => /\ frame.id \in Streams \ ended
                             /\ st[frame.id].resetQueued /\ ~ResetWaits(frame.id)

\* Nothing of a direction that has ended waits.
EndedInv ==
  \A s \in ended : /\ s \in Streams /\ ~ResetWaits(s)
                   /\ st[s].dispatched \/ st[s].resetQueued

\* What of the send state the order of ends depends on is left alone.
SameEnds == \A x \in Streams : /\ st'[x].dispatched = st[x].dispatched
                               /\ st'[x].resetQueued = st[x].resetQueued

\* The invariant of the ends.
EndInv == ControlInv /\ HandInv /\ EndedInv

\* The bytes of the chunks b.
Queued(b) == SumFunction([i \in DOMAIN b |-> b[i].len])

\* Everything accepted for stream s has been sent or waits in its queue.
Kept(s) ==
  ~st[s].resetQueued =>
    /\ st[s].sent + Queued(q.byStream[s]) = accepted[s]
    /\ s \in fins => \/ st[s].dispatched
                     \/ \E i \in DOMAIN q.byStream[s] : q.byStream[s][i].fin

\* While a graceful close drains, everything accepted is kept; the CLOSE in hand finds
\* it sent.
CloseInv ==
  /\ q.closing => closed
  /\ frame # NoFrame => pc = "send"
  /\ q.closeFrame = Close(0) => q.graceful
  /\ ~q.closing \/ q.graceful => \A s \in Streams : Kept(s)
  /\ frame = Close(0) =>
       /\ q.closing /\ q.control = <<>>
       /\ \A s \in Streams : ~st[s].resetQueued =>
            st[s].sent = accepted[s] /\ (st[s].dispatched <=> s \in fins)

\* The number of streams.
N == Cardinality(Streams)

\* A stream at place i of the ready list has been passed over by N - i others at most.
PassedInv ==
  /\ \A t \in Streams : passed[t] < N
  /\ \A i \in DOMAIN q.ready : passed[q.ready[i]] + i <= N
  /\ \A t \in Streams :
       t \notin Range(q.ready) /\ ~st[t].terminal /\ ~q.closing => passed[t] = 0

\* What holds of sets of numbers and of the lists of streams: least elements,
\* push_back, retain, and that a list without duplicates is no longer than the number
\* of streams.
ReadyLaws ==
  /\ \A T \in SUBSET Nat : T # {} => \E m \in T : \A k \in T : m <= k
  /\ \A d \in Seq(Streams), e \in Streams :
       /\ Append(d, e) \in Seq(Streams)
       /\ Range(Append(d, e)) = Range(d) \cup {e}
       /\ IsInjective(d) /\ e \notin Range(d) => IsInjective(Append(d, e))
  /\ \A d \in Seq(Streams), e \in Streams : IsInjective(d) =>
       /\ Without(d, e) \in Seq(Streams)
       /\ IsInjective(Without(d, e))
       /\ Range(Without(d, e)) = Range(d) \ {e}
       /\ \A i \in DOMAIN Without(d, e) :
            \E j \in DOMAIN d : i <= j /\ Without(d, e)[i] = d[j]
  /\ \A d \in Seq(Streams) : IsInjective(d) => Len(d) <= N
  /\ N \in Nat /\ \A s \in Streams : N >= 1

\* What holds of sums over the streams.
CreditLaws ==
  \A f, g : (\A x \in Streams : f[x] \in Nat /\ g[x] \in Nat) =>
    /\ SumFunctionOnSet(g, Streams) \in Nat
    /\ \A s \in Streams : (\A x \in Streams \ {s} : f[x] = g[x]) =>
         SumFunctionOnSet(g, Streams) + f[s] = SumFunctionOnSet(f, Streams) + g[s]

\* What holds of the bytes of chunks: push_back, and what a dispatch leaves.
ChunkLaws ==
  /\ Queued(<<>>) = 0
  /\ \A b \in Seq(Chunks) :
       /\ Queued(b) \in Nat
       /\ \A c \in Chunks : Queued(Append(b, c)) = Queued(b) + c.len
       /\ b # <<>> => \A k \in Nat : k <= Head(b).len =>
                        Queued(Rest(b, k)) + k = Queued(b)

\* next_frame would find nothing to return.
Idle ==
  ~ClosesNow(q) /\ ~ControlWaits /\ CanSend = {} /\ ~(q.closing /\ Drained(q))

\* A writer that waits has nothing to do; one that is about to poll its Notified future
\* has nothing to do or will find that it was told.
SleepInv ==
  /\ pc = "wait" /\ ~woken => Idle
  /\ pc = "poll" => Idle \/ permit \/ woken

\* Types of the flags and counters.
FlagTypes ==
  /\ closed \in BOOLEAN /\ terminated \in BOOLEAN /\ cleaned \in BOOLEAN
  /\ connDue \in BOOLEAN /\ permit \in BOOLEAN /\ woken \in BOOLEAN
  /\ pc \in {"arm", "eval", "poll", "wait", "send", "done"}
  /\ pings \in 0..MaxPings /\ dues \in 0..MaxDues

\* Types of the sets of streams: what they hold was opened.
MapTypes ==
  /\ ids \subseteq Streams /\ streams \subseteq ids /\ held \subseteq ids
  /\ fins \subseteq ids /\ complete \subseteq ids /\ recvTerminal \subseteq ids
  /\ stopping \subseteq discarded /\ discarded \subseteq ids /\ due \subseteq streams

-----------------------------------------------------------------------------
\* The laws, as the proofs cite them.

\* LeastPlace: a nonempty set of places in the ready list has a least one.
LEMMA LeastPlace ==
  ASSUME ReadyLaws, NEW T \in SUBSET Nat, T # {}
  PROVE  \E m \in T : \A k \in T : m <= k
BY Zenon DEF ReadyLaws

\* ReadyAppend: push_back onto the ready list.
LEMMA ReadyAppend ==
  ASSUME ReadyLaws, NEW d \in Seq(Streams), NEW e \in Streams
  PROVE  /\ Append(d, e) \in Seq(Streams)
         /\ Range(Append(d, e)) = Range(d) \cup {e}
         /\ IsInjective(d) /\ e \notin Range(d) => IsInjective(Append(d, e))
BY Zenon DEF ReadyLaws

\* ReadyWithout: retain, when reset_stream takes a stream out of the ready list.
LEMMA ReadyWithout ==
  ASSUME ReadyLaws, NEW d \in Seq(Streams), IsInjective(d), NEW e \in Streams
  PROVE  /\ Without(d, e) \in Seq(Streams)
         /\ IsInjective(Without(d, e))
         /\ Range(Without(d, e)) = Range(d) \ {e}
         /\ \A i \in DOMAIN Without(d, e) :
              \E j \in DOMAIN d : i <= j /\ Without(d, e)[i] = d[j]
BY ZenonT(40) DEF ReadyLaws

\* ReadyIsShort: the ready list is not longer than the number of streams.
LEMMA ReadyIsShort ==
  ASSUME ReadyLaws
  PROVE  /\ N \in Nat /\ \A s \in Streams : N >= 1
         /\ \A d \in Seq(Streams) : IsInjective(d) => Len(d) <= N
BY Zenon DEF ReadyLaws

\* NoChunk: no chunk, no byte.
LEMMA NoChunk == ASSUME ChunkLaws PROVE Queued(<<>>) = 0
BY Zenon DEF ChunkLaws

\* ChunkSums: enqueue_data adds the bytes of its chunk, a dispatch of k bytes leaves
\* the others.
LEMMA ChunkSums ==
  ASSUME ChunkLaws, NEW b \in Seq(Chunks)
  PROVE  /\ Queued(b) \in Nat
         /\ \A c \in Chunks : Queued(Append(b, c)) = Queued(b) + c.len
         /\ b # <<>> => \A k \in Nat : k <= Head(b).len =>
                          Queued(Rest(b, k)) + k = Queued(b)
BY Zenon DEF ChunkLaws

-----------------------------------------------------------------------------
\* The operators of WriterQueues.

\* QueueFields: the fields of the queue record have their types.
LEMMA QueueFields ==
  ASSUME NEW r \in Queue
  PROVE  /\ r.byStream \in [Streams -> Seq(Chunks)] /\ r.ready \in Seq(Streams)
         /\ r.control \in Seq(Frames) /\ r.closeFrame \in Frames
         /\ r.graceful \in BOOLEAN /\ r.closing \in BOOLEAN
         /\ r.settings \in BOOLEAN /\ r.peerLimit \in Nat
         /\ r.initialLimit \in Nat /\ r.sent \in Nat /\ r.controlTurn \in BOOLEAN
BY Zenon DEF Queue

\* CloseFrames: frames that belong to no stream, and that they differ.
LEMMA CloseFrames ==
  /\ NoFrame \in Frames /\ Close(0) \in Frames /\ Close(1) \in Frames
  /\ Settings \in Frames /\ Ping \in Frames
  /\ Close(0) # NoFrame /\ Close(1) # NoFrame /\ Close(0) # Close(1)
BY SMTT(30) DEF NoFrame, Close, Settings, Ping, Frame, Frames

\* TerminalFields: the store of send_terminal.
LEMMA TerminalFields ==
  ASSUME NEW t \in [Streams -> SendState], NEW s \in Streams
  PROVE  LET n == [t EXCEPT ![s].terminal = TRUE] IN
         /\ n \in [Streams -> SendState]
         /\ \A x \in Streams :
              /\ (n[x].terminal <=> t[x].terminal \/ x = s)
              /\ n[x].sent = t[x].sent /\ n[x].peerLimit = t[x].peerLimit
              /\ n[x].dispatched = t[x].dispatched /\ n[x].resetQueued = t[x].resetQueued
<1> DEFINE n == [t EXCEPT ![s].terminal = TRUE]
<1>0. PICK a \in SendState : a = t[s]
  BY Zenon
<1>1. [a EXCEPT !.terminal = TRUE] \in SendState
  BY Zenon DEF SendState
<1>2. PICK e \in SendState : e = [a EXCEPT !.terminal = TRUE]
  BY <1>1, Zenon
<1>3. /\ e.terminal = TRUE /\ e.sent = a.sent /\ e.peerLimit = a.peerLimit
      /\ e.dispatched = a.dispatched /\ e.resetQueued = a.resetQueued
  BY <1>2, Zenon DEF SendState
<1>4. n = [t EXCEPT ![s] = e]
  BY <1>0, <1>2, Zenon DEF SendState
<1>5. n \in [Streams -> SendState]
  BY <1>4, Zenon
<1>6. ASSUME NEW x \in Streams
      PROVE  /\ (n[x].terminal <=> t[x].terminal \/ x = s)
             /\ n[x].sent = t[x].sent /\ n[x].peerLimit = t[x].peerLimit
             /\ n[x].dispatched = t[x].dispatched /\ n[x].resetQueued = t[x].resetQueued
  <2>1. CASE x = s
    <3>1. n[s] = e /\ t[s] = a
      BY <1>0, <1>4, Zenon
    <3> QED BY <1>3, <2>1, <3>1, Zenon
  <2>2. CASE x # s
    <3>1. n[x] = t[x] /\ t[x] \in SendState
      BY <1>4, <2>2, Zenon
    <3>2. t[x].terminal \in BOOLEAN
      BY <3>1, Zenon DEF SendState
    <3> QED BY <2>2, <3>1, <3>2, Zenon
  <2> QED BY <2>1, <2>2, Zenon
<1> QED BY <1>5, <1>6, Zenon

\* CountBounds: what a dispatch takes is within the first chunk and within both limits.
LEMMA CountBounds ==
  ASSUME NEW r \in Queue, NEW t \in [Streams -> SendState], NEW s \in Streams,
         r.byStream[s] # <<>>
  PROVE  /\ Count(r, t, s) \in Nat /\ Head(r.byStream[s]) \in Chunks
         /\ Count(r, t, s) <= Head(r.byStream[s]).len
         /\ r.sent <= r.peerLimit => r.sent + Count(r, t, s) <= r.peerLimit
         /\ t[s].sent <= Max2(t[s].peerLimit, r.initialLimit)
              => t[s].sent + Count(r, t, s) <= Max2(t[s].peerLimit, r.initialLimit)
<1>1. r.byStream[s] \in Seq(Chunks)
  BY QueueFields, Zenon
<1>2. Head(r.byStream[s]) \in Chunks
  BY <1>1, SMTT(30)
<1>3. PICK k \in Nat : k = Head(r.byStream[s]).len
  BY <1>2, Zenon DEF Chunks
<1>4. /\ r.sent \in Nat /\ r.peerLimit \in Nat /\ r.initialLimit \in Nat
      /\ FrameCapacity \in Nat
  BY QueueFields, QueueAssumption, Zenon
<1>5. t[s].sent \in Nat /\ t[s].peerLimit \in Nat
  BY Zenon DEF SendState
<1>6. PICK limit \in Nat : limit = Max2(t[s].peerLimit, r.initialLimit)
  BY <1>4, <1>5, Zenon DEF Max2
<1>7. PICK p \in Nat, x \in Nat, y \in Nat, w \in Nat :
        p = r.peerLimit /\ x = r.sent /\ y = t[s].sent /\ w = FrameCapacity
  BY <1>4, <1>5, Zenon
<1>8. PICK c : c = Count(r, t, s)
  BY Zenon
<1>9. c = Min2(k, Min2(Min2(Minus(p, x), Minus(limit, y)), w))
  BY <1>3, <1>6, <1>7, <1>8, Zenon DEF Count, ConnCredit, StreamCredit
<1>10. /\ c \in Nat /\ c <= k
       /\ x <= p => x + c <= p
       /\ y <= limit => y + c <= limit
  BY <1>9, SMTT(30) DEF Min2, Minus
<1> QED BY <1>2, <1>3, <1>6, <1>7, <1>8, <1>10, Zenon

\* RestChunks: what a dispatch leaves of a queue: all but the first chunk, or a shorter
\* first chunk (split_to).
LEMMA RestChunks ==
  ASSUME NEW b \in Seq(Chunks), b # <<>>, NEW k \in Nat, k <= Head(b).len
  PROVE  /\ Rest(b, k) \in Seq(Chunks)
         /\ Head(b).len = k => Rest(b, k) = Tail(b)
         /\ Head(b).len # k =>
              /\ Len(Rest(b, k)) = Len(b)
              /\ Rest(b, k)[1] = [len |-> Head(b).len - k, fin |-> Head(b).fin]
              /\ \A i \in 2..Len(b) : Rest(b, k)[i] = b[i]
<1>1. Tail(b) \in Seq(Chunks) /\ Head(b) = b[1] /\ b[1] \in Chunks /\ Len(b) \in Nat /\ Len(b) >= 1
  BY SMTT(30)
<1>2. CASE Head(b).len = k
  BY <1>1, <1>2, Zenon DEF Rest
<1>3. CASE Head(b).len # k
  <2>1. PICK h \in Chunks : h = b[1]
    BY <1>1, Zenon
  <2>2. h.len \in Nat /\ h.fin \in BOOLEAN /\ h = [len |-> h.len, fin |-> h.fin]
    BY Zenon DEF Chunks
  <2>3. PICK d \in Nat : d = h.len - k
    BY <1>1, <2>1, <2>2, SMTT(30)
  <2>4. PICK e \in Chunks : e = [len |-> d, fin |-> h.fin]
    BY <2>2, Zenon DEF Chunks
  <2>5. [h EXCEPT !.len = d] = e
    BY <2>2, <2>4, SMTT(30)
  <2>6. Rest(b, k) = [b EXCEPT ![1] = e]
    BY <1>1, <1>3, <2>1, <2>3, <2>5, Zenon DEF Rest
  <2>7. [b EXCEPT ![1] = e] \in Seq(Chunks) /\ Len([b EXCEPT ![1] = e]) = Len(b)
    BY <1>1, SMTT(30)
  <2>8. [b EXCEPT ![1] = e][1] = e /\ \A i \in 2..Len(b) : [b EXCEPT ![1] = e][i] = b[i]
    BY <1>1, SMTT(30)
  <2> QED BY <1>1, <1>3, <2>1, <2>3, <2>4, <2>6, <2>7, <2>8, Zenon
<1> QED BY <1>2, <1>3, Zenon

\* Rotated: next_frame takes element i out of the ready list and puts those before it
\* behind the others (rotation by pop_front and push_back).
LEMMA Rotated ==
  ASSUME NEW S, NEW d \in Seq(S), NEW i \in 1..Len(d), NEW o,
         o = SubSeq(d, i + 1, Len(d)) \o SubSeq(d, 1, i - 1)
  PROVE  o \in Seq(S) /\ \E from : RotatedBy(from, d, i, o)
\* Slice: what SubSeq cuts out of a sequence.
<1>Slice.
    ASSUME NEW X, NEW w \in Seq(X), NEW u \in 1..(Len(w) + 1), NEW v \in (u - 1)..Len(w)
    PROVE  /\ SubSeq(w, u, v) \in Seq(X) /\ Len(SubSeq(w, u, v)) = v - u + 1
           /\ \A k \in 1..(v - u + 1) : SubSeq(w, u, v)[k] = w[u + k - 1]
  BY <1>Slice, SMTT(30)
\* Joined: one sequence after another.
<1>Joined.
    ASSUME NEW X, NEW w \in Seq(X), NEW u \in Seq(X)
    PROVE  /\ w \o u \in Seq(X) /\ Len(w \o u) = Len(w) + Len(u)
           /\ \A k \in 1..(Len(w) + Len(u)) :
                (w \o u)[k] = IF k <= Len(w) THEN w[k] ELSE u[k - Len(w)]
  BY <1>Joined, SMTT(30)
\* RotateIndex: where the elements of the rotated ready list come from.
<1>RotateIndex.
    ASSUME NEW n \in Nat, NEW m \in 1..n
    PROVE  \E from :
             /\ \A k \in 1..(n - 1) : from[k] = IF k <= n - m THEN k + m ELSE k - (n - m)
             /\ \A k \in 1..(n - 1) : from[k] \in 1..n /\ from[k] # m
             /\ \A k, l \in 1..(n - 1) : from[k] = from[l] => k = l
             /\ \A j \in 1..n : j # m => \E k \in 1..(n - 1) : from[k] = j
  <2> USE <1>RotateIndex
  <2>0. PICK from : from = [k \in 1..(n - 1) |-> IF k <= n - m THEN k + m ELSE k - (n - m)]
    BY Zenon
  <2>a. \A k \in 1..(n - 1) : from[k] = IF k <= n - m THEN k + m ELSE k - (n - m)
    BY <2>0, Zenon
  <2>1. \A k \in 1..(n - 1) : from[k] \in 1..n /\ from[k] # m
    BY <2>a, SMTT(30)
  <2>2. \A k, l \in 1..(n - 1) : from[k] = from[l] => k = l
    BY <2>a, SMTT(30)
  <2>3. ASSUME NEW j \in 1..n, j # m PROVE \E k \in 1..(n - 1) : from[k] = j
    <3>1. CASE j > m
      <4>1. j - m \in 1..(n - 1) /\ j - m <= n - m /\ (j - m) + m = j
        BY <3>1, SMTT(30)
      <4> QED BY <2>a, <4>1, Zenon
    <3>2. CASE j < m
      <4>1. j + (n - m) \in 1..(n - 1) /\ ~(j + (n - m) <= n - m) /\ (j + (n - m)) - (n - m) = j
        BY <3>2, SMTT(30)
      <4> QED BY <2>a, <4>1, Zenon
    <3> QED BY <2>3, <3>1, <3>2, SMTT(30)
  <2> QED BY <2>a, <2>1, <2>2, <2>3, Zenon
<1> DEFINE a == SubSeq(d, 1, i - 1)
           b == SubSeq(d, i + 1, Len(d))
<1>1. /\ Len(d) \in Nat \ {0} /\ DOMAIN d = 1..Len(d) /\ i \in Int /\ i \in Nat
      /\ i <= Len(d) /\ \A k \in 1..Len(d) : d[k] \in S
  BY SMTT(30)
<1>2. a \in Seq(S) /\ Len(a) = i - 1 /\ \A k \in 1..(i - 1) : a[k] = d[k]
  <2>1. 1 \in 1..(Len(d) + 1) /\ i - 1 \in (1 - 1)..Len(d)
    BY <1>1, SMTT(30)
  <2>2. /\ a \in Seq(S) /\ Len(a) = (i - 1) - 1 + 1
        /\ \A k \in 1..((i - 1) - 1 + 1) : a[k] = d[1 + k - 1]
    BY <2>1, <1>Slice, ZenonT(40)
  <2> HIDE DEF a
  <2> QED BY <1>1, <2>2, SMTT(30)
<1>3. /\ b \in Seq(S) /\ Len(b) = Len(d) - i
      /\ \A k \in 1..(Len(d) - i) : b[k] = d[i + k]
  <2>1. i + 1 \in 1..(Len(d) + 1) /\ Len(d) \in ((i + 1) - 1)..Len(d)
    BY <1>1, SMTT(30)
  <2>2. /\ b \in Seq(S) /\ Len(b) = Len(d) - (i + 1) + 1
        /\ \A k \in 1..(Len(d) - (i + 1) + 1) : b[k] = d[(i + 1) + k - 1]
    BY <2>1, <1>Slice, Zenon
  <2> HIDE DEF a, b
  <2>3. Len(b) = Len(d) - i
    BY <1>1, <2>2, SMTT(30)
  <2>4. ASSUME NEW k \in 1..(Len(d) - i) PROVE b[k] = d[i + k]
    <3>1. k \in 1..(Len(d) - (i + 1) + 1) /\ (i + 1) + k - 1 = i + k
      BY <1>1, SMTT(30)
    <3> QED BY <2>2, <3>1, Zenon
  <2> QED BY <2>2, <2>3, <2>4, Zenon
<1>4. /\ b \o a \in Seq(S) /\ Len(b \o a) = Len(b) + Len(a)
      /\ \A k \in 1..(Len(b) + Len(a)) :
           (b \o a)[k] = IF k <= Len(b) THEN b[k] ELSE a[k - Len(b)]
  <2> HIDE DEF a, b
  <2> QED BY <1>2, <1>3, <1>Joined, Zenon
<1>5. o = b \o a
  BY Zenon
<1> HIDE DEF a, b
<1>6. o \in Seq(S) /\ Len(o) = Len(d) - 1
  <2>1. o \in Seq(S) /\ Len(o) = (Len(d) - i) + (i - 1)
    BY <1>2, <1>3, <1>4, <1>5, ZenonT(40)
  <2>2. PICK n \in Nat : n = Len(d)
    BY <1>1, Zenon
  <2>3. (n - i) + (i - 1) = n - 1
    BY <1>1, SMTT(30)
  <2> QED BY <2>1, <2>2, <2>3, Zenon
<1>7. ASSUME NEW k \in 1..(Len(d) - 1)
      PROVE  o[k] = IF k <= Len(d) - i THEN d[k + i] ELSE d[k - (Len(d) - i)]
  <2>1. k \in 1..(Len(b) + Len(a)) /\ Len(b) = Len(d) - i
    BY <1>1, <1>2, <1>3, SMTT(30)
  <2>2. o[k] = IF k <= Len(d) - i THEN b[k] ELSE a[k - (Len(d) - i)]
    BY <1>4, <1>5, <2>1, Zenon
  <2>3. CASE k <= Len(d) - i
    <3>1. k \in 1..(Len(d) - i) /\ i + k = k + i
      BY <1>1, <2>3, SMTT(30)
    <3> QED BY <1>3, <2>2, <2>3, <3>1, Zenon
  <2>4. CASE ~(k <= Len(d) - i)
    <3>1. k - (Len(d) - i) \in 1..(i - 1)
      BY <1>1, <2>4, SMTT(30)
    <3> QED BY <1>2, <2>2, <2>4, <3>1, Zenon
  <2> QED BY <2>3, <2>4, Zenon
<1>8. PICK n \in Nat : n = Len(d)
  BY <1>1, Zenon
<1>a. i \in 1..n /\ DOMAIN d = 1..n
  BY <1>1, <1>8, Zenon
<1>9. PICK from :
        /\ \A k \in 1..(n - 1) : from[k] = IF k <= n - i THEN k + i ELSE k - (n - i)
        /\ \A k \in 1..(n - 1) : from[k] \in 1..n /\ from[k] # i
        /\ \A k, l \in 1..(n - 1) : from[k] = from[l] => k = l
        /\ \A j \in 1..n : j # i => \E k \in 1..(n - 1) : from[k] = j
  BY <1>a, <1>RotateIndex, Zenon
<1>10. ASSUME NEW k \in 1..(n - 1)
       PROVE  o[k] = d[from[k]] /\ (from[k] > i => from[k] = k + i)
  <2>1. o[k] = IF k <= n - i THEN d[k + i] ELSE d[k - (n - i)]
    BY <1>7, <1>8, Zenon
  <2>2. CASE k <= n - i
    BY <1>9, <2>1, <2>2, Zenon
  <2>3. CASE ~(k <= n - i)
    <3>1. from[k] = k - (n - i) /\ from[k] \in 1..n
      BY <1>9, <2>3, Zenon
    <3>2. ~(from[k] > i)
      BY <1>a, <3>1, SMTT(30)
    <3>3. o[k] = d[k - (n - i)]
      BY <2>1, <2>3, Zenon
    <3> QED BY <3>1, <3>2, <3>3, Zenon
  <2> QED BY <2>2, <2>3, Zenon
<1>11. DOMAIN o = 1..(n - 1)
  <2>1. DOMAIN o = 1..Len(o)
    BY <1>6, SMTT(30)
  <2> QED BY <1>6, <1>8, <2>1, Zenon
<1>12. /\ DOMAIN d = 1..n /\ DOMAIN o = 1..(n - 1) /\ n = Len(d)
       /\ \A k \in 1..(n - 1) : o[k] = d[from[k]] /\ from[k] \in 1..n /\ from[k] # i
       /\ \A k \in 1..(n - 1) : from[k] > i => from[k] = k + i
       /\ \A k, l \in 1..(n - 1) : from[k] = from[l] => k = l
       /\ \A j \in 1..n : j # i => \E k \in 1..(n - 1) : from[k] = j
  <2>1. \A k \in 1..(n - 1) : o[k] = d[from[k]] /\ from[k] \in 1..n /\ from[k] # i
    BY <1>9, <1>10, Zenon
  <2>2. \A k \in 1..(n - 1) : from[k] > i => from[k] = k + i
    BY <1>10, Zenon
  <2> QED BY <1>8, <1>a, <1>9, <1>11, <2>1, <2>2, ZenonT(40)
<1>13. RotatedBy(from, d, i, o)
  BY <1>12, Zenon DEF RotatedBy
<1> QED BY <1>6, <1>13, Zenon

\* RotatedInjective: no stream is listed twice after a rotation.
LEMMA RotatedInjective ==
  ASSUME NEW d, NEW i, NEW o, NEW from, RotatedBy(from, d, i, o), IsInjective(d)
  PROVE  IsInjective(o)
<1>1. PICK n \in Nat :
        /\ DOMAIN d = 1..n /\ DOMAIN o = 1..(n - 1)
        /\ \A k \in 1..(n - 1) : o[k] = d[from[k]] /\ from[k] \in 1..n /\ from[k] # i
        /\ \A k, l \in 1..(n - 1) : from[k] = from[l] => k = l
  BY Zenon DEF RotatedBy
<1> SUFFICES ASSUME NEW k \in DOMAIN o, NEW l \in DOMAIN o, o[k] = o[l] PROVE k = l
  BY Zenon DEF IsInjective
<1>2. d[from[k]] = d[from[l]] /\ from[k] \in DOMAIN d /\ from[l] \in DOMAIN d
  BY <1>1, Zenon
<1>3. from[k] = from[l]
  BY <1>2, Zenon DEF IsInjective
<1> QED BY <1>1, <1>3, Zenon

\* RotatedRange: the rotation loses nobody but the stream taken out.
LEMMA RotatedRange ==
  ASSUME NEW d, NEW i \in DOMAIN d, NEW o, NEW from, RotatedBy(from, d, i, o), IsInjective(d)
  PROVE  Range(o) = Range(d) \ {d[i]}
<1>1. PICK n \in Nat :
        /\ DOMAIN d = 1..n /\ DOMAIN o = 1..(n - 1)
        /\ \A k \in 1..(n - 1) : o[k] = d[from[k]] /\ from[k] \in 1..n /\ from[k] # i
        /\ \A j \in 1..n : j # i => \E k \in 1..(n - 1) : from[k] = j
  BY Zenon DEF RotatedBy
<1>2. Range(o) \subseteq Range(d) \ {d[i]}
  <2> SUFFICES ASSUME NEW k \in 1..(n - 1) PROVE o[k] \in Range(d) /\ o[k] # d[i]
    BY <1>1, SMTT(30) DEF Range
  <2>1. o[k] = d[from[k]] /\ from[k] \in DOMAIN d /\ from[k] # i
    BY <1>1, Zenon
  <2> QED BY <2>1, SMTT(30) DEF Range, IsInjective
<1>3. Range(d) \ {d[i]} \subseteq Range(o)
  <2> SUFFICES ASSUME NEW j \in 1..n, d[j] # d[i] PROVE d[j] \in Range(o)
    BY <1>1, SMTT(30) DEF Range
  <2>1. PICK k \in 1..(n - 1) : from[k] = j
    BY <1>1, Zenon
  <2> QED BY <1>1, <2>1, ZenonT(40) DEF Range
<1> QED BY <1>2, <1>3, Zenon

\* NoneEligible: the loop of next_frame ends without a stream only if none is eligible.
LEMMA NoneEligible ==
  ASSUME ReadyLaws, NEW r, NEW t, r.ready \in Seq(Streams), FirstEligible(r, t) = 0
  PROVE  \A s \in Range(r.ready) : ~Eligible(r, t, s)
<1>0. DOMAIN r.ready = 1..Len(r.ready) /\ Len(r.ready) \in Nat
  BY SMTT(30)
<1> SUFFICES ASSUME \E i \in DOMAIN r.ready : Eligible(r, t, r.ready[i]) PROVE FALSE
  BY Zenon DEF Range
<1>1. PICK i : i = FirstEligible(r, t)
  BY Zenon
<1> DEFINE T == {k \in 1..Len(r.ready) : Eligible(r, t, r.ready[k])}
<1>2. T # {}
  BY <1>0, Zenon
<1>3. PICK m \in T : \A k \in T : m <= k
  <2>1. T \in SUBSET Nat
    BY SMTT(30)
  <2> HIDE DEF T
  <2> QED BY <1>2, <2>1, LeastPlace, Zenon
<1>4. \A j \in 1..(m - 1) : ~Eligible(r, t, r.ready[j])
  <2> SUFFICES ASSUME NEW j \in 1..(m - 1), Eligible(r, t, r.ready[j]) PROVE FALSE
    BY Zenon
  <2>1. j \in T
    BY <1>0, <1>3, SMTT(30)
  <2>2. m <= j /\ m \in Nat
    BY <1>3, <2>1, SMTT(30)
  <2> QED BY <2>2, SMTT(30)
<1>5. \E k \in DOMAIN r.ready : /\ Eligible(r, t, r.ready[k])
                                /\ \A j \in 1..(k - 1) : ~Eligible(r, t, r.ready[j])
  BY <1>0, <1>3, <1>4, Zenon
<1>6. i \in DOMAIN r.ready
  BY <1>1, <1>5, Zenon DEF FirstEligible
<1> QED BY <1>0, <1>1, <1>6, SMTT(30)

-----------------------------------------------------------------------------
\* Every step is of one of the kinds.

\* FrameTypes: the frames the tasks build are frames.
LEMMA FrameTypes ==
  /\ \A s \in Streams : /\ Frame("open", s) \in Frames /\ Frame("reset", s) \in Frames
                        /\ Frame("stop", s) \in Frames
                        /\ Frame("max_stream_data", s) \in Frames
  /\ Frame("max_data", 0) \in Frames
  /\ \A s \in Streams, k \in Nat, f \in BOOLEAN : Data(s, k, f) \in Frames
BY QueueAssumption, Zenon DEF Frame, Data, Frames

\* ReadyFacts: the ready list has the streams with queued chunks, each once.
LEMMA ReadyFacts ==
  ASSUME q \in Queue, ReadyMatchesQueues
  PROVE  /\ IsInjective(q.ready)
         /\ Range(q.ready) \subseteq Streams
         /\ \A s \in Streams : q.byStream[s] # <<>> <=> s \in Range(q.ready)
         /\ \A i \in DOMAIN q.ready : q.ready[i] \in Streams /\ q.byStream[q.ready[i]] # <<>>
<1>1. q.ready \in Seq(Streams)
  BY QueueFields, Zenon
<1>2. \A i \in DOMAIN q.ready : q.ready[i] \in Streams
  BY <1>1, SMTT(30)
<1> QED BY <1>2, SMTT(30) DEF ReadyMatchesQueues, IsInjective, Range

\* EveryStep: every step of every task is of one of the kinds above, and keeps the
\* types.
LEMMA EveryStep ==
  ASSUME ReadyLaws, CoreTypes, ReadyMatchesQueues, [Next]_vars
  PROVE  CoreTypes' /\ Step
\* TurnFields: a change of the turn changes nothing else.
<1>TurnFields.
    ASSUME NEW r \in Queue, NEW t \in BOOLEAN
    PROVE  LET n == [r EXCEPT !.controlTurn = t] IN
           /\ n \in Queue
           /\ n.control = r.control /\ n.controlTurn = t
           /\ SameData(n, r) /\ SameEnd(n, r) /\ SameCredit(n, r)
  <2> USE <1>TurnFields
  <2>1. [r EXCEPT !.controlTurn = t] \in Queue
    BY Zenon DEF Queue
  <2> QED BY <2>1, Zenon DEF Queue, SameData, SameEnd, SameCredit
\* QuietSteps: the waits of the writer task, what the peer and the application end or
\* make due.
<1>QuietSteps.
    ASSUME CoreTypes,
           \/ UNCHANGED vars \/ Arm \/ Wait \/ Poll \/ Woken \/ Abort \/ ConnCreditDue
           \/ \E s \in Streams : \/ RemoteOpen(s) \/ PeerEnds(s) \/ DropSend(s)
                                 \/ DropRecv(s) \/ StreamCreditDue(s)
    PROVE  CoreTypes' /\ Calm
  <2> USE <1>QuietSteps
  <2>1. Calm
    <3>1. CASE UNCHANGED vars
      BY <3>1, ZenonT(40) DEF vars, life, history, runs, Calm, SameHistory
    <3>2. CASE Arm \/ Wait \/ Poll \/ Woken
      BY <3>2, SMTT(30) DEF Arm, Wait, Poll, Woken, life, history, runs, Calm, SameHistory
    <3>3. CASE Abort \/ ConnCreditDue
      BY <3>3, SMTT(30) DEF Abort, ConnCreditDue, life, history, runs, Calm, SameHistory
    <3>4. ASSUME NEW s \in Streams, RemoteOpen(s) \/ PeerEnds(s) \/ DropSend(s)
          PROVE  Calm
      BY <3>4, SMTT(30) DEF RemoteOpen, PeerEnds, DropSend, life, history, runs, Calm, SameHistory
    <3>5. ASSUME NEW s \in Streams, DropRecv(s) \/ StreamCreditDue(s)
          PROVE  Calm
      BY <3>5, SMTT(30) DEF DropRecv, StreamCreditDue, life, history, runs, Calm, SameHistory
    <3> QED BY <3>1, <3>2, <3>3, <3>4, <3>5, ZenonT(40)
  <2> QED BY <2>1, Zenon DEF Calm, SameHistory, CoreTypes
\* PutSteps: the keepalive's PING, OPEN and STOP_SENDING.
<1>PutSteps.
    ASSUME CoreTypes,
           KeepAlive \/ \E s \in Streams : OpenBi(s) \/ StopSending(s)
    PROVE  CoreTypes' /\ (Calm \/ \E f \in Frames : Put(f))
  <2> USE <1>PutSteps
  \* EnqueueControlFields: enqueue_control appends the frame, or finds a PING already
  \* queued.
  <2>EnqueueControlFields.
      ASSUME NEW r \in Queue, NEW f \in Frames
      PROVE  LET n == EnqueueControl(r, f) IN
             /\ n \in Queue
             /\ n = r \/ n.control = Append(r.control, f)
             /\ n = r => \E i \in DOMAIN r.control : r.control[i] = Ping
             /\ n.controlTurn = r.controlTurn
             /\ SameData(n, r) /\ SameEnd(n, r) /\ SameCredit(n, r)
    <3> USE <2>EnqueueControlFields
    <3> DEFINE n == EnqueueControl(r, f)
    <3>0. r.control \in Seq(Frames)
      BY QueueFields, Zenon
    <3>1. PICK c \in Seq(Frames) : c = Append(r.control, f)
      <4>1. Append(r.control, f) \in Seq(Frames)
        BY <3>0, SMTT(30)
      <4> QED BY <4>1, Zenon
    <3>2. (n = r /\ \E i \in DOMAIN r.control : r.control[i] = Ping) \/ n = [r EXCEPT !.control = c]
      BY <3>1, Zenon DEF EnqueueControl
    <3>3. CASE n = r /\ \E i \in DOMAIN r.control : r.control[i] = Ping
      BY <3>3, Zenon DEF SameData, SameEnd, SameCredit
    <3>4. CASE n = [r EXCEPT !.control = c]
      <4>1. [r EXCEPT !.control = c] \in Queue
        BY Zenon DEF Queue
      <4>2. n.control = c /\ n.controlTurn = r.controlTurn /\ SameData(n, r)
            /\ SameEnd(n, r) /\ SameCredit(n, r)
        BY <3>4, Zenon DEF Queue, SameData, SameEnd, SameCredit
      <4>3. n # r
        <5>1. Len(c) # Len(r.control)
          BY <3>0, <3>1, SMTT(30)
        <5> QED BY <4>2, <5>1, Zenon
      <4> QED BY <3>1, <3>4, <4>1, <4>2, <4>3, ZenonT(40)
    <3> QED BY <3>2, <3>3, <3>4, Zenon
  <2> DEFINE Quiet == UNCHANGED st /\ SameHistory /\ SameWriter
  <2>1. PICK f \in Frames :
          /\ q' = q \/ (~q.closing /\ q' = EnqueueControl(q, f))
          /\ f.type \in {"open", "ping", "stop"} /\ ~f.fin /\ Quiet
    <3>1. CASE KeepAlive
      <4>1. Ping \in Frames /\ Ping.type = "ping" /\ ~Ping.fin
        BY CloseFrames, Zenon DEF Ping, Frame
      <4> QED BY <3>1, <4>1, Zenon DEF KeepAlive, life, history, runs, SameHistory, SameWriter
    <3>2. ASSUME NEW s \in Streams, OpenBi(s)
          PROVE  \E f \in Frames : /\ q' = q \/ (~q.closing /\ q' = EnqueueControl(q, f))
                                   /\ f.type \in {"open", "ping", "stop"} /\ ~f.fin /\ Quiet
      <4>1. Frame("open", s) \in Frames /\ Frame("open", s).type = "open" /\ ~Frame("open", s).fin
        BY FrameTypes, Zenon DEF Frame
      <4> QED BY <3>2, <4>1, Zenon DEF OpenBi, life, history, runs, SameHistory, SameWriter
    <3>3. ASSUME NEW s \in Streams, StopSending(s)
          PROVE  \E f \in Frames : /\ q' = q \/ (~q.closing /\ q' = EnqueueControl(q, f))
                                   /\ f.type \in {"open", "ping", "stop"} /\ ~f.fin /\ Quiet
      <4>1. Frame("stop", s) \in Frames /\ Frame("stop", s).type = "stop" /\ ~Frame("stop", s).fin
        BY FrameTypes, Zenon DEF Frame
      <4> QED BY <3>3, <4>1, Zenon DEF StopSending, life, history, runs, SameHistory, SameWriter
    <3> QED BY <3>1, <3>2, <3>3, Zenon
  <2>2. CASE q' = q
    <3>1. Calm
      BY <2>1, <2>2, Zenon DEF Calm, SameHistory, SameWriter
    <3>2. CoreTypes'
      BY <3>1, Zenon DEF Calm, SameHistory, CoreTypes
    <3> QED BY <3>1, <3>2, Zenon
  <2>3. CASE q' # q
    <3>1. q \in Queue
      BY Zenon DEF CoreTypes
    <3>2. ~q.closing /\ q' = EnqueueControl(q, f)
      BY <2>1, <2>3, Zenon
    <3>3. /\ q' \in Queue /\ q'.control = Append(q.control, f)
          /\ q'.controlTurn = q.controlTurn
          /\ SameData(q', q) /\ SameEnd(q', q) /\ SameCredit(q', q)
      BY <2>3, <3>1, <3>2, <2>EnqueueControlFields, Zenon
    <3>4. Put(f)
      BY <2>1, <3>2, <3>3, Zenon DEF Put
    <3>5. CoreTypes'
      BY <2>1, <3>3, Zenon DEF SameHistory, SameWriter, CoreTypes
    <3> QED BY <3>4, <3>5, Zenon
  <2> QED BY <2>2, <2>3, Zenon
\* ChunkSteps: the writes of the application and its finish.
<1>ChunkSteps.
    ASSUME CoreTypes, NEW s \in Streams, Write(s)
    PROVE  CoreTypes' /\ \E c \in Chunks : PutChunk(s, c)
  <2> USE <1>ChunkSteps
  \* EnqueueDataFields: enqueue_data appends a chunk, and the stream becomes ready if its
  \* queue was empty.
  <2>EnqueueDataFields.
      ASSUME NEW r \in Queue, NEW z \in Streams, NEW c \in Chunks
      PROVE  LET n == EnqueueData(r, z, c) IN
             /\ n \in Queue
             /\ n.byStream = [r.byStream EXCEPT ![z] = Append(r.byStream[z], c)]
             /\ n.ready = IF r.byStream[z] = <<>> THEN Append(r.ready, z) ELSE r.ready
             /\ SameControl(n, r) /\ SameEnd(n, r) /\ SameCredit(n, r)
    <3> USE <2>EnqueueDataFields
    <3> DEFINE n == EnqueueData(r, z, c)
    <3>0. r.byStream \in [Streams -> Seq(Chunks)] /\ r.ready \in Seq(Streams)
      BY QueueFields, Zenon
    <3>1. PICK b \in [Streams -> Seq(Chunks)] : b = [r.byStream EXCEPT ![z] = Append(r.byStream[z], c)]
      <4>1. ([r.byStream EXCEPT ![z] = Append(r.byStream[z], c)]) \in [Streams -> Seq(Chunks)]
        BY <3>0, SMTT(30)
      <4> QED BY <4>1, Zenon
    <3>2. PICK d \in Seq(Streams) : d = IF r.byStream[z] = <<>> THEN Append(r.ready, z) ELSE r.ready
      <4>1. (IF r.byStream[z] = <<>> THEN Append(r.ready, z) ELSE r.ready) \in Seq(Streams)
        BY <3>0, SMTT(30)
      <4> QED BY <4>1, Zenon
    <3>3. n = [r EXCEPT !.byStream = b, !.ready = d]
      BY <3>1, <3>2, Zenon DEF EnqueueData, Queue
    <3>4. [r EXCEPT !.byStream = b, !.ready = d] \in Queue
      BY Zenon DEF Queue
    <3>5. n.byStream = b /\ n.ready = d /\ SameControl(n, r) /\ SameEnd(n, r) /\ SameCredit(n, r)
      BY <3>3, Zenon DEF Queue, SameControl, SameEnd, SameCredit
    <3> QED BY <3>1, <3>2, <3>3, <3>4, <3>5, ZenonT(40)
  <2>0. q \in Queue
    BY Zenon DEF CoreTypes
  <2>1. PICK n \in Nat, fin \in BOOLEAN : SendChunk(s, n, fin)
    BY WriterAssumption, Zenon DEF Write
  <2>2. PICK c \in Chunks : c = [len |-> n, fin |-> fin] /\ c.len = n /\ c.fin = fin
    <3>1. [len |-> n, fin |-> fin] \in Chunks
      BY Zenon DEF Chunks
    <3> QED BY <3>1, Zenon
  <2>3. /\ s \notin fins /\ ~q.closing /\ ~st[s].terminal
        /\ q' = EnqueueData(q, s, c)
        /\ fins' = (IF c.fin THEN fins \cup {s} ELSE fins)
        /\ accepted' = [accepted EXCEPT ![s] = @ + c.len]
        /\ UNCHANGED <<st, ended, dataRun, controlRun, passed>> /\ SameWriter
    BY <2>1, <2>2, Zenon DEF SendChunk, life, runs, SameWriter
  <2>4. /\ q' \in Queue
        /\ q'.byStream = [q.byStream EXCEPT ![s] = Append(q.byStream[s], c)]
        /\ q'.ready = IF q.byStream[s] = <<>> THEN Append(q.ready, s) ELSE q.ready
        /\ SameControl(q', q) /\ SameEnd(q', q) /\ SameCredit(q', q)
    BY <2>0, <2>3, <2>EnqueueDataFields, ZenonT(40)
  <2>5. PutChunk(s, c)
    BY <2>3, <2>4, Zenon DEF PutChunk
  <2>6. accepted' \in [Streams -> Nat]
    <3>1. accepted \in [Streams -> Nat] /\ c.len \in Nat
      BY <2>2, Zenon DEF CoreTypes
    <3>2. accepted[s] + c.len \in Nat
      BY <3>1, SMTT(30)
    <3> QED BY <2>3, <3>1, <3>2, Zenon
  <2>7. CoreTypes'
    BY <2>3, <2>4, <2>6, Zenon DEF CoreTypes, SameWriter
  <2> QED BY <2>5, <2>7, Zenon
\* StreamSteps: finish stores send_terminal, MAX_STREAM_DATA arrives.
<1>StreamSteps.
    ASSUME CoreTypes, NEW s \in Streams,
           FinishStore(s) \/ \E m \in StreamLimits : RecvMaxStreamData(s, m)
    PROVE  CoreTypes' /\ StreamNews
  <2> USE <1>StreamSteps
  \* LimitFields: MAX_STREAM_DATA only raises the limit.
  <2>LimitFields.
      ASSUME NEW t \in [Streams -> SendState], NEW z \in Streams, NEW m \in Nat
      PROVE  LET n == [t EXCEPT ![z].peerLimit = Max2(@, m)] IN
             /\ n \in [Streams -> SendState]
             /\ \A x \in Streams :
                  /\ n[x].peerLimit >= t[x].peerLimit
                  /\ n[x].terminal = t[x].terminal /\ n[x].sent = t[x].sent
                  /\ n[x].dispatched = t[x].dispatched /\ n[x].resetQueued = t[x].resetQueued
    <3> USE <2>LimitFields
    <3> DEFINE n == [t EXCEPT ![z].peerLimit = Max2(@, m)]
    <3>0. PICK a \in SendState : a = t[z]
      BY Zenon
    <3>1. a.peerLimit \in Nat
      BY Zenon DEF SendState
    <3>2. PICK p \in Nat : p = Max2(a.peerLimit, m) /\ p >= a.peerLimit
      BY <3>1, SMTT(30) DEF Max2
    <3>3. [a EXCEPT !.peerLimit = p] \in SendState
      BY Zenon DEF SendState
    <3>4. PICK e \in SendState : e = [a EXCEPT !.peerLimit = p]
      BY <3>3, Zenon
    <3>5. /\ e.terminal = a.terminal /\ e.sent = a.sent /\ e.peerLimit = p
          /\ e.dispatched = a.dispatched /\ e.resetQueued = a.resetQueued
      BY <3>4, Zenon DEF SendState
    <3>6. n = [t EXCEPT ![z] = e]
      BY <3>0, <3>2, <3>4, Zenon DEF SendState
    <3>7. n \in [Streams -> SendState]
      BY <3>6, Zenon
    <3> HIDE DEF n
    <3>8. ASSUME NEW x \in Streams
          PROVE  /\ n[x].peerLimit >= t[x].peerLimit
                 /\ n[x].terminal = t[x].terminal /\ n[x].sent = t[x].sent
                 /\ n[x].dispatched = t[x].dispatched /\ n[x].resetQueued = t[x].resetQueued
      <4>1. CASE x = z
        <5>1. n[z] = e /\ t[z] = a
          BY <3>0, <3>6, ZenonT(40)
        <5> QED BY <3>2, <3>5, <4>1, <5>1, ZenonT(40)
      <4>2. CASE x # z
        <5>1. n[x] = t[x] /\ t[x] \in SendState
          BY <3>6, <4>2, Zenon
        <5>2. t[x].peerLimit \in Nat
          BY <5>1, Zenon DEF SendState
        <5> QED BY <5>1, <5>2, SMTT(30)
      <4> QED BY <4>1, <4>2, Zenon
    <3> QED BY <3>7, <3>8, Zenon DEF n
  <2>0. st \in [Streams -> SendState]
    BY Zenon DEF CoreTypes
  <2>1. \A x \in Streams : st[x].peerLimit \in Nat
    BY <2>0, Zenon DEF SendState
  <2>2. UNCHANGED q /\ SameHistory /\ SameWriter
    <3>1. CASE FinishStore(s)
      BY <3>1, Zenon DEF FinishStore, life, history, runs, SameHistory, SameWriter
    <3>2. ASSUME NEW m \in StreamLimits, RecvMaxStreamData(s, m)
          PROVE  UNCHANGED q /\ SameHistory /\ SameWriter
      BY <3>2, Zenon DEF RecvMaxStreamData, life, history, runs, SameHistory, SameWriter
    <3> QED BY <3>1, <3>2, Zenon
  <2>3. /\ st' \in [Streams -> SendState]
        /\ \A x \in Streams :
             /\ st[x].terminal => st'[x].terminal
             /\ st'[x].peerLimit >= st[x].peerLimit
             /\ st'[x].sent = st[x].sent /\ st'[x].dispatched = st[x].dispatched
             /\ st'[x].resetQueued = st[x].resetQueued
    <3>1. CASE FinishStore(s)
      <4>1. st' = [st EXCEPT ![s].terminal = TRUE]
        BY <3>1, Zenon DEF FinishStore
      <4>2. /\ st' \in [Streams -> SendState]
            /\ \A x \in Streams :
                /\ (st'[x].terminal <=> st[x].terminal \/ x = s)
                /\ st'[x].sent = st[x].sent /\ st'[x].peerLimit = st[x].peerLimit
                /\ st'[x].dispatched = st[x].dispatched /\ st'[x].resetQueued = st[x].resetQueued
        BY <2>0, <4>1, TerminalFields, SMTT(30)
      <4> QED BY <2>1, <4>2, SMTT(30)
    <3>2. ASSUME NEW m \in StreamLimits, RecvMaxStreamData(s, m)
          PROVE  /\ st' \in [Streams -> SendState]
                 /\ \A x \in Streams :
                      /\ st[x].terminal => st'[x].terminal
                      /\ st'[x].peerLimit >= st[x].peerLimit
                      /\ st'[x].sent = st[x].sent /\ st'[x].dispatched = st[x].dispatched
                      /\ st'[x].resetQueued = st[x].resetQueued
      <4>0. m \in Nat
        BY WriterAssumption, Zenon
      <4>1. CASE st' = [st EXCEPT ![s].peerLimit = Max2(@, m)]
        <5>1. /\ st' \in [Streams -> SendState]
              /\ \A x \in Streams :
                   /\ st'[x].peerLimit >= st[x].peerLimit
                   /\ st'[x].terminal = st[x].terminal /\ st'[x].sent = st[x].sent
                   /\ st'[x].dispatched = st[x].dispatched /\ st'[x].resetQueued = st[x].resetQueued
          BY <2>0, <4>0, <4>1, <2>LimitFields, SMTT(30)
        <5> QED BY <5>1, Zenon
      <4>2. CASE st' = st
        BY <2>0, <2>1, <4>2, SMTT(30)
      <4> QED BY <3>2, <4>1, <4>2, Zenon DEF RecvMaxStreamData
    <3> QED BY <3>1, <3>2, ZenonT(40)
  <2> QED BY <2>2, <2>3, Zenon DEF StreamNews, CoreTypes, SameHistory, SameWriter
\* ResetSteps: a direction is reset, by the application, the cleanup or STOP_SENDING.
<1>ResetSteps.
    ASSUME CoreTypes, ReadyMatchesQueues, NEW s \in Streams, ResetStream(s)
    PROVE  CoreTypes' /\ PutReset(s)
  <2> USE <1>ResetSteps
  \* QueueResetFields: a reset drops the stream's chunks and queues RESET.
  <2>QueueResetFields.
      ASSUME NEW r \in Queue, IsInjective(r.ready), NEW z \in Streams, NEW f \in Frames,
             f = Frame("reset", z)
      PROVE  LET n == QueueReset(r, z) IN
             /\ n \in Queue
             /\ n.byStream = [r.byStream EXCEPT ![z] = <<>>]
             /\ n.ready = Without(r.ready, z)
             /\ n.control = Append(r.control, f) /\ n.controlTurn = r.controlTurn
             /\ SameEnd(n, r) /\ SameCredit(n, r)
    <3> USE <2>QueueResetFields
    <3> DEFINE n == QueueReset(r, z)
    <3>0. /\ r.byStream \in [Streams -> Seq(Chunks)] /\ r.ready \in Seq(Streams)
          /\ r.control \in Seq(Frames)
      BY QueueFields, Zenon
    <3>1. PICK b \in [Streams -> Seq(Chunks)] : b = [r.byStream EXCEPT ![z] = <<>>]
      <4>1. ([r.byStream EXCEPT ![z] = <<>>]) \in [Streams -> Seq(Chunks)]
        BY <3>0, SMTT(30)
      <4> QED BY <4>1, Zenon
    <3>2. PICK d \in Seq(Streams) : d = Without(r.ready, z)
      <4>1. (Without(r.ready, z)) \in Seq(Streams)
        BY <3>0, ReadyWithout, Zenon
      <4> QED BY <4>1, Zenon
    <3>3. PICK c \in Seq(Frames) : c = Append(r.control, f)
      <4>1. Append(r.control, f) \in Seq(Frames)
        BY <3>0, SMTT(30)
      <4> QED BY <4>1, Zenon
    <3>4. n = [r EXCEPT !.byStream = b, !.ready = d, !.control = c]
      BY <3>1, <3>2, <3>3, Zenon DEF QueueReset, Queue
    <3>5. [r EXCEPT !.byStream = b, !.ready = d, !.control = c] \in Queue
      BY Zenon DEF Queue
    <3>6. n.byStream = b /\ n.ready = d /\ n.control = c /\ n.controlTurn = r.controlTurn
          /\ SameEnd(n, r) /\ SameCredit(n, r)
      BY <3>4, Zenon DEF Queue, SameEnd, SameCredit
    <3> QED BY <3>1, <3>2, <3>3, <3>4, <3>5, <3>6, ZenonT(40)
  \* ResetFields: the stores of reset_stream.
  <2>ResetFields.
      ASSUME st \in [Streams -> SendState], NEW z \in Streams,
             st' = [st EXCEPT ![z].resetQueued = TRUE, ![z].terminal = TRUE]
      PROVE  /\ st' \in [Streams -> SendState]
             /\ \A x \in Streams :
                  /\ (st'[x].terminal <=> st[x].terminal \/ x = z)
                  /\ (st'[x].resetQueued <=> st[x].resetQueued \/ x = z)
                  /\ st'[x].sent = st[x].sent /\ st'[x].peerLimit = st[x].peerLimit
                  /\ st'[x].dispatched = st[x].dispatched
    <3> USE <2>ResetFields
    <3>0. PICK a \in SendState : a = st[z]
      BY Zenon
    <3>1. [a EXCEPT !.resetQueued = TRUE, !.terminal = TRUE] \in SendState
      BY Zenon DEF SendState
    <3>2. PICK e \in SendState : e = [a EXCEPT !.resetQueued = TRUE, !.terminal = TRUE]
      BY <3>1, Zenon
    <3>3. /\ e.terminal = TRUE /\ e.sent = a.sent /\ e.peerLimit = a.peerLimit
          /\ e.dispatched = a.dispatched /\ e.resetQueued = TRUE
      BY <3>2, Zenon DEF SendState
    <3>4. st' = [st EXCEPT ![z] = e]
      BY <3>0, <3>2, Zenon DEF SendState
    <3>5. st' \in [Streams -> SendState]
      BY <3>4, Zenon
    <3>6. ASSUME NEW x \in Streams
          PROVE  /\ (st'[x].terminal <=> st[x].terminal \/ x = z)
                 /\ (st'[x].resetQueued <=> st[x].resetQueued \/ x = z)
                 /\ st'[x].sent = st[x].sent /\ st'[x].peerLimit = st[x].peerLimit
                 /\ st'[x].dispatched = st[x].dispatched
      <4>1. CASE x = z
        <5>1. st'[z] = e /\ st[z] = a
          BY <3>0, <3>4, Zenon
        <5> QED BY <3>3, <4>1, <5>1, Zenon
      <4>2. CASE x # z
        <5>1. st'[x] = st[x] /\ st[x] \in SendState
          BY <3>4, <4>2, Zenon
        <5>2. st[x].terminal \in BOOLEAN /\ st[x].resetQueued \in BOOLEAN
          BY <5>1, Zenon DEF SendState
        <5> QED BY <4>2, <5>1, <5>2, Zenon
      <4> QED BY <4>1, <4>2, Zenon
    <3> QED BY <3>5, <3>6, Zenon
  <2>0. q \in Queue /\ st \in [Streams -> SendState] /\ IsInjective(q.ready)
    BY ReadyFacts, Zenon DEF CoreTypes
  <2>1. /\ ~q.closing /\ ~st[s].dispatched /\ ~st[s].resetQueued
        /\ q' = QueueReset(q, s)
        /\ st' = [st EXCEPT ![s].resetQueued = TRUE, ![s].terminal = TRUE]
        /\ SameHistory /\ SameWriter
    BY Zenon DEF ResetStream, life, history, runs, SameHistory, SameWriter
  <2>2. PICK f \in Frames : f = Frame("reset", s)
    BY FrameTypes, Zenon
  <2>3. /\ q' \in Queue
        /\ q'.byStream = [q.byStream EXCEPT ![s] = <<>>]
        /\ q'.ready = Without(q.ready, s)
        /\ q'.control = Append(q.control, f) /\ q'.controlTurn = q.controlTurn
        /\ SameEnd(q', q) /\ SameCredit(q', q)
    BY <2>0, <2>1, <2>2, <2>QueueResetFields, Zenon
  <2>4. /\ st' \in [Streams -> SendState]
        /\ \A x \in Streams :
                /\ (st'[x].terminal <=> st[x].terminal \/ x = s)
                /\ (st'[x].resetQueued <=> st[x].resetQueued \/ x = s)
                /\ st'[x].sent = st[x].sent /\ st'[x].peerLimit = st[x].peerLimit
                /\ st'[x].dispatched = st[x].dispatched
    BY <2>0, <2>1, <2>ResetFields, Zenon
  <2>5. PutReset(s)
    BY <2>1, <2>2, <2>3, <2>4, ZenonT(40) DEF PutReset
  <2>6. CoreTypes'
    BY <2>1, <2>3, <2>4, Zenon DEF CoreTypes, SameHistory, SameWriter
  <2> QED BY <2>5, <2>6, Zenon
\* ConnSteps: SETTINGS and MAX_DATA arrive.
<1>ConnSteps.
    ASSUME CoreTypes,
           RecvSettings(InitialConn, InitialStream) \/ \E m \in ConnLimits : RecvMaxData(m)
    PROVE  CoreTypes' /\ ConnNews
  <2> USE <1>ConnSteps
  \* SettingsFields: the peer's SETTINGS set both initial limits.
  <2>SettingsFields.
      ASSUME q \in Queue, NEW m \in Nat, NEW k \in Nat,
             q' = [q EXCEPT !.settings = TRUE, !.peerLimit = m, !.initialLimit = k]
      PROVE  /\ q' \in Queue
             /\ q'.settings = TRUE /\ q'.peerLimit = m /\ q'.initialLimit = k
             /\ q'.sent = q.sent
             /\ SameData(q', q) /\ SameEnd(q', q) /\ SameControl(q', q)
    <3> USE <2>SettingsFields
    <3>1. [q EXCEPT !.settings = TRUE, !.peerLimit = m, !.initialLimit = k] \in Queue
      BY Zenon DEF Queue
    <3> QED BY <3>1, Zenon DEF Queue, SameData, SameEnd, SameControl
  \* MaxDataFields: MAX_DATA only raises the limit (fetch_max).
  <2>MaxDataFields.
      ASSUME NEW r \in Queue, NEW m \in Nat
      PROVE  LET n == [r EXCEPT !.peerLimit = Max2(@, m)] IN
             /\ n \in Queue
             /\ n.peerLimit = Max2(r.peerLimit, m) /\ n.peerLimit >= r.peerLimit
             /\ n.settings = r.settings /\ n.initialLimit = r.initialLimit /\ n.sent = r.sent
             /\ SameData(n, r) /\ SameEnd(n, r) /\ SameControl(n, r)
    <3> USE <2>MaxDataFields
    <3>1. r.peerLimit \in Nat
      BY QueueFields, Zenon
    <3>2. PICK p \in Nat : p = Max2(r.peerLimit, m) /\ p >= r.peerLimit
      BY <3>1, SMTT(30) DEF Max2
    <3>3. [r EXCEPT !.peerLimit = p] \in Queue
      BY Zenon DEF Queue
    <3> QED BY <3>2, <3>3, Zenon DEF Queue, SameData, SameEnd, SameControl
  <2>0. q \in Queue /\ q.peerLimit \in Nat
    BY QueueFields, Zenon DEF CoreTypes
  <2>1. CASE RecvSettings(InitialConn, InitialStream)
    <3>1. /\ q' = [q EXCEPT !.settings = TRUE, !.peerLimit = InitialConn, !.initialLimit = InitialStream]
          /\ ~q.settings /\ UNCHANGED st /\ SameHistory /\ SameWriter
      BY <2>1, Zenon DEF RecvSettings, life, history, runs, SameHistory, SameWriter
    <3>2. /\ q' \in Queue /\ q'.settings = TRUE /\ q'.sent = q.sent
          /\ SameData(q', q) /\ SameEnd(q', q) /\ SameControl(q', q)
      <4>1. PICK m \in Nat, k \in Nat : m = InitialConn /\ k = InitialStream
        BY WriterAssumption, Zenon
      <4>2. q' = [q EXCEPT !.settings = TRUE, !.peerLimit = m, !.initialLimit = k]
        BY <3>1, <4>1, Zenon
      <4> QED BY <2>0, <4>2, <2>SettingsFields, Zenon
    <3> QED BY <3>1, <3>2, Zenon DEF ConnNews, CoreTypes, SameHistory, SameWriter
  <2>2. ASSUME NEW m \in ConnLimits, RecvMaxData(m)
        PROVE  CoreTypes' /\ ConnNews
    <3>1. /\ q' = [q EXCEPT !.peerLimit = Max2(@, m)]
          /\ q.settings /\ UNCHANGED st /\ SameHistory /\ SameWriter
      BY <2>2, Zenon DEF RecvMaxData, life, history, runs, SameHistory, SameWriter
    <3>2. m \in Nat
      BY WriterAssumption, Zenon
    <3>3. /\ q' \in Queue /\ q'.peerLimit >= q.peerLimit
          /\ q'.settings = q.settings /\ q'.initialLimit = q.initialLimit /\ q'.sent = q.sent
          /\ SameData(q', q) /\ SameEnd(q', q) /\ SameControl(q', q)
      BY <2>0, <3>1, <3>2, <2>MaxDataFields, Zenon
    <3>4. q.settings = TRUE
      BY <2>0, <3>1, Zenon DEF Queue
    <3> QED BY <3>1, <3>3, <3>4, Zenon DEF ConnNews, CoreTypes, SameHistory, SameWriter
  <2> QED BY <2>1, <2>2, Zenon
\* FinishSteps: the calls that close the connection.
<1>FinishSteps.
    ASSUME CoreTypes, MarkClosed \/ \E code \in {0, 1} : InitiateClose(code)
    PROVE  CoreTypes' /\ (CloseGracefully \/ DropQueues)
  <2> USE <1>FinishSteps
  \* ClearedFields: the three queues are emptied.
  <2>ClearedFields.
      ASSUME NEW r \in Queue
      PROVE  LET n == Cleared(r) IN
             /\ n \in Queue
             /\ n.byStream = [s \in Streams |-> <<>>] /\ n.ready = <<>> /\ n.control = <<>>
             /\ n.controlTurn = r.controlTurn /\ SameEnd(n, r) /\ SameCredit(n, r)
    <3> USE <2>ClearedFields
    <3> DEFINE n == Cleared(r)
    <3>1. PICK b \in [Streams -> Seq(Chunks)] : b = [s \in Streams |-> <<>>]
      <4>1. ([s \in Streams |-> <<>>]) \in [Streams -> Seq(Chunks)]
        BY SMTT(30)
      <4> QED BY <4>1, Zenon
    <3>2. PICK d \in Seq(Streams) : d = <<>>
      <4>1. <<>> \in Seq(Streams)
        BY SMTT(30)
      <4> QED BY <4>1, Zenon
    <3>3. PICK c \in Seq(Frames) : c = <<>>
      <4>1. <<>> \in Seq(Frames)
        BY SMTT(30)
      <4> QED BY <4>1, Zenon
    <3>4. n = [r EXCEPT !.byStream = b, !.ready = d, !.control = c]
      BY <3>1, <3>2, <3>3, Zenon DEF Cleared, Queue
    <3>5. [r EXCEPT !.byStream = b, !.ready = d, !.control = c] \in Queue
      BY Zenon DEF Queue
    <3>6. n.byStream = b /\ n.ready = d /\ n.control = c /\ n.controlTurn = r.controlTurn
          /\ SameEnd(n, r) /\ SameCredit(n, r)
      BY <3>4, Zenon DEF Queue, SameEnd, SameCredit
    <3> QED BY <3>1, <3>2, <3>3, <3>4, <3>5, <3>6, ZenonT(40)
  \* InitiateCloseFields: initiate_close sets the CLOSE, and drops the queues if it is
  \* for an error.
  <2>InitiateCloseFields.
      ASSUME NEW r \in Queue, NEW code \in {0, 1}
      PROVE  LET n == InitiateCloseQueues(r, code) IN
             /\ n \in Queue
             /\ n.closeFrame = Close(code) /\ n.closing = TRUE
             /\ SameCredit(n, r) /\ n.controlTurn = r.controlTurn
             /\ code = 0 => n.graceful /\ SameData(n, r) /\ n.control = r.control
             /\ code = 1 => n.byStream = [s \in Streams |-> <<>>] /\ n.ready = <<>>
                            /\ n.control = <<>> /\ ~n.graceful
    <3> USE <2>InitiateCloseFields
    <3> DEFINE n == InitiateCloseQueues(r, code)
    <3>1. PICK f \in Frames : f = Close(code)
      BY CloseFrames, Zenon
    <3>2. PICK g \in BOOLEAN : g = (code = 0) /\ (g <=> code = 0)
      BY Zenon
    <3>3. PICK e \in Queue : e = IF code = 0 THEN r ELSE Cleared(r)
      BY <2>ClearedFields, Zenon
    <3>4. n = [e EXCEPT !.closeFrame = f, !.graceful = g, !.closing = TRUE]
      BY <3>1, <3>2, <3>3, ZenonT(40) DEF InitiateCloseQueues
    <3>5. /\ n \in Queue /\ n.closeFrame = f /\ n.graceful = g /\ n.closing = TRUE
          /\ SameData(n, e) /\ SameControl(n, e) /\ SameCredit(n, e)
      <4>1. [e EXCEPT !.closeFrame = f, !.graceful = g, !.closing = TRUE] \in Queue
        BY Zenon DEF Queue
      <4> QED BY <3>4, <4>1, SMTT(30) DEF Queue, SameData, SameControl, SameCredit
    <3>6. code = 0 => e = r
      BY <3>3, ZenonT(40)
    <3>7. code = 1 => e.byStream = [s \in Streams |-> <<>>] /\ e.ready = <<>> /\ e.control = <<>>
                      /\ e.controlTurn = r.controlTurn /\ SameCredit(e, r)
      BY <3>3, <2>ClearedFields, SMTT(30)
    <3>8. CASE code = 0
      BY <3>1, <3>2, <3>5, <3>6, <3>8, SMTT(30) DEF SameData, SameControl, SameCredit
    <3>9. CASE code = 1
      BY <3>1, <3>2, <3>5, <3>7, <3>9, SMTT(30) DEF SameData, SameControl, SameCredit
    <3> QED BY <3>8, <3>9, Zenon
  \* ShutdownFields: shutdown drops everything.
  <2>ShutdownFields.
      ASSUME NEW r \in Queue
      PROVE  LET n == ShutdownQueues(r) IN
             /\ n \in Queue
             /\ n.byStream = [s \in Streams |-> <<>>] /\ n.ready = <<>> /\ n.control = <<>>
             /\ n.closeFrame = NoFrame /\ n.graceful = FALSE /\ n.closing = TRUE
             /\ SameCredit(n, r) /\ n.controlTurn = r.controlTurn
    <3> USE <2>ShutdownFields
    <3> DEFINE n == ShutdownQueues(r)
    <3>1. PICK f \in Frames : f = NoFrame
      BY CloseFrames, Zenon
    <3>2. PICK g \in BOOLEAN : g = FALSE
      BY Zenon
    <3>3. PICK e \in Queue : e = Cleared(r)
      BY <2>ClearedFields, Zenon
    <3>4. n = [e EXCEPT !.closeFrame = f, !.graceful = g, !.closing = TRUE]
      BY <3>1, <3>2, <3>3, Zenon DEF ShutdownQueues
    <3>5. /\ n \in Queue /\ n.closeFrame = f /\ n.graceful = g /\ n.closing = TRUE
          /\ SameData(n, e) /\ SameControl(n, e) /\ SameCredit(n, e)
      <4>1. [e EXCEPT !.closeFrame = f, !.graceful = g, !.closing = TRUE] \in Queue
        BY Zenon DEF Queue
      <4> QED BY <3>4, <4>1, ZenonT(40) DEF Queue, SameData, SameControl, SameCredit
    <3>7. e.byStream = [s \in Streams |-> <<>>] /\ e.ready = <<>> /\ e.control = <<>>
          /\ e.controlTurn = r.controlTurn /\ SameCredit(e, r)
      BY <3>3, <2>ClearedFields, Zenon
    <3> QED BY <3>1, <3>2, <3>5, <3>7, Zenon DEF SameData, SameControl, SameCredit
  <2>0. q \in Queue
    BY Zenon DEF CoreTypes
  <2>1. CASE MarkClosed
    <3>1. q' = ShutdownQueues(q) /\ closed' /\ UNCHANGED <<st, frame, pc>> /\ SameHistory
      BY <2>1, Zenon DEF MarkClosed, history, runs, SameHistory
    <3>2. /\ q' \in Queue
          /\ q'.byStream = [s \in Streams |-> <<>>] /\ q'.ready = <<>> /\ q'.control = <<>>
          /\ q'.closeFrame = NoFrame /\ q'.graceful = FALSE /\ q'.closing = TRUE
          /\ SameCredit(q', q) /\ q'.controlTurn = q.controlTurn
      BY <2>0, <3>1, <2>ShutdownFields, Zenon
    <3>3. DropQueues
      BY <3>1, <3>2, Zenon DEF DropQueues
    <3> QED BY <3>1, <3>2, <3>3, Zenon DEF CoreTypes, SameHistory
  <2>2. ASSUME InitiateClose(0) PROVE CoreTypes' /\ CloseGracefully
    <3>1. /\ q' = InitiateCloseQueues(q, 0) /\ ~closed /\ closed'
          /\ UNCHANGED <<st, frame, pc>> /\ SameHistory
      BY <2>2, Zenon DEF InitiateClose, history, runs, SameHistory
    <3>2. /\ q' \in Queue
          /\ q'.closeFrame = Close(0) /\ q'.graceful /\ q'.closing = TRUE
          /\ SameCredit(q', q) /\ q'.controlTurn = q.controlTurn
          /\ SameData(q', q) /\ q'.control = q.control
      BY <2>0, <3>1, <2>InitiateCloseFields, Zenon
    <3>3. CloseGracefully
      BY <3>1, <3>2, Zenon DEF CloseGracefully, SameControl
    <3> QED BY <3>1, <3>2, <3>3, Zenon DEF CoreTypes, SameHistory
  <2>3. ASSUME InitiateClose(1) PROVE CoreTypes' /\ DropQueues
    <3>1. /\ q' = InitiateCloseQueues(q, 1) /\ ~closed /\ closed'
          /\ UNCHANGED <<st, frame, pc>> /\ SameHistory
      BY <2>3, Zenon DEF InitiateClose, history, runs, SameHistory
    <3>2. /\ q' \in Queue
          /\ q'.closeFrame = Close(1) /\ ~q'.graceful /\ q'.closing = TRUE
          /\ SameCredit(q', q) /\ q'.controlTurn = q.controlTurn
          /\ q'.byStream = [s \in Streams |-> <<>>] /\ q'.ready = <<>> /\ q'.control = <<>>
      BY <2>0, <3>1, <2>InitiateCloseFields, Zenon
    <3>3. DropQueues
      BY <3>1, <3>2, Zenon DEF DropQueues
    <3> QED BY <3>1, <3>2, <3>3, Zenon DEF CoreTypes, SameHistory
  <2> QED BY <2>1, <2>2, <2>3, Zenon
\* CloseSteps: next_frame returns CLOSE.
<1>CloseSteps.
    ASSUME CoreTypes, NextErrorClose \/ NextGracefulClose
    PROVE  CoreTypes' /\ TakeClose
  <2> USE <1>CloseSteps
  \* TakenCloseFields: next_frame takes the pending CLOSE.
  <2>TakenCloseFields.
      ASSUME NEW r \in Queue
      PROVE  LET n == [r EXCEPT !.closeFrame = NoFrame] IN
             /\ n \in Queue
             /\ n.closeFrame = NoFrame /\ n.graceful = r.graceful /\ n.closing = r.closing
             /\ SameData(n, r) /\ SameControl(n, r) /\ SameCredit(n, r)
    <3> USE <2>TakenCloseFields
    <3>1. PICK f \in Frames : f = NoFrame
      BY CloseFrames, Zenon
    <3>2. [r EXCEPT !.closeFrame = f] \in Queue
      BY Zenon DEF Queue
    <3> QED BY <3>1, <3>2, Zenon DEF Queue, SameData, SameControl, SameCredit
  <2>0. q \in Queue /\ q.closeFrame \in Frames
    BY QueueFields, Zenon DEF CoreTypes
  <2>1. /\ pc = "eval" /\ q.closing /\ (q.graceful => q.control = <<>> /\ Drained(q))
        /\ q' = [q EXCEPT !.closeFrame = NoFrame]
        /\ Took(q.closeFrame) /\ UNCHANGED <<st, closed>> /\ SameHistory
    BY Zenon DEF NextErrorClose, NextGracefulClose, ClosesNow, ControlDone, ControlFirst, ControlWaits,
           Return, Took, life, runs, SameHistory
  <2>2. /\ q' \in Queue
        /\ q'.closeFrame = NoFrame /\ q'.graceful = q.graceful /\ q'.closing = q.closing
        /\ SameData(q', q) /\ SameControl(q', q) /\ SameCredit(q', q)
    BY <2>0, <2>1, <2>TakenCloseFields, Zenon
  <2>3. TakeClose
    BY <2>1, <2>2, Zenon DEF TakeClose
  <2> QED BY <2>0, <2>1, <2>2, <2>3, ZenonT(40) DEF CoreTypes, Took, SameHistory
\* ControlSteps: next_frame returns a control frame or a window update.
<1>ControlSteps.
    ASSUME CoreTypes,
           NextControl \/ NextMaxData \/ \E s \in Streams : NextMaxStreamData(s)
    PROVE  CoreTypes' /\ TakeControlWork
  <2> USE <1>ControlSteps
  \* TakeControlFields: pop_front of the control queue passes the turn to data.
  <2>TakeControlFields.
      ASSUME NEW r \in Queue, r.control # <<>>
      PROVE  LET n == TakeControl(r) IN
             /\ n \in Queue
             /\ n.control = Tail(r.control) /\ n.controlTurn = FALSE
             /\ SameData(n, r) /\ SameEnd(n, r) /\ SameCredit(n, r)
    <3> USE <2>TakeControlFields
    <3> DEFINE n == TakeControl(r)
    <3>1. PICK c \in Seq(Frames) : c = Tail(r.control)
      <4>1. Tail(r.control) \in Seq(Frames)
        <5>1. r.control \in Seq(Frames)
          BY QueueFields, Zenon
        <5> QED BY <5>1, SMTT(30)
      <4> QED BY <4>1, Zenon
    <3>2. PICK t \in BOOLEAN : t = FALSE
      BY Zenon
    <3>3. n = [r EXCEPT !.control = c, !.controlTurn = t]
      BY <3>1, <3>2, Zenon DEF TakeControl, Queue
    <3>4. [r EXCEPT !.control = c, !.controlTurn = t] \in Queue
      BY Zenon DEF Queue
    <3> QED BY <3>1, <3>2, <3>3, <3>4, SMTT(30) DEF Queue, SameData, SameEnd, SameCredit
  <2>0. q \in Queue /\ q.control \in Seq(Frames)
    BY QueueFields, Zenon DEF CoreTypes
  <2>1. /\ pc = "eval" /\ ControlFirst /\ dataRun' = 0
        /\ controlRun' \in {0, controlRun} \/ (~Urgent(q) /\ controlRun' = controlRun + 1)
        /\ UNCHANGED <<st, closed, fins, accepted, ended, passed>>
    <3>1. CountControl /\ controlRun \in Nat
      BY Zenon DEF NextControl, NextMaxData, NextMaxStreamData, CoreTypes
    <3>2. controlRun' \in {0, controlRun} \/ (~Urgent(q) /\ controlRun' = controlRun + 1)
      BY <3>1, SMTT(30) DEF CountControl
    <3>3. \E f : Return(f)
      BY Zenon DEF NextControl, NextMaxData, NextMaxStreamData
    <3>4. UNCHANGED <<closed, fins, accepted, ended>>
      BY <3>3, Zenon DEF Return, life
    <3>5. pc = "eval" /\ ControlFirst /\ UNCHANGED st
      BY Zenon DEF NextControl, NextMaxData, NextMaxStreamData
    <3> QED BY <3>1, <3>2, <3>4, <3>5, ZenonT(40) DEF CountControl
  <2>2. controlRun' \in Nat
    BY <2>1, SMTT(30) DEF CoreTypes
  <2>3. CASE NextControl
    <3>1. q' = TakeControl(q) /\ q.control # <<>> /\ Took(Head(q.control))
      BY <2>3, Zenon DEF NextControl, Return, Took
    <3>2. /\ q' \in Queue
          /\ q'.control = Tail(q.control) /\ q'.controlTurn = FALSE
          /\ SameData(q', q) /\ SameEnd(q', q) /\ SameCredit(q', q)
      BY <2>0, <3>1, <2>TakeControlFields, Zenon
    <3>3. TakeControlWork
      BY <2>1, <3>1, <3>2, ZenonT(40) DEF TakeControlWork
    <3>4. Head(q.control) \in Frames
      BY <2>0, <3>1, SMTT(30)
    <3> QED BY <2>1, <2>2, <3>1, <3>2, <3>3, <3>4, ZenonT(40) DEF CoreTypes, Took
  <2>4. CASE NextMaxData \/ \E s \in Streams : NextMaxStreamData(s)
    <3>1. PICK f \in Frames : /\ f.type \in {"max_data", "max_stream_data"} /\ ~f.fin
                              /\ q.control = <<>> /\ q' = [q EXCEPT !.controlTurn = FALSE]
                              /\ Took(f)
      <4>1. CASE NextMaxData
        <5>1. Frame("max_data", 0) \in Frames /\ Frame("max_data", 0).type = "max_data"
              /\ Frame("max_data", 0).fin = FALSE
          BY FrameTypes, Zenon DEF Frame
        <5> QED BY <4>1, <5>1, Zenon DEF NextMaxData, Return, Took
      <4>2. ASSUME NEW s \in Streams, NextMaxStreamData(s)
            PROVE \E f \in Frames : /\ f.type \in {"max_data", "max_stream_data"} /\ ~f.fin
                              /\ q.control = <<>> /\ q' = [q EXCEPT !.controlTurn = FALSE]
                              /\ Took(f)
        <5>1. /\ Frame("max_stream_data", s) \in Frames
              /\ Frame("max_stream_data", s).type = "max_stream_data"
              /\ Frame("max_stream_data", s).fin = FALSE
          BY FrameTypes, Zenon DEF Frame
        <5> QED BY <4>2, <5>1, Zenon DEF NextMaxStreamData, Return, Took
      <4> QED BY <2>4, <4>1, <4>2, Zenon
    <3>2. /\ q' \in Queue
          /\ q'.control = q.control /\ q'.controlTurn = FALSE
          /\ SameData(q', q) /\ SameEnd(q', q) /\ SameCredit(q', q)
      BY <2>0, <3>1, <1>TurnFields, Zenon
    <3>3. TakeControlWork
      BY <2>1, <3>1, <3>2, Zenon DEF TakeControlWork
    <3> QED BY <2>1, <2>2, <3>1, <3>2, <3>3, ZenonT(40) DEF CoreTypes, Took
  <2> QED BY <2>3, <2>4, Zenon
\* DataSteps: next_frame returns data.
<1>DataSteps.
    ASSUME CoreTypes, ReadyMatchesQueues, NextData
    PROVE  /\ CoreTypes'
           /\ \E i \in Nat, s \in Streams, k \in Nat, f \in BOOLEAN, b \in Seq(Chunks) :
                Dispatch(i, s, k, f, b)
  <2> USE <1>DataSteps
  \* FirstEligibleIs: the loop of next_frame stops at the first eligible stream.
  <2>FirstEligibleIs.
      ASSUME NEW r, NEW t, r.ready \in Seq(Streams), NEW i, i = FirstEligible(r, t), i # 0
      PROVE  /\ i \in 1..Len(r.ready)
             /\ Eligible(r, t, r.ready[i])
             /\ \A j \in 1..(i - 1) : ~Eligible(r, t, r.ready[j])
    <3> USE <2>FirstEligibleIs
    <3> DEFINE T == {k \in 1..Len(r.ready) : Eligible(r, t, r.ready[k])}
    <3>0. DOMAIN r.ready = 1..Len(r.ready) /\ Len(r.ready) \in Nat
      BY SMTT(30)
    <3>1. T # {}
      BY <3>0, Zenon DEF FirstEligible
    <3>2. PICK m \in T : \A k \in T : m <= k
      <4>1. T \in SUBSET Nat
        BY SMTT(30)
      <4> HIDE DEF T
      <4> QED BY <3>1, <4>1, LeastPlace, Zenon
    <3>3. \A j \in 1..(m - 1) : ~Eligible(r, t, r.ready[j])
      <4> SUFFICES ASSUME NEW j \in 1..(m - 1), Eligible(r, t, r.ready[j]) PROVE FALSE
        BY Zenon
      <4>1. j \in T
        BY <3>0, <3>2, SMTT(30)
      <4>2. m <= j /\ m \in Nat
        BY <3>2, <4>1, SMTT(30)
      <4> QED BY <4>2, SMTT(30)
    <3>4. \E k \in DOMAIN r.ready : /\ Eligible(r, t, r.ready[k])
                                    /\ \A j \in 1..(k - 1) : ~Eligible(r, t, r.ready[j])
      BY <3>0, <3>2, <3>3, Zenon
    <3>5. i = CHOOSE k \in DOMAIN r.ready : /\ Eligible(r, t, r.ready[k])
                                            /\ \A j \in 1..(k - 1) : ~Eligible(r, t, r.ready[j])
      BY <3>0, <3>1, Zenon DEF FirstEligible
    <3>6. i \in DOMAIN r.ready /\ Eligible(r, t, r.ready[i])
          /\ \A j \in 1..(i - 1) : ~Eligible(r, t, r.ready[j])
      BY <3>4, <3>5, Zenon
    <3> QED BY <3>0, <3>6, ZenonT(40)
  \* DispatchedFields: the stores of a dispatch, bytes sent and FIN dispatched.
  <2>DispatchedFields.
      ASSUME st \in [Streams -> SendState], NEW z \in Streams,
             NEW k \in Nat, k = Count(q, st, z), NEW f \in BOOLEAN, f = FinNow(q, st, z),
             st' = Dispatched(q, st, z)
      PROVE  /\ st' \in [Streams -> SendState]
             /\ \A x \in Streams :
                  /\ st'[x].sent = IF x = z THEN st[x].sent + k ELSE st[x].sent
                  /\ (st'[x].dispatched <=> st[x].dispatched \/ (x = z /\ f))
                  /\ st'[x].terminal = st[x].terminal /\ st'[x].peerLimit = st[x].peerLimit
                  /\ st'[x].resetQueued = st[x].resetQueued
    <3> USE <2>DispatchedFields
    <3>0. PICK a \in SendState : a = st[z]
      BY Zenon
    <3>1. a.sent \in Nat /\ a.dispatched \in BOOLEAN
      BY Zenon DEF SendState
    <3>2. PICK p \in Nat : p = a.sent + k
      BY <3>1, SMTT(30)
    <3>3. PICK g \in BOOLEAN : g = (a.dispatched \/ f) /\ (g <=> a.dispatched \/ f)
      BY <3>1, Zenon
    <3>4. [a EXCEPT !.sent = p, !.dispatched = g] \in SendState
      BY Zenon DEF SendState
    <3>5. PICK e \in SendState : e = [a EXCEPT !.sent = p, !.dispatched = g]
      BY <3>4, Zenon
    <3>6. /\ e.terminal = a.terminal /\ e.sent = p /\ e.peerLimit = a.peerLimit
          /\ e.dispatched = g /\ e.resetQueued = a.resetQueued
      BY <3>5, Zenon DEF SendState
    <3>7. st' = [st EXCEPT ![z] = e]
      BY <3>0, <3>2, <3>3, <3>5, Zenon DEF Dispatched, SendState
    <3>8. st' \in [Streams -> SendState]
      BY <3>7, Zenon
    <3>9. ASSUME NEW x \in Streams
          PROVE  /\ st'[x].sent = IF x = z THEN st[x].sent + k ELSE st[x].sent
                 /\ (st'[x].dispatched <=> st[x].dispatched \/ (x = z /\ f))
                 /\ st'[x].terminal = st[x].terminal /\ st'[x].peerLimit = st[x].peerLimit
                 /\ st'[x].resetQueued = st[x].resetQueued
      <4>1. CASE x = z
        <5>1. st'[z] = e /\ st[z] = a
          BY <3>0, <3>7, Zenon
        <5> QED BY <3>2, <3>3, <3>6, <4>1, <5>1, ZenonT(40)
      <4>2. CASE x # z
        <5>1. st'[x] = st[x] /\ st[x] \in SendState
          BY <3>7, <4>2, Zenon
        <5>2. st[x].dispatched \in BOOLEAN
          BY <5>1, Zenon DEF SendState
        <5> QED BY <4>2, <5>1, <5>2, Zenon
      <4> QED BY <4>1, <4>2, Zenon
    <3> QED BY <3>8, <3>9, Zenon
  <2>0. /\ q \in Queue /\ st \in [Streams -> SendState] /\ q.ready \in Seq(Streams)
        /\ q.byStream \in [Streams -> Seq(Chunks)]
    BY QueueFields, Zenon DEF CoreTypes
  <2>1. PICK i : i = FirstEligible(q, st)
    BY Zenon
  <2>2. PICK s : s = q.ready[i]
    BY Zenon
  <2>3. /\ pc = "eval" /\ ControlDone /\ i # 0
        /\ q' = TakeData(q, st, i) /\ st' = Dispatched(q, st, s)
        /\ Took(DataFrame(q, st, s))
        /\ dataRun' = (IF ControlWaits THEN dataRun + 1 ELSE 0)
        /\ controlRun' = 0
        /\ passed' = [t \in Streams |-> IF t \in CanSend \ {s} THEN passed[t] + 1 ELSE 0]
        /\ UNCHANGED <<closed, fins, accepted, ended>>
    BY <2>1, <2>2, Zenon DEF NextData, Return, Took, life
  <2>4. /\ i \in 1..Len(q.ready) /\ Eligible(q, st, s)
        /\ \A j \in 1..(i - 1) : ~Eligible(q, st, q.ready[j])
    BY <2>0, <2>1, <2>2, <2>3, <2>FirstEligibleIs, ZenonT(40)
  <2>5. i \in Nat /\ i \in DOMAIN q.ready
    BY <2>0, <2>4, SMTT(30)
  <2>6. s \in Streams /\ q.byStream[s] # <<>>
    BY <2>0, <2>2, <2>5, ReadyFacts, Zenon
  <2>7. PICK k \in Nat : k = Count(q, st, s) /\ k <= Head(q.byStream[s]).len
    BY <2>0, <2>6, CountBounds, Zenon
  <2>8. PICK f \in BOOLEAN : f = FinNow(q, st, s) /\ (f <=> FinNow(q, st, s))
    <3>1. Head(q.byStream[s]) \in Chunks
      BY <2>0, <2>6, CountBounds, Zenon
    <3>2. FinNow(q, st, s) \in BOOLEAN
      BY <3>1, Zenon DEF FinNow, Chunks
    <3> QED BY <3>2, Zenon
  <2>9. PICK b \in Seq(Chunks) : b = Rest(q.byStream[s], k)
    <3>1. q.byStream[s] \in Seq(Chunks)
      BY <2>0, <2>6, Zenon
    <3>2. Rest(q.byStream[s], k) \in Seq(Chunks)
      BY <2>6, <2>7, <3>1, RestChunks, ZenonT(40)
    <3> QED BY <3>2, Zenon
  <2>10. PICK o : o = SubSeq(q.ready, i + 1, Len(q.ready)) \o SubSeq(q.ready, 1, i - 1)
    BY Zenon
  <2>11. /\ q' \in Queue
         /\ q'.byStream = [q.byStream EXCEPT ![s] = b]
         /\ q'.ready = (IF b = <<>> THEN o ELSE Append(o, s))
         /\ q'.sent = q.sent + k /\ q'.controlTurn = TRUE
         /\ q'.control = q.control /\ SameEnd(q', q)
         /\ q'.settings = q.settings /\ q'.peerLimit = q.peerLimit
         /\ q'.initialLimit = q.initialLimit
    <3>0. q.sent \in Nat
      BY <2>0, QueueFields, Zenon
    <3>4. o \in Seq(Streams)
      BY <2>0, <2>4, <2>10, Rotated, ZenonT(40)
    <3>5. PICK c \in [Streams -> Seq(Chunks)] : c = [q.byStream EXCEPT ![s] = b]
      <4>1. ([q.byStream EXCEPT ![s] = b]) \in [Streams -> Seq(Chunks)]
        BY <2>0, <2>6, Zenon
      <4> QED BY <4>1, Zenon
    <3>6. PICK d \in Seq(Streams) : d = IF b = <<>> THEN o ELSE Append(o, s)
      <4>1. (IF b = <<>> THEN o ELSE Append(o, s)) \in Seq(Streams)
        BY <2>6, <3>4, SMTT(30)
      <4> QED BY <4>1, Zenon
    <3>7. PICK m \in Nat : m = q.sent + k
      BY <3>0, SMTT(30)
    <3>8. PICK e \in BOOLEAN : e = TRUE
      BY Zenon
    <3>9. q' = [q EXCEPT !.byStream = c, !.ready = d, !.sent = m, !.controlTurn = e]
      BY <2>0, <2>2, <2>3, <2>7, <2>9, <2>10, <3>5, <3>6, <3>7, <3>8, ZenonT(40) DEF TakeData, Queue
    <3>10. [q EXCEPT !.byStream = c, !.ready = d, !.sent = m, !.controlTurn = e] \in Queue
      BY <2>0, Zenon DEF Queue
    <3>11. /\ q'.byStream = c /\ q'.ready = d /\ q'.sent = m /\ q'.controlTurn = e
           /\ q'.control = q.control /\ SameEnd(q', q)
           /\ q'.settings = q.settings /\ q'.peerLimit = q.peerLimit
           /\ q'.initialLimit = q.initialLimit
      BY <2>0, <3>9, ZenonT(40) DEF Queue, SameEnd
    <3> QED BY <3>5, <3>6, <3>7, <3>8, <3>9, <3>10, <3>11, ZenonT(40)
  <2>12. /\ st' \in [Streams -> SendState]
         /\ \A x \in Streams :
              /\ st'[x].sent = (IF x = s THEN st[x].sent + k ELSE st[x].sent)
              /\ (st'[x].dispatched <=> st[x].dispatched \/ (x = s /\ f))
              /\ st'[x].terminal = st[x].terminal /\ st'[x].peerLimit = st[x].peerLimit
              /\ st'[x].resetQueued = st[x].resetQueued
    BY <2>0, <2>3, <2>6, <2>7, <2>8, <2>DispatchedFields, SMTT(30)
  <2>13. Took(Data(s, k, f)) /\ Data(s, k, f) \in Frames
    BY <2>3, <2>6, <2>7, <2>8, FrameTypes, Zenon DEF DataFrame
  <2>14. Dispatch(i, s, k, f, b)
    BY <2>2, <2>3, <2>4, <2>5, <2>7, <2>8, <2>9, <2>10, <2>11, <2>12, <2>13, ZenonT(40) DEF Dispatch
  <2>15. dataRun' \in Nat /\ controlRun' \in Nat
    BY <2>3, SMTT(30) DEF CoreTypes
  <2>16. passed' \in [Streams -> Nat]
    <3>1. passed \in [Streams -> Nat]
      BY Zenon DEF CoreTypes
    <3>2. \A t \in Streams : (IF t \in CanSend \ {s} THEN passed[t] + 1 ELSE 0) \in Nat
      BY <3>1, SMTT(30)
    <3> QED BY <2>3, <3>2, Zenon
  <2>17. CoreTypes'
    BY <2>3, <2>11, <2>12, <2>13, <2>15, <2>16, ZenonT(40) DEF CoreTypes, Took
  <2> QED BY <2>5, <2>6, <2>14, <2>17, ZenonT(40)
\* TurnSteps: next_frame finds no data although it is the turn of data.
<1>TurnSteps.
    ASSUME CoreTypes, PassTurn
    PROVE  CoreTypes' /\ GiveTurn
  <2> USE <1>TurnSteps
  <2>0. q \in Queue
    BY Zenon DEF CoreTypes
  <2>1. /\ pc = "eval" /\ pc' = "arm" /\ q' = [q EXCEPT !.controlTurn = TRUE] /\ controlRun' = 0
        /\ UNCHANGED <<st, frame, closed, fins, accepted, ended, dataRun, passed>>
    BY Zenon DEF PassTurn, life
  <2>2. /\ q' \in Queue
        /\ q'.control = q.control /\ q'.controlTurn = TRUE
        /\ SameData(q', q) /\ SameEnd(q', q) /\ SameCredit(q', q)
    BY <2>0, <2>1, <1>TurnFields, Zenon
  <2>3. GiveTurn
    BY <2>1, <2>2, Zenon DEF GiveTurn
  <2> QED BY <2>1, <2>2, <2>3, Zenon DEF CoreTypes
\* TransportSteps: the frame in hand is sent, or the transport fails.
<1>TransportSteps.
    ASSUME CoreTypes, SendDone \/ SendBreak
    PROVE  CoreTypes' /\ (Sent \/ Failed)
  <2> USE <1>TransportSteps
  <2>0. frame.id \in Nat /\ NoFrame \in Frames
    BY CloseFrames, Zenon DEF CoreTypes, Frames
  <2>1. CASE SendDone
    <3>1. Sent
      BY <2>1, Zenon DEF SendDone, Sent, life, runs
    <3> QED BY <2>0, <3>1, Zenon DEF Sent, CoreTypes
  <2>2. CASE SendBreak
    <3>1. Failed
      BY <2>2, Zenon DEF SendBreak, Failed, life, history, runs, SameHistory
    <3> QED BY <2>0, <3>1, Zenon DEF Failed, CoreTypes, SameHistory
  <2> QED BY <2>1, <2>2, ZenonT(40)
<1>1. CASE UNCHANGED vars
  BY <1>1, <1>QuietSteps, Zenon DEF Step
<1>2. CASE NextFrame
  <2>1. CASE Arm \/ Wait \/ Poll \/ Woken
    BY <2>1, <1>QuietSteps, Zenon DEF Step
  <2>2. CASE NextErrorClose \/ NextGracefulClose
    BY <2>2, <1>CloseSteps, Zenon DEF Step
  <2>3. CASE NextControl \/ NextMaxData \/ \E s \in Streams : NextMaxStreamData(s)
    BY <2>3, <1>ControlSteps, Zenon DEF Step
  <2>4. CASE NextData
    BY <2>4, <1>DataSteps, Zenon DEF Step
  <2>5. CASE PassTurn
    BY <2>5, <1>TurnSteps, Zenon DEF Step
  <2> QED BY <1>2, <2>1, <2>2, <2>3, <2>4, <2>5, ZenonT(40) DEF NextFrame
<1>3. CASE SendDone \/ SendBreak
  BY <1>3, <1>TransportSteps, Zenon DEF Step
<1>4. CASE Produce
  <2>1. ASSUME NEW s \in Streams, OpenBi(s) \/ StopSending(s) PROVE CoreTypes' /\ Step
    BY <2>1, <1>PutSteps, Zenon DEF Step
  <2>2. CASE KeepAlive
    BY <2>2, <1>PutSteps, Zenon DEF Step
  <2>3. ASSUME NEW s \in Streams, \/ RemoteOpen(s) \/ PeerEnds(s) \/ DropSend(s)
                                  \/ DropRecv(s) \/ StreamCreditDue(s)
        PROVE  CoreTypes' /\ Step
    BY <2>3, <1>QuietSteps, Zenon DEF Step
  <2>4. CASE ConnCreditDue
    BY <2>4, <1>QuietSteps, Zenon DEF Step
  <2>5. ASSUME NEW s \in Streams, Write(s) PROVE CoreTypes' /\ Step
    BY <2>5, <1>ChunkSteps, Zenon DEF Step
  <2>6. ASSUME NEW s \in Streams,
               FinishStore(s) \/ \E m \in StreamLimits : RecvMaxStreamData(s, m)
        PROVE  CoreTypes' /\ Step
    BY <2>6, <1>StreamSteps, Zenon DEF Step
  <2>7. ASSUME NEW s \in Streams, ResetStream(s) PROVE CoreTypes' /\ Step
    BY <2>7, <1>ResetSteps, Zenon DEF Step
  <2>8. CASE RecvSettings(InitialConn, InitialStream) \/ \E m \in ConnLimits : RecvMaxData(m)
    BY <2>8, <1>ConnSteps, Zenon DEF Step
  <2> QED BY <1>4, <2>1, <2>2, <2>3, <2>4, <2>5, <2>6, <2>7, <2>8, ZenonT(40) DEF Produce
<1>5. CASE Finish
  <2>1. CASE Abort
    BY <2>1, <1>QuietSteps, Zenon DEF Step
  <2>2. CASE MarkClosed \/ \E code \in {0, 1} : InitiateClose(code)
    BY <2>2, <1>FinishSteps, Zenon DEF Step
  <2> QED BY <1>5, <2>1, <2>2, Zenon DEF Finish
<1> QED BY <1>1, <1>2, <1>3, <1>4, <1>5, ZenonT(40) DEF Next

-----------------------------------------------------------------------------
\* The ready list.

\* ReadyKeeps: every step keeps the ready list in accord with the data queues.
LEMMA ReadyKeeps ==
  ASSUME ReadyLaws, CoreTypes, CoreTypes', ReadyMatchesQueues, Step
  PROVE  ReadyMatchesQueues'
\* ReadyNext: the parts of ReadyMatchesQueues.
<1>ReadyNext.
    ASSUME q' \in Queue, IsInjective(q'.ready),
           \A s \in Streams : q'.byStream[s] # <<>> <=> s \in Range(q'.ready)
    PROVE  ReadyMatchesQueues'
  BY <1>ReadyNext, SMTT(30) DEF ReadyMatchesQueues, IsInjective, Range
\* ReadySame: steps that leave the data queues alone keep it.
<1>ReadySame.
    ASSUME ReadyMatchesQueues, SameData(q', q)
    PROVE  ReadyMatchesQueues'
  BY <1>ReadySame, SMTT(30) DEF ReadyMatchesQueues, SameData
<1>0. /\ q \in Queue /\ q' \in Queue /\ q.ready \in Seq(Streams)
      /\ q.byStream \in [Streams -> Seq(Chunks)]
  BY QueueFields, Zenon DEF CoreTypes
<1>1. /\ IsInjective(q.ready) /\ Range(q.ready) \subseteq Streams
      /\ \A s \in Streams : q.byStream[s] # <<>> <=> s \in Range(q.ready)
  BY <1>0, ReadyFacts, Zenon
<1>2. CASE Calm \/ StreamNews \/ Sent \/ Failed
  BY <1>2, Zenon DEF Calm, StreamNews, Sent, Failed, ReadyMatchesQueues
<1>3. CASE \/ \E f \in Frames : Put(f)
           \/ ConnNews \/ CloseGracefully \/ TakeClose \/ TakeControlWork \/ GiveTurn
  <2>1. SameData(q', q)
    BY <1>3, Zenon DEF Put, ConnNews, CloseGracefully, TakeClose, TakeControlWork, GiveTurn
  <2> QED BY <2>1, <1>ReadySame, Zenon
<1>4. CASE DropQueues
  <2>1. q'.ready = <<>> /\ q'.byStream = [s \in Streams |-> <<>>]
    BY <1>4, ZenonT(40) DEF DropQueues
  <2>2. IsInjective(q'.ready) /\ Range(q'.ready) = {}
    BY <2>1, SMTT(30) DEF IsInjective, Range
  <2> QED BY <1>0, <2>1, <2>2, <1>ReadyNext, ZenonT(40)
<1>5. ASSUME NEW s \in Streams, NEW c \in Chunks, PutChunk(s, c)
      PROVE  ReadyMatchesQueues'
  <2>1. /\ q'.byStream = [q.byStream EXCEPT ![s] = Append(q.byStream[s], c)]
        /\ q'.ready = IF q.byStream[s] = <<>> THEN Append(q.ready, s) ELSE q.ready
    BY <1>5, Zenon DEF PutChunk
  <2>2. q.byStream[s] \in Seq(Chunks)
    BY <1>0, Zenon
  <2>3. Append(q.byStream[s], c) # <<>>
    BY <2>2, SMTT(30)
  <2>4. \A x \in Streams : q'.byStream[x] # <<>> <=> x = s \/ q.byStream[x] # <<>>
    BY <1>0, <2>1, <2>3, Zenon
  <2>5. IsInjective(q'.ready) /\ Range(q'.ready) = Range(q.ready) \cup {s}
    <3>1. CASE q.byStream[s] = <<>>
      BY <1>0, <1>1, <2>1, <3>1, ReadyAppend, SMTT(30)
    <3>2. CASE q.byStream[s] # <<>>
      BY <1>1, <2>1, <3>2, Zenon
    <3> QED BY <3>1, <3>2, ZenonT(40)
  <2> QED BY <1>0, <1>1, <2>4, <2>5, <1>ReadyNext, ZenonT(40)
<1>6. ASSUME NEW s \in Streams, PutReset(s)
      PROVE  ReadyMatchesQueues'
  <2>1. q'.byStream = [q.byStream EXCEPT ![s] = <<>>] /\ q'.ready = Without(q.ready, s)
    BY <1>6, ZenonT(40) DEF PutReset
  <2>2. IsInjective(q'.ready) /\ Range(q'.ready) = Range(q.ready) \ {s}
    BY <1>0, <1>1, <2>1, ReadyWithout, SMTT(30)
  <2>3. \A x \in Streams : q'.byStream[x] # <<>> <=> x # s /\ q.byStream[x] # <<>>
    BY <1>0, <2>1, Zenon
  <2> QED BY <1>0, <1>1, <2>2, <2>3, <1>ReadyNext, ZenonT(40)
<1>7. ASSUME NEW i \in Nat, NEW s \in Streams, NEW k \in Nat, NEW f \in BOOLEAN,
             NEW b \in Seq(Chunks), Dispatch(i, s, k, f, b)
      PROVE  ReadyMatchesQueues'
  <2>1. PICK o : o = SubSeq(q.ready, i + 1, Len(q.ready)) \o SubSeq(q.ready, 1, i - 1)
    BY Zenon
  <2>2. /\ q'.byStream = [q.byStream EXCEPT ![s] = b]
        /\ q'.ready = IF b = <<>> THEN o ELSE Append(o, s)
        /\ i \in DOMAIN q.ready /\ s = q.ready[i]
    BY <1>7, <2>1, ZenonT(40) DEF Dispatch
  <2>3. i \in 1..Len(q.ready)
    BY <1>0, <2>2, SMTT(30)
  <2>4. o \in Seq(Streams) /\ IsInjective(o) /\ Range(o) = Range(q.ready) \ {s}
    <3>1. o \in Seq(Streams) /\ \E from : RotatedBy(from, q.ready, i, o)
      BY <1>0, <2>1, <2>3, Rotated, ZenonT(40)
    <3>2. PICK from : RotatedBy(from, q.ready, i, o)
      BY <3>1, Zenon
    <3>3. IsInjective(o)
      BY <1>1, <3>2, RotatedInjective, Zenon
    <3>4. Range(o) = Range(q.ready) \ {q.ready[i]}
      BY <1>1, <2>2, <3>2, RotatedRange, Zenon
    <3> QED BY <2>2, <3>1, <3>3, <3>4, Zenon
  <2>5. \A x \in Streams :
          q'.byStream[x] # <<>> <=> IF x = s THEN b # <<>> ELSE q.byStream[x] # <<>>
    BY <1>0, <2>2, Zenon
  <2>6. s \in Range(q.ready)
    BY <2>2, Zenon DEF Range
  <2>7. CASE b = <<>>
    BY <1>0, <1>1, <2>2, <2>4, <2>5, <2>7, <1>ReadyNext, ZenonT(40)
  <2>8. CASE b # <<>>
    <3>1. IsInjective(q'.ready) /\ Range(q'.ready) = Range(q.ready) \cup {s}
      BY <2>2, <2>4, <2>8, ReadyAppend, SMTT(30)
    <3> QED BY <1>0, <1>1, <2>5, <2>6, <2>8, <3>1, <1>ReadyNext, ZenonT(40)
  <2> QED BY <2>7, <2>8, Zenon
<1> QED BY <1>2, <1>3, <1>4, <1>5, <1>6, <1>7, ZenonT(40) DEF Step

\* CoreInit: a new connection has these types and an empty ready list.
LEMMA CoreInit == ASSUME Init PROVE CoreTypes /\ ReadyMatchesQueues
<1>1. q = InitQueues /\ st = [s \in Streams |-> InitStream]
  BY Zenon DEF Init
<1>2. PICK b \in [Streams -> Seq(Chunks)] : b = [s \in Streams |-> <<>>]
  <2>1. ([s \in Streams |-> <<>>]) \in [Streams -> Seq(Chunks)]
    BY SMTT(30)
  <2> QED BY <2>1, Zenon
<1>3. PICK d \in Seq(Streams) : d = <<>>
  <2>1. <<>> \in Seq(Streams)
    BY SMTT(30)
  <2> QED BY <2>1, Zenon
<1>4. PICK c \in Seq(Frames) : c = <<Settings>>
  <2>1. <<Settings>> \in Seq(Frames)
    BY CloseFrames, SMTT(30)
  <2> QED BY <2>1, Zenon
<1>5. PICK e \in Frames : e = NoFrame
  BY CloseFrames, Zenon
<1>6. q = [byStream |-> b, ready |-> d, control |-> c, closeFrame |-> e,
           graceful |-> FALSE, closing |-> FALSE, settings |-> FALSE, peerLimit |-> 0,
           initialLimit |-> 0, sent |-> 0, controlTurn |-> TRUE]
  BY <1>1, <1>2, <1>3, <1>4, <1>5, ZenonT(40) DEF InitQueues
<1>7. q \in Queue
  BY <1>6, Zenon DEF Queue
<1>8. q.byStream = b /\ q.ready = d
  BY <1>6, Zenon
<1>9. st \in [Streams -> SendState]
  <2>1. InitStream \in SendState
    BY Zenon DEF InitStream, SendState
  <2> QED BY <1>1, <2>1, Zenon
<1>10. ReadyMatchesQueues
  <2>1. DOMAIN q.ready = {}
    BY <1>3, <1>8, SMTT(30)
  <2> QED BY <1>2, <1>8, <2>1, ZenonT(40) DEF ReadyMatchesQueues
<1>11. /\ frame \in Frames /\ fins \subseteq Streams /\ ended \subseteq Nat
       /\ accepted \in [Streams -> Nat] /\ passed \in [Streams -> Nat]
       /\ dataRun \in Nat /\ controlRun \in Nat
  BY CloseFrames, Zenon DEF Init
<1> QED BY <1>7, <1>9, <1>10, <1>11, ZenonT(40) DEF CoreTypes

-----------------------------------------------------------------------------
\* Credit.

\* CreditKeeps: every step respects credit.
LEMMA CreditKeeps ==
  ASSUME CreditLaws, CoreTypes, CoreTypes', ReadyMatchesQueues, CreditInv, Step
  PROVE  CreditInv'
\* CreditKeptBy: steps that send nothing and only raise limits respect credit.
<1>CreditKeptBy.
    ASSUME CoreTypes, CoreTypes', CreditInv,
           q'.sent = q.sent, q.settings => q'.settings,
           q.settings => q'.peerLimit >= q.peerLimit /\ q'.initialLimit = q.initialLimit,
           \A x \in Streams : st'[x].sent = st[x].sent /\ st'[x].peerLimit >= st[x].peerLimit
    PROVE  CreditInv'
  <2> USE <1>CreditKeptBy
  <2>0. /\ q \in Queue /\ q' \in Queue /\ st \in [Streams -> SendState]
        /\ st' \in [Streams -> SendState]
    BY Zenon DEF CoreTypes
  <2>1. /\ q.sent \in Nat /\ q.peerLimit \in Nat /\ q.initialLimit \in Nat
        /\ q'.peerLimit \in Nat /\ q'.initialLimit \in Nat
        /\ q.settings \in BOOLEAN /\ q'.settings \in BOOLEAN
    BY <2>0, QueueFields, Zenon
  <2>2. \A x \in Streams : /\ st[x].sent \in Nat /\ st[x].peerLimit \in Nat
                           /\ st'[x].peerLimit \in Nat
    BY <2>0, Zenon DEF SendState
  <2>3. q'.sent = SumFunction([s \in Streams |-> st'[s].sent])
    <3>1. [s \in Streams |-> st'[s].sent] = [s \in Streams |-> st[s].sent]
      BY Zenon
    <3> QED BY <3>1, Zenon DEF CreditInv, CreditRespected
  <2>4. q'.sent <= q'.peerLimit
    <3>1. CASE q.settings
      BY <2>1, <3>1, SMTT(30) DEF CreditInv, CreditRespected
    <3>2. CASE ~q.settings
      BY <2>1, <3>2, SMTT(30) DEF CreditInv
    <3> QED BY <3>1, <3>2, ZenonT(40)
  <2>5. ASSUME NEW s \in Streams
        PROVE  st'[s].sent <= Max2(st'[s].peerLimit, q'.initialLimit)
    <3>1. PICK a \in Nat, b \in Nat, c \in Nat, d \in Nat, e \in Nat :
            /\ a = st[s].sent /\ b = st[s].peerLimit /\ c = q.initialLimit
            /\ d = st'[s].peerLimit /\ e = q'.initialLimit
      BY <2>1, <2>2, Zenon
    <3>2. st'[s].sent = a /\ d >= b
      BY <3>1, Zenon
    <3>3. CASE q.settings
      <4>1. e = c /\ a <= Max2(b, c)
        BY <3>1, <3>3, ZenonT(40) DEF CreditInv, CreditRespected
      <4>2. a <= Max2(d, e)
        BY <3>2, <4>1, SMTT(30) DEF Max2
      <4> QED BY <3>1, <3>2, <4>2, Zenon
    <3>4. CASE ~q.settings
      <4>1. a = 0
        BY <3>1, <3>4, ZenonT(40) DEF CreditInv
      <4>2. a <= Max2(d, e)
        BY <4>1, SMTT(30) DEF Max2
      <4> QED BY <3>1, <3>2, <4>2, Zenon
    <3> QED BY <3>3, <3>4, Zenon
  <2>6. ~q'.settings => q'.sent = 0 /\ \A s \in Streams : st'[s].sent = 0
    BY Zenon DEF CreditInv
  <2> QED BY <2>3, <2>4, <2>5, <2>6, ZenonT(40) DEF CreditInv, CreditRespected
\* CreditDispatch: so does a dispatch, which stays within what both limits leave.
<1>CreditDispatch.
    ASSUME CoreTypes, CoreTypes', ReadyMatchesQueues, CreditInv,
           NEW i \in Nat, NEW s \in Streams, NEW k \in Nat, NEW f \in BOOLEAN,
           NEW b \in Seq(Chunks), Dispatch(i, s, k, f, b)
    PROVE  CreditInv'
  <2> USE <1>CreditDispatch
  <2>0. /\ q \in Queue /\ st \in [Streams -> SendState] /\ st' \in [Streams -> SendState]
    BY Zenon DEF CoreTypes
  <2>1. /\ i \in DOMAIN q.ready /\ s = q.ready[i] /\ Eligible(q, st, s)
        /\ k = Count(q, st, s)
        /\ q'.sent = q.sent + k /\ q'.settings = q.settings
        /\ q'.peerLimit = q.peerLimit /\ q'.initialLimit = q.initialLimit
        /\ \A x \in Streams :
             /\ st'[x].sent = (IF x = s THEN st[x].sent + k ELSE st[x].sent)
             /\ st'[x].peerLimit = st[x].peerLimit
    BY Zenon DEF Dispatch
  <2>2. q.byStream[s] # <<>> /\ q.settings
    BY <2>0, <2>1, ReadyFacts, Zenon DEF Eligible
  <2>3. /\ q.sent + k <= q.peerLimit
        /\ st[s].sent + k <= Max2(st[s].peerLimit, q.initialLimit)
    BY <2>0, <2>1, <2>2, CountBounds, ZenonT(40) DEF CreditInv, CreditRespected
  <2>4. \A x \in Streams : st'[x].sent <= Max2(st'[x].peerLimit, q'.initialLimit)
    BY <2>1, <2>3, SMTT(30) DEF CreditInv, CreditRespected
  <2>5. q'.sent = SumFunction([x \in Streams |-> st'[x].sent])
    <3> DEFINE old == [x \in Streams |-> st[x].sent]
               new == [x \in Streams |-> st'[x].sent]
    <3>1. \A x \in Streams : old[x] \in Nat /\ new[x] \in Nat
      BY <2>0, Zenon DEF SendState
    <3>2. \A x \in Streams \ {s} : old[x] = new[x]
      BY <2>1, Zenon
    <3>3. new[s] = old[s] + k
      BY <2>1, Zenon
    <3>4. q.sent = SumFunctionOnSet(old, Streams) /\ q.sent \in Nat
      BY <2>0, QueueFields, Zenon DEF CreditInv, CreditRespected, SumFunction
    <3>5. SumFunction(new) = SumFunctionOnSet(new, Streams)
      BY Zenon DEF SumFunction
    <3> HIDE DEF old, new
    <3>6. SumFunctionOnSet(new, Streams) + old[s] = SumFunctionOnSet(old, Streams) + new[s]
      BY <3>1, <3>2, Zenon DEF CreditLaws
    <3>7. SumFunctionOnSet(new, Streams) \in Nat
      BY <3>1, Zenon DEF CreditLaws
    <3>8. SumFunctionOnSet(new, Streams) = q.sent + k
      BY <3>1, <3>3, <3>4, <3>6, <3>7, SMTT(30)
    <3> QED BY <2>1, <3>5, <3>8, Zenon DEF new
  <2> QED BY <2>1, <2>2, <2>3, <2>4, <2>5, ZenonT(40) DEF CreditInv, CreditRespected
<1>0. /\ q \in Queue /\ st \in [Streams -> SendState] /\ q.peerLimit \in Nat
  BY QueueFields, Zenon DEF CoreTypes
<1>1. \A x \in Streams : st[x].peerLimit \in Nat /\ st[x].peerLimit >= st[x].peerLimit
  BY <1>0, SMTT(30) DEF SendState
<1>2. CASE Calm \/ Sent \/ Failed
  BY <1>2, Zenon DEF Calm, Sent, Failed, CreditInv, CreditRespected
<1>3. CASE StreamNews
  BY <1>0, <1>3, <1>CreditKeptBy, SMTT(30) DEF StreamNews
<1>4. CASE ConnNews
  BY <1>1, <1>4, <1>CreditKeptBy, ZenonT(40) DEF ConnNews
<1>5. CASE \/ \E f \in Frames : Put(f)
           \/ \E s \in Streams, c \in Chunks : PutChunk(s, c)
           \/ \E s \in Streams : PutReset(s)
  <2>1. /\ SameCredit(q', q)
        /\ \A x \in Streams : st'[x].sent = st[x].sent /\ st'[x].peerLimit = st[x].peerLimit
    BY <1>5, ZenonT(40) DEF Put, PutChunk, PutReset
  <2> QED BY <1>0, <1>1, <2>1, <1>CreditKeptBy, SMTT(30) DEF SameCredit
<1>6. CASE CloseGracefully \/ DropQueues \/ TakeClose \/ TakeControlWork \/ GiveTurn
  <2>1. SameCredit(q', q) /\ st' = st
    BY <1>6, Zenon DEF CloseGracefully, DropQueues, TakeClose, TakeControlWork, GiveTurn
  <2> QED BY <1>0, <1>1, <2>1, <1>CreditKeptBy, SMTT(30) DEF SameCredit
<1> QED BY <1>2, <1>3, <1>4, <1>5, <1>6, <1>CreditDispatch, ZenonT(40) DEF Step

-----------------------------------------------------------------------------
\* The turns of control and data.

\* AltKeeps: a control frame takes the turn away from control, a dispatch gives it
\* back.
LEMMA AltKeeps ==
  ASSUME CoreTypes, CoreTypes', AltInv, Step
  PROVE  AltInv'
<1>0. dataRun \in Nat /\ controlRun \in Nat
  BY Zenon DEF CoreTypes
<1>1. CASE Calm \/ StreamNews \/ Sent \/ Failed
  BY <1>1, Zenon DEF Calm, StreamNews, Sent, Failed, SameHistory, AltInv
<1>2. CASE \/ \E f \in Frames : Put(f)
           \/ \E s \in Streams, c \in Chunks : PutChunk(s, c)
           \/ \E s \in Streams : PutReset(s)
           \/ ConnNews \/ CloseGracefully \/ DropQueues \/ TakeClose
  <2>1. q'.controlTurn = q.controlTurn /\ dataRun' = dataRun /\ controlRun' = controlRun
    BY <1>2, Zenon DEF Put, PutChunk, PutReset, ConnNews, CloseGracefully, DropQueues, TakeClose,
                SameControl, SameHistory
  <2> QED BY <2>1, Zenon DEF AltInv
<1>3. CASE TakeControlWork
  <2>1. /\ ControlFirst /\ q'.controlTurn = FALSE /\ dataRun' = 0
        /\ controlRun' \in {0, controlRun} \/ (~Urgent(q) /\ controlRun' = controlRun + 1)
    BY <1>3, Zenon DEF TakeControlWork
  <2>2. controlRun' \in {0, controlRun} \/ (q.controlTurn /\ controlRun' = controlRun + 1)
    BY <2>1, Zenon DEF ControlFirst
  <2>3. controlRun' <= 1
    BY <1>0, <2>2, SMTT(30) DEF AltInv
  <2> QED BY <2>1, <2>3, SMTT(30) DEF AltInv
<1>4. ASSUME NEW i \in Nat, NEW s \in Streams, NEW k \in Nat, NEW f \in BOOLEAN,
             NEW b \in Seq(Chunks), Dispatch(i, s, k, f, b)
      PROVE  AltInv'
  <2>1. /\ ControlDone /\ q'.controlTurn = TRUE /\ controlRun' = 0
        /\ dataRun' = IF ControlWaits THEN dataRun + 1 ELSE 0
    BY <1>4, Zenon DEF Dispatch
  <2>2. CASE ControlWaits
    <3>1. ~q.controlTurn
      BY <2>1, <2>2, ZenonT(40) DEF ControlDone, ControlFirst
    <3>2. dataRun = 0
      BY <1>0, <3>1, SMTT(30) DEF AltInv
    <3> QED BY <2>1, <2>2, <3>2, SMTT(30) DEF AltInv
  <2>3. CASE ~ControlWaits
    BY <2>1, <2>3, SMTT(30) DEF AltInv
  <2> QED BY <2>2, <2>3, Zenon
<1>5. CASE GiveTurn
  BY <1>0, <1>5, SMTT(30) DEF GiveTurn, AltInv
<1> QED BY <1>1, <1>2, <1>3, <1>4, <1>5, ZenonT(40) DEF Step

\* AltInit: nobody has been served at first.
LEMMA AltInit == ASSUME Init PROVE AltInv
BY SMTT(30) DEF Init, AltInv

=============================================================================
