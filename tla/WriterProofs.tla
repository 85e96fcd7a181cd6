---------------------------- MODULE WriterProofs ----------------------------
(***************************************************************************)
(* Each step of Writer keeps the ends of directions, the close, the turns of *)
(* the streams, the flags and the map; the three laws, from the sums of      *)
(* DataLemmas; the theorems.                                                 *)
(***************************************************************************)
EXTENDS WriterSteps, TLAPS

-----------------------------------------------------------------------------
\* The ends of a direction.

\* FinKeeps: nothing is queued behind FIN, and nothing is left behind FIN or RESET.
LEMMA FinKeeps ==
  ASSUME CoreTypes, CoreTypes', ReadyMatchesQueues, FinInv, Step
  PROVE  FinInv'
<1>0. /\ q \in Queue /\ q' \in Queue /\ st \in [Streams -> SendState]
      /\ q.byStream \in [Streams -> Seq(Chunks)]
  BY QueueFields, Zenon DEF CoreTypes
<1>1. CASE Calm \/ Sent \/ Failed
  BY <1>1, Zenon DEF Calm, Sent, Failed, SameHistory, FinInv
<1>2. CASE StreamNews
  BY <1>2, Zenon DEF StreamNews, SameHistory, FinInv
<1>3. CASE \/ \E f \in Frames : Put(f)
           \/ ConnNews \/ CloseGracefully \/ TakeClose \/ TakeControlWork \/ GiveTurn
  <2>1. q'.byStream = q.byStream /\ st' = st /\ fins' = fins
    BY <1>3, Zenon DEF Put, ConnNews, CloseGracefully, TakeClose, TakeControlWork, GiveTurn,
                SameData, SameHistory
  <2> QED BY <2>1, Zenon DEF FinInv
<1>4. CASE DropQueues
  <2>1. (\A s \in Streams : q'.byStream[s] = <<>>) /\ st' = st /\ fins' = fins
    BY <1>4, Zenon DEF DropQueues, SameHistory
  <2> QED BY <2>1, SMTT(30) DEF FinInv
<1>5. ASSUME NEW s \in Streams, PutReset(s)
      PROVE  FinInv'
  <2>1. /\ \A x \in Streams : q'.byStream[x] = (IF x = s THEN <<>> ELSE q.byStream[x])
        /\ fins' = fins /\ ~st[s].dispatched
        /\ \A x \in Streams :
             /\ (st'[x].terminal <=> st[x].terminal \/ x = s)
             /\ (st'[x].resetQueued <=> st[x].resetQueued \/ x = s)
             /\ st'[x].dispatched = st[x].dispatched
    BY <1>0, <1>5, Zenon DEF PutReset, SameHistory
  <2> SUFFICES ASSUME NEW x \in Streams
               PROVE  /\ \A i \in DOMAIN q'.byStream[x] :
                           q'.byStream[x][i].fin => x \in fins' /\ i = Len(q'.byStream[x])
                      /\ st'[x].dispatched => x \in fins' /\ q'.byStream[x] = <<>>
                      /\ st'[x].resetQueued => /\ q'.byStream[x] = <<>>
                                               /\ st'[x].terminal /\ ~st'[x].dispatched
    BY Zenon DEF FinInv
  <2>2. CASE x = s
    BY <2>1, <2>2, SMTT(30) DEF FinInv
  <2>3. CASE x # s
    BY <2>1, <2>3, SMTT(30) DEF FinInv
  <2> QED BY <2>2, <2>3, Zenon
<1>6. ASSUME NEW s \in Streams, NEW c \in Chunks, PutChunk(s, c)
      PROVE  FinInv'
  <2>1. /\ s \notin fins /\ ~st[s].terminal /\ st' = st
        /\ \A x \in Streams : q'.byStream[x] = (IF x = s THEN Append(q.byStream[s], c) ELSE q.byStream[x])
        /\ fins' = IF c.fin THEN fins \cup {s} ELSE fins
    BY <1>0, <1>6, Zenon DEF PutChunk
  <2> SUFFICES ASSUME NEW x \in Streams
               PROVE  /\ \A i \in DOMAIN q'.byStream[x] :
                           q'.byStream[x][i].fin => x \in fins' /\ i = Len(q'.byStream[x])
                      /\ st'[x].dispatched => x \in fins' /\ q'.byStream[x] = <<>>
                      /\ st'[x].resetQueued => /\ q'.byStream[x] = <<>>
                                               /\ st'[x].terminal /\ ~st'[x].dispatched
    BY Zenon DEF FinInv
  <2>2. CASE x = s
    <3>1. ~st[s].dispatched /\ ~st[s].resetQueued /\ \A i \in DOMAIN q.byStream[s] : ~q.byStream[s][i].fin
      BY <2>1, Zenon DEF FinInv
    <3>2. PICK d \in Seq(Chunks) : d = q.byStream[s]
      BY <1>0, Zenon
    <3>3. ASSUME NEW i \in DOMAIN Append(d, c), Append(d, c)[i].fin
          PROVE  c.fin /\ i = Len(Append(d, c))
      <4>1. Len(Append(d, c)) = Len(d) + 1 /\ i \in 1..(Len(d) + 1)
        BY <3>2, SMTT(30)
      <4>2. CASE i \in DOMAIN d
        <5>1. Append(d, c)[i] = d[i]
          BY <4>2, SMTT(30)
        <5> QED BY <3>1, <3>2, <3>3, <4>2, <5>1, Zenon
      <4>3. CASE i \notin DOMAIN d
        <5>1. i = Len(d) + 1 /\ Append(d, c)[i] = c
          BY <4>1, <4>3, SMTT(30)
        <5> QED BY <3>3, <4>1, <5>1, Zenon
      <4> QED BY <4>2, <4>3, Zenon
    <3> QED BY <2>1, <2>2, <3>1, <3>2, <3>3, Zenon
  <2>3. CASE x # s
    BY <2>1, <2>3, Zenon DEF FinInv
  <2> QED BY <2>2, <2>3, Zenon
<1>7. ASSUME NEW i \in Nat, NEW s \in Streams, NEW k \in Nat, NEW f \in BOOLEAN,
             NEW b \in Seq(Chunks), Dispatch(i, s, k, f, b)
      PROVE  FinInv'
  <2>1. /\ i \in DOMAIN q.ready /\ s = q.ready[i]
        /\ k = Count(q, st, s) /\ (f <=> FinNow(q, st, s)) /\ b = Rest(q.byStream[s], k)
        /\ \A x \in Streams : q'.byStream[x] = (IF x = s THEN b ELSE q.byStream[x])
        /\ fins' = fins
        /\ \A x \in Streams :
             /\ (st'[x].dispatched <=> st[x].dispatched \/ (x = s /\ f))
             /\ st'[x].terminal = st[x].terminal /\ st'[x].resetQueued = st[x].resetQueued
    BY <1>0, <1>7, ZenonT(40) DEF Dispatch
  <2>2. q.byStream[s] # <<>>
    BY <1>0, <2>1, ReadyFacts, Zenon
  <2>3. ~st[s].dispatched /\ ~st[s].resetQueued
    BY <2>2, Zenon DEF FinInv
  <2>4. PICK d \in Seq(Chunks) : d = q.byStream[s]
    BY <1>0, Zenon
  <2>5. d # <<>> /\ k <= Head(d).len /\ b = Rest(d, k) /\ Head(d) = d[1] /\ Len(d) \in Nat /\ Len(d) >= 1
        /\ DOMAIN d = 1..Len(d)
    <3>1. d # <<>> /\ b = Rest(d, k)
      BY <2>1, <2>2, <2>4, Zenon
    <3>2. k <= Head(q.byStream[s]).len
      BY <1>0, <2>1, <2>2, CountBounds, Zenon
    <3>3. Head(d) = d[1] /\ Len(d) \in Nat /\ Len(d) >= 1 /\ DOMAIN d = 1..Len(d)
      BY <3>1, SMTT(30)
    <3> QED BY <2>4, <3>1, <3>2, <3>3, Zenon
  <2>6. \A j \in DOMAIN d : d[j].fin => s \in fins /\ j = Len(d)
    BY <2>4, Zenon DEF FinInv
  <2>7. \A j \in DOMAIN b : b[j].fin => s \in fins /\ j = Len(b)
    <3>1. CASE Head(d).len = k
      <4>1. b = Tail(d)
        BY <2>5, <3>1, RestChunks, Zenon
      <4>2. Len(b) = Len(d) - 1 /\ \A j \in 1..(Len(d) - 1) : b[j] = d[j + 1]
        BY <2>5, <4>1, SMTT(30)
      <4>3. ASSUME NEW j \in DOMAIN b, b[j].fin PROVE s \in fins /\ j = Len(b)
        <5>1. j \in 1..(Len(d) - 1) /\ j + 1 \in DOMAIN d
          BY <2>5, <4>2, SMTT(30)
        <5>2. s \in fins /\ j + 1 = Len(d)
          BY <2>6, <4>2, <4>3, <5>1, Zenon
        <5> QED BY <2>5, <4>2, <5>1, <5>2, SMTT(30)
      <4> QED BY <4>3, Zenon
    <3>2. CASE Head(d).len # k
      <4>1. /\ Len(b) = Len(d)
            /\ b[1] = [len |-> Head(d).len - k, fin |-> Head(d).fin]
            /\ \A j \in 2..Len(d) : b[j] = d[j]
        BY <2>5, <3>2, RestChunks, Zenon
      <4>2. \A j \in DOMAIN b : j \in DOMAIN d /\ b[j].fin = d[j].fin
        <5> SUFFICES ASSUME NEW j \in DOMAIN b PROVE j \in DOMAIN d /\ b[j].fin = d[j].fin
          BY Zenon
        <5>1. j \in 1..Len(d)
          BY <4>1, SMTT(30)
        <5>2. CASE j = 1
          BY <2>5, <4>1, <5>1, <5>2, SMTT(30)
        <5>3. CASE j # 1
          <6>1. j \in 2..Len(d)
            BY <2>5, <5>1, <5>3, SMTT(30)
          <6> QED BY <2>5, <4>1, <5>1, <6>1, Zenon
        <5> QED BY <5>2, <5>3, Zenon
      <4> QED BY <2>6, <4>1, <4>2, Zenon
    <3> QED BY <3>1, <3>2, Zenon
  <2>8. f => s \in fins /\ b = <<>>
    <3> SUFFICES ASSUME f PROVE s \in fins /\ b = <<>>
      BY Zenon
    <3>1. d[1].fin /\ Head(d).len = k
      BY <2>1, <2>4, <2>5, Zenon DEF FinNow
    <3>2. s \in fins /\ 1 = Len(d)
      BY <2>5, <2>6, <3>1, SMTT(30)
    <3>3. b = Tail(d)
      BY <2>5, <3>1, RestChunks, Zenon
    <3> QED BY <3>2, <3>3, SMTT(30)
  <2> SUFFICES ASSUME NEW x \in Streams
               PROVE  /\ \A j \in DOMAIN q'.byStream[x] :
                           q'.byStream[x][j].fin => x \in fins' /\ j = Len(q'.byStream[x])
                      /\ st'[x].dispatched => x \in fins' /\ q'.byStream[x] = <<>>
                      /\ st'[x].resetQueued => /\ q'.byStream[x] = <<>>
                                               /\ st'[x].terminal /\ ~st'[x].dispatched
    BY Zenon DEF FinInv
  <2>9. CASE x = s
    BY <2>1, <2>3, <2>7, <2>8, <2>9, ZenonT(40)
  <2>10. CASE x # s
    BY <2>1, <2>10, SMTT(30) DEF FinInv
  <2> QED BY <2>9, <2>10, Zenon
<1> QED BY <1>1, <1>2, <1>3, <1>4, <1>5, <1>6, <1>7, ZenonT(40) DEF Step

\* EndsKeep: every step keeps the invariant of the ends.
LEMMA EndsKeep ==
  ASSUME CoreTypes, ReadyMatchesQueues, FinInv, EndInv, Step
  PROVE  EndInv'
\* EndsSame: steps that leave the control queue and the frame in hand alone.
<1>EndsSame.
    ASSUME EndInv, SameEnds, q'.control = q.control, q'.closeFrame = q.closeFrame,
           UNCHANGED <<frame, ended>>
    PROVE  EndInv'
  <2> USE <1>EndsSame
  <2>1. ControlInv'
    BY SMTT(30) DEF EndInv, ControlInv, SameEnds
  <2>2. \A s : ResetWaits(s)' <=> ResetWaits(s)
    BY Zenon DEF ResetWaits
  <2>3. HandInv'
    BY <2>2, Zenon DEF EndInv, HandInv, SameEnds
  <2>4. EndedInv'
    BY <2>2, Zenon DEF EndInv, EndedInv, SameEnds
  <2> QED BY <2>1, <2>3, <2>4, ZenonT(40) DEF EndInv
\* EndsDropped: steps that drop the control queue.
<1>EndsDropped.
    ASSUME EndInv, SameEnds, q'.control = <<>>, q'.closeFrame.type \in {"none", "close"},
           ~q'.closeFrame.fin, UNCHANGED <<frame, ended>>
    PROVE  EndInv'
  <2> USE <1>EndsDropped
  <2>1. ControlInv'
    BY SMTT(30) DEF ControlInv
  <2>2. \A s : ~ResetWaits(s)'
    BY SMTT(30) DEF ResetWaits
  <2>3. HandInv'
    BY <2>2, Zenon DEF EndInv, HandInv, SameEnds
  <2>4. EndedInv'
    BY <2>2, Zenon DEF EndInv, EndedInv, SameEnds
  <2> QED BY <2>1, <2>3, <2>4, Zenon DEF EndInv
\* EndsPut: a control frame other than RESET is queued.
<1>EndsPut.
    ASSUME CoreTypes, EndInv, NEW f \in Frames, f.type \notin {"stream", "close", "reset"}, ~f.fin,
           q'.control = Append(q.control, f), q'.closeFrame = q.closeFrame, SameEnds,
           UNCHANGED <<frame, ended>>
    PROVE  EndInv'
  <2> USE <1>EndsPut
  <2>0. q.control \in Seq(Frames)
    BY QueueFields, Zenon DEF CoreTypes
  <2>1. PICK n \in Nat : n = Len(q.control) /\ DOMAIN q.control = 1..n
    BY <2>0, SMTT(30)
  <2>2. /\ DOMAIN q'.control = 1..(n + 1) /\ q'.control[n + 1] = f
        /\ \A i \in 1..n : q'.control[i] = q.control[i]
    BY <2>0, <2>1, SMTT(30)
  <2>3. ASSUME NEW i \in DOMAIN q'.control, q'.control[i] # f
        PROVE  i \in DOMAIN q.control /\ q'.control[i] = q.control[i]
    <3>1. i \in 1..(n + 1) /\ i # n + 1
      BY <2>2, <2>3, Zenon
    <3>2. i \in 1..n
      BY <3>1, SMTT(30)
    <3> QED BY <2>1, <2>2, <3>2, Zenon
  <2>4. ControlInv'
    <3>1. \A i \in DOMAIN q'.control :
            /\ q'.control[i].type \notin {"stream", "close"} /\ ~q'.control[i].fin
            /\ q'.control[i].type = "reset" =>
                 q'.control[i].id \in Streams /\ st'[q'.control[i].id].resetQueued
      BY <2>3, Zenon DEF EndInv, ControlInv, SameEnds
    <3>2. \A i, j \in DOMAIN q'.control :
            /\ q'.control[i].type = "reset" /\ q'.control[j].type = "reset"
            /\ q'.control[i].id = q'.control[j].id
            => i = j
      BY <2>3, ZenonT(40) DEF EndInv, ControlInv
    <3> QED BY <3>1, <3>2, Zenon DEF EndInv, ControlInv
  <2>5. \A s : ResetWaits(s)' => ResetWaits(s)
    BY <2>3, Zenon DEF ResetWaits
  <2>6. HandInv'
    BY <2>5, Zenon DEF EndInv, HandInv, SameEnds
  <2>7. EndedInv'
    BY <2>5, Zenon DEF EndInv, EndedInv, SameEnds
  <2> QED BY <2>4, <2>6, <2>7, Zenon DEF EndInv
\* EndsReset: reset_stream queues the only RESET of its stream.
<1>EndsReset.
    ASSUME CoreTypes, EndInv, NEW s \in Streams, PutReset(s)
    PROVE  EndInv'
  <2> USE <1>EndsReset
  <2>0. q.control \in Seq(Frames) /\ Frame("reset", s) \in Frames
    BY QueueFields, FrameTypes, Zenon DEF CoreTypes
  <2>1. PICK f \in Frames : f = Frame("reset", s) /\ f.type = "reset" /\ f.id = s /\ ~f.fin
    <3>1. Frame("reset", s).type = "reset" /\ Frame("reset", s).id = s /\ ~Frame("reset", s).fin
      BY Zenon DEF Frame
    <3> QED BY <2>0, <3>1, Zenon
  <2>2. /\ ~st[s].dispatched /\ ~st[s].resetQueued
        /\ q'.control = Append(q.control, f) /\ q'.closeFrame = q.closeFrame
        /\ \A x \in Streams :
             /\ (st'[x].resetQueued <=> st[x].resetQueued \/ x = s)
             /\ st'[x].dispatched = st[x].dispatched
        /\ UNCHANGED <<frame, ended>>
    BY <2>1, Zenon DEF PutReset, SameEnd, SameHistory, SameWriter
  <2>3. PICK n \in Nat : n = Len(q.control) /\ DOMAIN q.control = 1..n
    BY <2>0, SMTT(30)
  <2>4. /\ DOMAIN q'.control = 1..(n + 1) /\ q'.control[n + 1] = f
        /\ \A i \in 1..n : q'.control[i] = q.control[i]
    BY <2>0, <2>2, <2>3, SMTT(30)
  <2>5. ASSUME NEW i \in DOMAIN q'.control, i # n + 1
        PROVE  i \in DOMAIN q.control /\ q'.control[i] = q.control[i]
    <3>1. i \in 1..n
      BY <2>4, <2>5, SMTT(30)
    <3> QED BY <2>3, <2>4, <3>1, Zenon
  <2>6. ~ResetWaits(s)
    BY <2>2, Zenon DEF EndInv, ControlInv, ResetWaits
  <2>7. ControlInv'
    <3>1. \A i \in DOMAIN q'.control :
            /\ q'.control[i].type \notin {"stream", "close"} /\ ~q'.control[i].fin
            /\ q'.control[i].type = "reset" =>
                 q'.control[i].id \in Streams /\ st'[q'.control[i].id].resetQueued
      <4> SUFFICES ASSUME NEW i \in DOMAIN q'.control
                   PROVE /\ q'.control[i].type \notin {"stream", "close"} /\ ~q'.control[i].fin
                         /\ q'.control[i].type = "reset" =>
                              q'.control[i].id \in Streams /\ st'[q'.control[i].id].resetQueued
        BY Zenon
      <4>1. CASE i = n + 1
        BY <2>1, <2>2, <2>4, <4>1, ZenonT(40)
      <4>2. CASE i # n + 1
        BY <2>2, <2>5, <4>2, Zenon DEF EndInv, ControlInv
      <4> QED BY <4>1, <4>2, Zenon
    <3>2. ASSUME NEW i \in DOMAIN q'.control, NEW j \in DOMAIN q'.control,
                 q'.control[i].type = "reset", q'.control[j].type = "reset",
                 q'.control[i].id = q'.control[j].id
          PROVE  i = j
      <4>1. CASE i = n + 1 /\ j # n + 1
        BY <2>1, <2>4, <2>5, <2>6, <3>2, <4>1, ZenonT(40) DEF ResetWaits
      <4>2. CASE i # n + 1 /\ j = n + 1
        BY <2>1, <2>4, <2>5, <2>6, <3>2, <4>2, ZenonT(40) DEF ResetWaits
      <4>3. CASE i # n + 1 /\ j # n + 1
        BY <2>5, <3>2, <4>3, ZenonT(40) DEF EndInv, ControlInv
      <4> QED BY <4>1, <4>2, <4>3, Zenon
    <3> QED BY <2>2, <3>1, <3>2, Zenon DEF EndInv, ControlInv
  <2>8. \A x : x # s /\ ResetWaits(x)' => ResetWaits(x)
    <3> SUFFICES ASSUME NEW x, x # s, NEW i \in DOMAIN q'.control,
                        q'.control[i].type = "reset", q'.control[i].id = x
                 PROVE  ResetWaits(x)
      BY Zenon DEF ResetWaits
    <3>1. i # n + 1
      BY <2>1, <2>4, Zenon
    <3> QED BY <2>5, <3>1, Zenon DEF ResetWaits
  <2>9. HandInv'
    BY <2>2, <2>8, Zenon DEF EndInv, HandInv
  <2>10. s \notin ended
    BY <2>2, Zenon DEF EndInv, EndedInv
  <2>11. EndedInv'
    BY <2>2, <2>8, <2>10, Zenon DEF EndInv, EndedInv
  <2> QED BY <2>7, <2>9, <2>11, Zenon DEF EndInv
\* EndsControl: the writer takes a control frame.
<1>EndsControl.
    ASSUME CoreTypes, EndInv, TakeControlWork
    PROVE  EndInv'
  <2> USE <1>EndsControl
  <2>0. q.control \in Seq(Frames)
    BY QueueFields, Zenon DEF CoreTypes
  <2>1. st' = st /\ ended' = ended /\ q'.closeFrame = q.closeFrame
    BY Zenon DEF TakeControlWork, SameEnd
  <2>2. CASE q.control # <<>> /\ q'.control = Tail(q.control) /\ Took(Head(q.control))
    <3>1. PICK n \in Nat : n + 1 = Len(q.control) /\ DOMAIN q.control = 1..(n + 1)
      <4>1. Len(q.control) \in Nat /\ Len(q.control) > 0 /\ DOMAIN q.control = 1..Len(q.control)
        BY <2>0, <2>2, SMTT(30)
      <4>2. Len(q.control) - 1 \in Nat /\ (Len(q.control) - 1) + 1 = Len(q.control)
        BY <4>1, SMTT(30)
      <4> QED BY <4>1, <4>2, Zenon
    <3>2. /\ DOMAIN q'.control = 1..n /\ frame' = q.control[1]
          /\ \A i \in 1..n : q'.control[i] = q.control[i + 1]
      <4>1. Len(q'.control) = n /\ q'.control \in Seq(Frames)
        BY <2>0, <2>2, <3>1, SMTT(30)
      <4>2. DOMAIN q'.control = 1..n
        BY <4>1, SMTT(30)
      <4>3. frame' = q.control[1]
        BY <2>0, <2>2, SMTT(30) DEF Took
      <4>4. \A i \in 1..n : q'.control[i] = q.control[i + 1]
        BY <2>0, <2>2, <3>1, SMTT(30)
      <4> QED BY <4>2, <4>3, <4>4, Zenon
    <3>3. \A i \in DOMAIN q'.control : /\ i + 1 \in DOMAIN q.control /\ i + 1 # 1 /\ i \in Nat
                                       /\ q'.control[i] = q.control[i + 1]
      BY <3>1, <3>2, SMTT(30)
    <3>4. 1 \in DOMAIN q.control
      BY <3>1, SMTT(30)
    <3>5. ControlInv'
      <4>1. \A i \in DOMAIN q'.control :
              /\ q'.control[i].type \notin {"stream", "close"} /\ ~q'.control[i].fin
              /\ q'.control[i].type = "reset" =>
                   q'.control[i].id \in Streams /\ st'[q'.control[i].id].resetQueued
        BY <2>1, <3>3, ZenonT(40) DEF EndInv, ControlInv
      <4>2. ASSUME NEW i \in DOMAIN q'.control, NEW j \in DOMAIN q'.control,
                   q'.control[i].type = "reset", q'.control[j].type = "reset",
                   q'.control[i].id = q'.control[j].id
            PROVE  i = j
        <5>1. i + 1 = j + 1
          BY <3>3, <4>2, ZenonT(40) DEF EndInv, ControlInv
        <5> QED BY <3>3, <5>1, SMTT(30)
      <4> QED BY <2>1, <4>1, <4>2, Zenon DEF EndInv, ControlInv
    <3>6. \A x : ResetWaits(x)' => ResetWaits(x)
      BY <3>3, Zenon DEF ResetWaits
    <3>7. ASSUME NEW x, q.control[1].type = "reset", x = q.control[1].id
          PROVE  ~ResetWaits(x)'
      <4> SUFFICES ASSUME NEW i \in DOMAIN q'.control,
                          q'.control[i].type = "reset", q'.control[i].id = q.control[1].id
                   PROVE  FALSE
        BY <3>7, Zenon DEF ResetWaits
      <4>1. /\ i + 1 \in DOMAIN q.control /\ i + 1 # 1
            /\ q.control[i + 1].type = "reset" /\ q.control[i + 1].id = q.control[1].id
        BY <3>3, Zenon
      <4>2. \A j, k \in DOMAIN q.control :
              /\ q.control[j].type = "reset" /\ q.control[k].type = "reset"
              /\ q.control[j].id = q.control[k].id
              => j = k
        BY Zenon DEF EndInv, ControlInv
      <4>3. i + 1 = 1
        BY <3>4, <3>7, <4>1, <4>2, ZenonT(40)
      <4> QED BY <4>1, <4>3, Zenon
    <3>8. q.control[1].type = "reset" => q.control[1].id \notin ended
      BY <3>4, Zenon DEF EndInv, EndedInv, ResetWaits
    <3>9. HandInv'
      <4>1. frame'.type \notin {"stream", "close"} /\ ~frame'.fin
        BY <3>2, <3>4, Zenon DEF EndInv, ControlInv
      <4>2. frame'.type = "reset" => /\ frame'.id \in Streams /\ frame'.id \notin ended'
                                     /\ st'[frame'.id].resetQueued
        BY <2>1, <3>2, <3>4, <3>8, ZenonT(40) DEF EndInv, ControlInv
      <4>3. frame'.type = "reset" => ~ResetWaits(frame.id)'
        BY <3>2, <3>7, Zenon
      <4> QED BY <4>1, <4>2, <4>3, ZenonT(40) DEF HandInv
    <3>10. EndedInv'
      BY <2>1, <3>6, Zenon DEF EndInv, EndedInv
    <3> QED BY <3>5, <3>9, <3>10, Zenon DEF EndInv
  <2>3. ASSUME q.control = <<>>, q'.control = <<>>, NEW f \in Frames,
               f.type \in {"max_data", "max_stream_data"}, ~f.fin, Took(f)
        PROVE  EndInv'
    <3>1. \A x : ResetWaits(x)' <=> ResetWaits(x)
      BY <2>3, Zenon DEF ResetWaits
    <3>2. ControlInv'
      BY <2>1, <2>3, ZenonT(40) DEF EndInv, ControlInv
    <3>3. HandInv'
      BY <2>3, Zenon DEF Took, HandInv
    <3>4. EndedInv'
      BY <2>1, <3>1, Zenon DEF EndInv, EndedInv
    <3> QED BY <3>2, <3>3, <3>4, Zenon DEF EndInv
  <2> QED BY <2>2, <2>3, Zenon DEF TakeControlWork
\* EndsDispatch: the writer takes data of a direction that has not ended.
<1>EndsDispatch.
    ASSUME CoreTypes, ReadyMatchesQueues, FinInv, EndInv,
           NEW i \in Nat, NEW s \in Streams, NEW k \in Nat, NEW f \in BOOLEAN,
           NEW b \in Seq(Chunks), Dispatch(i, s, k, f, b)
    PROVE  EndInv'
  <2> USE <1>EndsDispatch
  <2>0. q \in Queue
    BY Zenon DEF CoreTypes
  <2>1. /\ i \in DOMAIN q.ready /\ s = q.ready[i]
        /\ q'.control = q.control /\ q'.closeFrame = q.closeFrame /\ ended' = ended
        /\ frame' = Data(s, k, f)
        /\ \A x \in Streams :
             /\ (st'[x].dispatched <=> st[x].dispatched \/ (x = s /\ f))
             /\ st'[x].resetQueued = st[x].resetQueued
    BY Zenon DEF Dispatch, SameEnd, Took
  <2>2. q.byStream[s] # <<>>
    BY <2>0, <2>1, ReadyFacts, Zenon
  <2>3. ~st[s].dispatched /\ ~st[s].resetQueued
    BY <2>2, Zenon DEF FinInv
  <2>4. s \notin ended
    BY <2>3, Zenon DEF EndInv, EndedInv
  <2>5. \A x : ResetWaits(x)' <=> ResetWaits(x)
    BY <2>1, ZenonT(40) DEF ResetWaits
  <2>6. ControlInv'
    BY <2>1, SMTT(30) DEF EndInv, ControlInv
  <2>7. HandInv'
    <3>1. frame'.type = "stream" /\ frame'.id = s /\ frame'.fin = f
      BY <2>1, Zenon DEF Data
    <3> QED BY <2>1, <2>4, <3>1, ZenonT(40) DEF HandInv
  <2>8. EndedInv'
    BY <2>1, <2>5, Zenon DEF EndInv, EndedInv
  <2> QED BY <2>6, <2>7, <2>8, Zenon DEF EndInv
\* EndsSent: the frame in hand leaves.
<1>EndsSent.
    ASSUME FinInv, EndInv, UNCHANGED <<q, st>>, frame' = NoFrame,
           ended' = ended \/ Sent
    PROVE  EndInv'
  <2> USE <1>EndsSent
  <2>1. ControlInv'
    BY Zenon DEF EndInv, ControlInv
  <2>2. HandInv'
    BY Zenon DEF HandInv, NoFrame, Frame
  <2>3. \A x : ResetWaits(x)' <=> ResetWaits(x)
    BY Zenon DEF ResetWaits
  <2>4. CASE ended' = ended
    <3>1. EndedInv'
      BY <2>3, <2>4, ZenonT(40) DEF EndInv, EndedInv
    <3> QED BY <2>1, <2>2, <3>1, Zenon DEF EndInv
  <2>5. CASE ended' = ended \cup {frame.id} /\ (frame.type = "reset" \/ frame.fin)
    <3>1. frame.id \in Streams /\ (st[frame.id].dispatched \/ st[frame.id].resetQueued)
      BY <2>5, Zenon DEF EndInv, HandInv
    <3>2. ~ResetWaits(frame.id)
      <4>1. CASE frame.type = "reset"
        BY <4>1, Zenon DEF EndInv, HandInv
      <4>2. CASE frame.type # "reset"
        <5>1. st[frame.id].dispatched
          BY <2>5, <4>2, Zenon DEF EndInv, HandInv
        <5>2. ~st[frame.id].resetQueued
          BY <3>1, <5>1, Zenon DEF FinInv
        <5> QED BY <5>2, Zenon DEF EndInv, ControlInv, ResetWaits
      <4> QED BY <4>1, <4>2, Zenon
    <3>3. EndedInv'
      BY <2>3, <2>5, <3>1, <3>2, Zenon DEF EndInv, EndedInv
    <3> QED BY <2>1, <2>2, <3>3, Zenon DEF EndInv
  <2> QED BY <2>4, <2>5, Zenon DEF Sent
<1>1. CASE Calm \/ StreamNews \/ ConnNews \/ GiveTurn \/ \E s \in Streams, c \in Chunks : PutChunk(s, c)
  <2>1. SameEnds
    BY <1>1, Zenon DEF Calm, StreamNews, ConnNews, GiveTurn, PutChunk, SameEnds
  <2>2. q'.control = q.control /\ q'.closeFrame = q.closeFrame /\ UNCHANGED <<frame, ended>>
    BY <1>1, Zenon DEF Calm, StreamNews, ConnNews, GiveTurn, PutChunk, SameHistory, SameWriter,
                SameControl, SameEnd
  <2> QED BY <2>1, <2>2, <1>EndsSame, Zenon
<1>2. ASSUME NEW f \in Frames, Put(f) PROVE EndInv'
  BY <1>2, <1>EndsPut, ZenonT(40) DEF Put, SameEnds, SameEnd, SameHistory, SameWriter
<1>3. ASSUME NEW s \in Streams, PutReset(s) PROVE EndInv'
  BY <1>3, <1>EndsReset, Zenon
<1>4. CASE CloseGracefully
  <2>1. q'.control = q.control /\ q'.closeFrame = Close(0) /\ UNCHANGED <<st, frame, ended>>
    BY <1>4, Zenon DEF CloseGracefully, SameHistory, SameControl
  <2>2. q'.closeFrame.type = "close" /\ ~q'.closeFrame.fin
    BY <2>1, SMTT(30) DEF Close, Frame
  <2>3. ControlInv'
    BY <2>1, <2>2, ZenonT(40) DEF EndInv, ControlInv
  <2>4. \A x : ResetWaits(x)' <=> ResetWaits(x)
    BY <2>1, Zenon DEF ResetWaits
  <2> QED BY <2>1, <2>3, <2>4, ZenonT(40) DEF EndInv, HandInv, EndedInv
<1>5. CASE DropQueues
  <2>1. q'.closeFrame.type \in {"none", "close"} /\ ~q'.closeFrame.fin
    BY <1>5, SMTT(30) DEF DropQueues, Close, NoFrame, Frame
  <2> QED BY <1>5, <2>1, <1>EndsDropped, Zenon DEF DropQueues, SameEnds, SameHistory
<1>6. CASE TakeClose
  <2>1. /\ q'.control = q.control /\ q'.closeFrame = NoFrame /\ frame' = q.closeFrame
        /\ UNCHANGED <<st, ended>>
    BY <1>6, Zenon DEF TakeClose, SameHistory, SameControl, Took
  <2>2. q'.closeFrame.type = "none" /\ ~q'.closeFrame.fin
    BY <2>1, SMTT(30) DEF NoFrame, Frame
  <2>3. ControlInv'
    BY <2>1, <2>2, ZenonT(40) DEF EndInv, ControlInv
  <2>4. \A x : ResetWaits(x)' <=> ResetWaits(x)
    BY <2>1, Zenon DEF ResetWaits
  <2>5. HandInv'
    BY <2>1, Zenon DEF EndInv, ControlInv, HandInv
  <2> QED BY <2>1, <2>3, <2>4, <2>5, Zenon DEF EndInv, EndedInv
<1>7. CASE TakeControlWork
  BY <1>7, <1>EndsControl, Zenon
<1>8. ASSUME NEW i \in Nat, NEW s \in Streams, NEW k \in Nat, NEW f \in BOOLEAN,
             NEW b \in Seq(Chunks), Dispatch(i, s, k, f, b)
      PROVE  EndInv'
  BY <1>8, <1>EndsDispatch, Zenon
<1>9. CASE Sent \/ Failed
  <2>1. UNCHANGED <<q, st>> /\ frame' = NoFrame /\ (ended' = ended \/ Sent)
    BY <1>9, Zenon DEF Sent, Failed, SameHistory
  <2> QED BY <2>1, <1>EndsSent, Zenon
<1> QED BY <1>1, <1>2, <1>3, <1>4, <1>5, <1>6, <1>7, <1>8, <1>9, Zenon DEF Step

\* EndInit: no direction has ended at first.
LEMMA EndInit == ASSUME Init PROVE FinInv /\ EndInv
<1>1. /\ q.byStream = [s \in Streams |-> <<>>] /\ q.control = <<Settings>>
      /\ q.closeFrame = NoFrame /\ st = [s \in Streams |-> InitStream]
      /\ frame = NoFrame /\ ended = {}
  BY Zenon DEF Init, InitQueues
<1>2. \A s \in Streams : q.byStream[s] = <<>> /\ ~st[s].dispatched /\ ~st[s].resetQueued
  BY <1>1, Zenon DEF InitStream
<1>3. FinInv
  BY <1>2, SMTT(30) DEF FinInv
<1>4. /\ DOMAIN q.control = {1} /\ q.control[1].type = "settings" /\ ~q.control[1].fin
      /\ q.closeFrame.type = "none" /\ ~q.closeFrame.fin
      /\ frame.type = "none" /\ ~frame.fin
  BY <1>1, SMTT(30) DEF Settings, NoFrame, Frame
<1>5. ControlInv
  BY <1>4, Zenon DEF ControlInv
<1>6. HandInv /\ EndedInv
  BY <1>1, <1>4, Zenon DEF HandInv, EndedInv
<1> QED BY <1>3, <1>5, <1>6, Zenon DEF EndInv

\* CloseKeeps: every step keeps the invariant of the close.
LEMMA CloseKeeps ==
  ASSUME ChunkLaws, CoreTypes, ReadyMatchesQueues, FinInv, EndInv, CloseInv, Step
  PROVE  CloseInv'
\* KeptSame: steps that leave the stream's bytes alone.
<1>KeptSame.
    ASSUME NEW s \in Streams, Kept(s), q'.byStream[s] = q.byStream[s],
           st'[s].sent = st[s].sent, st'[s].dispatched = st[s].dispatched,
           st[s].resetQueued => st'[s].resetQueued, accepted'[s] = accepted[s],
           s \in fins' <=> s \in fins
    PROVE  Kept(s)'
  BY <1>KeptSame, Zenon DEF Kept
\* KeptChunk: a chunk that is accepted waits in the queue.
<1>KeptChunk.
    ASSUME CoreTypes, NEW s \in Streams, NEW c \in Chunks, PutChunk(s, c), Kept(s)
    PROVE  Kept(s)'
  <2> USE <1>KeptChunk
  <2>0. /\ q.byStream \in [Streams -> Seq(Chunks)] /\ accepted \in [Streams -> Nat]
        /\ st \in [Streams -> SendState]
    BY QueueFields, Zenon DEF CoreTypes
  <2>1. /\ q'.byStream[s] = Append(q.byStream[s], c) /\ st' = st /\ s \notin fins
        /\ fins' = (IF c.fin THEN fins \cup {s} ELSE fins)
        /\ accepted'[s] = accepted[s] + c.len
    BY <2>0, Zenon DEF PutChunk
  <2>2. PICK d \in Seq(Chunks) : d = q.byStream[s]
    BY <2>0, ZenonT(40)
  <2>3. Queued(q'.byStream[s]) = Queued(d) + c.len
    BY <2>1, <2>2, ChunkSums, SMTT(30)
  <2> SUFFICES ASSUME ~st[s].resetQueued
               PROVE  /\ st'[s].sent + Queued(q'.byStream[s]) = accepted'[s]
                      /\ s \in fins' => \/ st'[s].dispatched
                                        \/ \E i \in DOMAIN q'.byStream[s] : q'.byStream[s][i].fin
    BY <2>1, Zenon DEF Kept
  <2>4. st'[s].sent + Queued(q'.byStream[s]) = accepted'[s]
    <3>1. st[s].sent \in Nat /\ Queued(d) \in Nat /\ accepted[s] \in Nat /\ c.len \in Nat
      BY <2>0, ChunkSums, Zenon DEF SendState, Chunks
    <3>2. st[s].sent + Queued(d) = accepted[s]
      BY <2>2, Zenon DEF Kept
    <3>3. PICK x \in Nat, y \in Nat, z \in Nat, l \in Nat :
            x = st[s].sent /\ y = Queued(d) /\ z = accepted[s] /\ l = c.len
      BY <3>1, Zenon
    <3>4. x + (y + l) = z + l
      BY <3>2, <3>3, SMTT(30)
    <3> QED BY <2>1, <2>3, <3>3, <3>4, ZenonT(40)
  <2>5. s \in fins' => \E i \in DOMAIN q'.byStream[s] : q'.byStream[s][i].fin
    <3>1. Len(d) + 1 \in DOMAIN Append(d, c) /\ Append(d, c)[Len(d) + 1] = c
      BY <2>2, SMTT(30)
    <3>2. s \in fins' => c.fin
      BY <2>1, Zenon
    <3> QED BY <2>1, <2>2, <3>1, <3>2, Zenon
  <2> QED BY <2>4, <2>5, Zenon
\* KeptDispatch: bytes that leave the queue have been sent.
<1>KeptDispatch.
    ASSUME CoreTypes, ReadyMatchesQueues, FinInv,
           NEW i \in Nat, NEW s \in Streams, NEW k \in Nat, NEW f \in BOOLEAN,
           NEW b \in Seq(Chunks), Dispatch(i, s, k, f, b), Kept(s)
    PROVE  Kept(s)'
  <2> USE <1>KeptDispatch
  <2>0. /\ q \in Queue /\ q.byStream \in [Streams -> Seq(Chunks)] /\ accepted \in [Streams -> Nat]
        /\ st \in [Streams -> SendState]
    BY QueueFields, Zenon DEF CoreTypes
  <2>1. /\ i \in DOMAIN q.ready /\ s = q.ready[i]
        /\ k = Count(q, st, s) /\ (f <=> FinNow(q, st, s)) /\ b = Rest(q.byStream[s], k)
        /\ q'.byStream[s] = b /\ fins' = fins /\ accepted' = accepted
        /\ st'[s].sent = st[s].sent + k
        /\ (st'[s].dispatched <=> st[s].dispatched \/ f)
        /\ st'[s].resetQueued = st[s].resetQueued
    BY <2>0, Zenon DEF Dispatch
  <2>2. PICK d \in Seq(Chunks) : d = q.byStream[s]
    BY <2>0, Zenon
  <2>3. d # <<>> /\ b = Rest(d, k)
    BY <2>0, <2>1, <2>2, ReadyFacts, Zenon
  <2>4. k <= Head(d).len /\ (f <=> Head(d).fin /\ Head(d).len = k)
    <3>2. k <= Head(d).len
      BY <2>0, <2>1, <2>2, <2>3, CountBounds, ZenonT(40)
    <3> QED BY <2>1, <2>2, <3>2, ZenonT(40) DEF FinNow
  <2> SUFFICES ASSUME ~st[s].resetQueued
               PROVE  /\ st'[s].sent + Queued(b) = accepted[s]
                      /\ s \in fins => \/ st'[s].dispatched
                                       \/ \E j \in DOMAIN b : b[j].fin
    BY <2>1, Zenon DEF Kept
  <2>5. st'[s].sent + Queued(b) = accepted[s]
    <3>1. Queued(b) + k = Queued(d)
      BY <2>3, <2>4, ChunkSums, Zenon
    <3>2. st[s].sent \in Nat /\ Queued(d) \in Nat /\ Queued(b) \in Nat /\ accepted[s] \in Nat
      BY <2>0, ChunkSums, Zenon DEF SendState
    <3>3. st[s].sent + Queued(d) = accepted[s]
      BY <2>2, Zenon DEF Kept
    <3>4. PICK x \in Nat, y \in Nat, z \in Nat, w \in Nat :
            x = st[s].sent /\ y = Queued(d) /\ z = accepted[s] /\ w = Queued(b)
      BY <3>2, Zenon
    <3>5. w + k = y /\ x + y = z
      BY <3>1, <3>3, <3>4, ZenonT(40)
    <3>6. (x + k) + w = z
      BY <3>5, SMTT(30)
    <3> QED BY <2>1, <3>4, <3>6, ZenonT(40)
  <2>6. ASSUME s \in fins, ~st'[s].dispatched
        PROVE  \E j \in DOMAIN b : b[j].fin
    <3>1. PICK j \in DOMAIN d : d[j].fin
      BY <2>1, <2>2, <2>6, ZenonT(40) DEF Kept
    <3>2. ~f
      BY <2>1, <2>6, ZenonT(40)
    <3>3. /\ Head(d) = d[1] /\ Tail(d) \in Seq(Chunks) /\ Len(d) \in Nat /\ DOMAIN d = 1..Len(d)
          /\ j \in 1..Len(d)
      BY <2>3, <3>1, SMTT(30)
    <3>4. CASE Head(d).len = k
      <4>0. b = Tail(d)
        BY <2>3, <2>4, <3>4, RestChunks, Zenon
      <4>1. j # 1 /\ b = Tail(d)
        BY <2>4, <3>1, <3>2, <3>3, <3>4, <4>0, ZenonT(40)
      <4>2. j - 1 \in DOMAIN Tail(d) /\ Tail(d)[j - 1] = d[j]
        BY <2>3, <3>3, <4>1, SMTT(30)
      <4> QED BY <3>1, <4>1, <4>2, Zenon
    <3>5. CASE Head(d).len # k
      <4>1. /\ Len(b) = Len(d) /\ b[1] = [len |-> Head(d).len - k, fin |-> Head(d).fin]
            /\ \A l \in 2..Len(d) : b[l] = d[l]
        BY <2>3, <2>4, <3>5, RestChunks, ZenonT(40)
      <4>2. DOMAIN b = DOMAIN d
        BY <3>3, <4>1, SMTT(30)
      <4>3. b[j].fin
        <5>1. CASE j = 1
          BY <3>1, <3>3, <4>1, <5>1, SMTT(30)
        <5>2. CASE j # 1
          <6>1. j \in 2..Len(d)
            BY <3>3, <5>2, SMTT(30)
          <6> QED BY <3>1, <4>1, <6>1, ZenonT(40)
        <5> QED BY <5>1, <5>2, ZenonT(40)
      <4> QED BY <4>2, <4>3, ZenonT(40)
    <3> QED BY <3>4, <3>5, Zenon
  <2> QED BY <2>5, <2>6, Zenon
\* CloseWrites: steps before the close.
<1>CloseWrites.
    ASSUME CoreTypes, CloseInv, ~q.closing, ~q'.closing, closed' = closed, pc' = pc,
           frame' = frame, q'.closeFrame = q.closeFrame, q'.graceful = q.graceful,
           \A s \in Streams : Kept(s)'
    PROVE  CloseInv'
  BY <1>CloseWrites, Zenon DEF CloseInv
\* CloseTakes: next_frame takes a frame other than the graceful CLOSE.
<1>CloseTakes.
    ASSUME CloseInv, UNCHANGED <<fins, accepted, closed>>, NEW f, Took(f), f # Close(0),
           q'.closing = q.closing, q'.graceful = q.graceful, q'.closeFrame = q.closeFrame,
           ~q.closing \/ q.graceful => \A s \in Streams : Kept(s)'
    PROVE  CloseInv'
  BY <1>CloseTakes, Zenon DEF CloseInv, Took
\* CloseQuiet: steps that leave the queues alone.
<1>CloseQuiet.
    ASSUME CloseInv, q'.closing = q.closing, q'.graceful = q.graceful,
           q'.closeFrame = q.closeFrame, q'.control = q.control, q'.byStream = q.byStream,
           \A x \in Streams : /\ st'[x].sent = st[x].sent /\ st'[x].dispatched = st[x].dispatched
                              /\ st'[x].resetQueued = st[x].resetQueued,
           UNCHANGED <<fins, accepted>>, closed => closed',
           frame' = NoFrame \/ (frame' = frame /\ (pc = "send" => pc' = "send"))
    PROVE  CloseInv'
  <2> USE <1>CloseQuiet
  <2>1. NoFrame # Close(0)
    BY Zenon DEF NoFrame, Close, Frame
  <2>2. \A s \in Streams : Kept(s) => Kept(s)'
    BY <1>KeptSame, Zenon
  <2>3. (~q'.closing \/ q'.graceful) => \A s \in Streams : Kept(s)'
    BY <2>2, Zenon DEF CloseInv
  <2>4. /\ q'.closing => closed'
        /\ frame' # NoFrame => pc' = "send"
        /\ q'.closeFrame = Close(0) => q'.graceful
    BY Zenon DEF CloseInv
  <2>5. frame' = Close(0) =>
         /\ q'.closing /\ q'.control = <<>>
         /\ \A s \in Streams : ~st'[s].resetQueued =>
              st'[s].sent = accepted'[s] /\ (st'[s].dispatched <=> s \in fins')
    BY <2>1, ZenonT(40) DEF CloseInv
  <2> QED BY <2>3, <2>4, <2>5, ZenonT(40) DEF CloseInv
<1>0. /\ q \in Queue /\ q.byStream \in [Streams -> Seq(Chunks)] /\ accepted \in [Streams -> Nat]
      /\ st \in [Streams -> SendState]
  BY QueueFields, Zenon DEF CoreTypes
<1>1. CASE Calm \/ StreamNews \/ Sent \/ Failed
  <2>1. /\ q' = q /\ UNCHANGED <<fins, accepted>> /\ (closed => closed')
        /\ frame' = NoFrame \/ (frame' = frame /\ (pc = "send" => pc' = "send"))
    BY <1>1, SMTT(30) DEF Calm, StreamNews, Sent, Failed, SameHistory, SameWriter
  <2>2. \A x \in Streams : /\ st'[x].sent = st[x].sent /\ st'[x].dispatched = st[x].dispatched
                           /\ st'[x].resetQueued = st[x].resetQueued
    BY <1>1, Zenon DEF Calm, StreamNews, Sent, Failed
  <2> QED BY <2>1, <2>2, <1>CloseQuiet, ZenonT(40)
<1>2. CASE ConnNews \/ GiveTurn
  <2>1. /\ q'.closing = q.closing /\ q'.graceful = q.graceful
        /\ q'.closeFrame = q.closeFrame /\ q'.control = q.control /\ q'.byStream = q.byStream
        /\ UNCHANGED <<st, fins, accepted, closed, frame>>
        /\ pc = "send" => pc' = "send"
    BY <1>2, Zenon DEF ConnNews, GiveTurn, SameHistory, SameWriter, SameData, SameControl, SameEnd
  <2> QED BY <2>1, <1>CloseQuiet, ZenonT(40)
<1>3. ASSUME NEW f \in Frames, Put(f) PROVE CloseInv'
  <2>1. /\ ~q.closing /\ UNCHANGED <<st, fins, accepted, closed, frame, pc>>
        /\ q'.byStream = q.byStream /\ q'.closing = q.closing /\ q'.graceful = q.graceful
        /\ q'.closeFrame = q.closeFrame
    BY <1>3, Zenon DEF Put, SameHistory, SameWriter, SameData, SameEnd
  <2>2. \A s \in Streams : Kept(s)'
    BY <2>1, <1>KeptSame, Zenon DEF CloseInv
  <2> QED BY <2>1, <2>2, <1>CloseWrites, ZenonT(40)
<1>4. ASSUME NEW s \in Streams, NEW c \in Chunks, PutChunk(s, c) PROVE CloseInv'
  <2>1. /\ ~q.closing /\ UNCHANGED <<st, closed, frame, pc>>
        /\ q'.closing = q.closing /\ q'.graceful = q.graceful /\ q'.closeFrame = q.closeFrame
        /\ \A x \in Streams : x # s => /\ q'.byStream[x] = q.byStream[x]
                                       /\ accepted'[x] = accepted[x]
                                       /\ x \in fins' <=> x \in fins
    BY <1>0, <1>4, Zenon DEF PutChunk, SameWriter, SameEnd
  <2>2. \A x \in Streams : Kept(x)
    BY <2>1, Zenon DEF CloseInv
  <2>3. Kept(s)'
    BY <1>4, <2>2, <1>KeptChunk, Zenon
  <2>4. \A x \in Streams : x # s => Kept(x)'
    BY <2>1, <2>2, <1>KeptSame, Zenon
  <2> QED BY <2>1, <2>3, <2>4, <1>CloseWrites, ZenonT(40)
<1>5. ASSUME NEW s \in Streams, PutReset(s) PROVE CloseInv'
  <2>1. /\ ~q.closing /\ UNCHANGED <<fins, accepted, closed, frame, pc>>
        /\ q'.closing = q.closing /\ q'.graceful = q.graceful /\ q'.closeFrame = q.closeFrame
        /\ \A x \in Streams : x # s => /\ q'.byStream[x] = q.byStream[x]
                                       /\ st'[x].resetQueued <=> st[x].resetQueued
        /\ \A x \in Streams : st'[x].sent = st[x].sent /\ st'[x].dispatched = st[x].dispatched
        /\ st'[s].resetQueued
    BY <1>0, <1>5, ZenonT(40) DEF PutReset, SameHistory, SameWriter, SameEnd
  <2>2. \A x \in Streams : Kept(x)
    BY <2>1, Zenon DEF CloseInv
  <2>3. Kept(s)'
    BY <2>1, Zenon DEF Kept
  <2>4. \A x \in Streams : x # s => Kept(x)'
    BY <2>1, <2>2, <1>KeptSame, ZenonT(40)
  <2> QED BY <2>1, <2>3, <2>4, <1>CloseWrites, Zenon
<1>6. CASE CloseGracefully
  <2>1. /\ ~q.closing /\ closed' /\ q'.graceful /\ q'.closing /\ UNCHANGED <<st, fins, accepted, frame, pc>>
        /\ q'.byStream = q.byStream
    BY <1>6, Zenon DEF CloseInv, CloseGracefully, SameHistory, SameData
  <2>2. \A s \in Streams : Kept(s)'
    BY <2>1, <1>KeptSame, Zenon DEF CloseInv
  <2> QED BY <2>1, <2>2, Zenon DEF CloseInv
<1>7. CASE DropQueues
  <2>1. /\ q'.closeFrame # Close(0)
    BY <1>7, SMTT(30) DEF DropQueues, Close, NoFrame, Frame
  <2>2. /\ closed' /\ ~q'.graceful /\ q'.closing /\ UNCHANGED <<st, fins, accepted, frame, pc>>
        /\ q'.control = <<>>
    BY <1>7, ZenonT(40) DEF DropQueues, SameHistory
  <2> QED BY <2>1, <2>2, ZenonT(40) DEF CloseInv
<1>8. CASE TakeClose
  <2>1. /\ UNCHANGED <<st, fins, accepted, closed>> /\ q.closing
        /\ q.graceful => q.control = <<>> /\ Drained(q)
        /\ q'.closeFrame = NoFrame /\ q'.graceful = q.graceful /\ q'.closing = q.closing
        /\ q'.byStream = q.byStream /\ q'.control = q.control /\ Took(q.closeFrame)
    BY <1>8, ZenonT(40) DEF TakeClose, SameHistory, SameData, SameControl
  <2>2. NoFrame # Close(0)
    BY Zenon DEF NoFrame, Close, Frame
  <2>3. (~q'.closing \/ q'.graceful) => \A s \in Streams : Kept(s)'
    BY <2>1, <1>KeptSame, ZenonT(40) DEF CloseInv
  <2>4. ASSUME q.closeFrame = Close(0)
        PROVE  /\ q'.closing /\ q'.control = <<>>
               /\ \A s \in Streams : ~st'[s].resetQueued =>
                    st'[s].sent = accepted'[s] /\ (st'[s].dispatched <=> s \in fins')
    <3>1. q.graceful
      BY <2>4, Zenon DEF CloseInv
    <3>2. q.control = <<>> /\ \A s \in Streams : q.byStream[s] = <<>> /\ Kept(s)
      BY <2>1, <3>1, ZenonT(40) DEF CloseInv, Drained
    <3>3. ASSUME NEW s \in Streams, ~st[s].resetQueued
          PROVE  st[s].sent = accepted[s] /\ (st[s].dispatched <=> s \in fins)
      <4>1. st[s].sent \in Nat
        BY <1>0, ZenonT(40) DEF SendState
      <4>2. st[s].sent + 0 = accepted[s] /\ (s \in fins => st[s].dispatched)
        BY <3>2, <3>3, NoChunk, SMTT(30) DEF Kept
      <4>3. st[s].dispatched => s \in fins
        BY Zenon DEF FinInv
      <4> QED BY <4>1, <4>2, <4>3, SMTT(30)
    <3> QED BY <2>1, <3>2, <3>3, ZenonT(40)
  <2> QED BY <2>1, <2>2, <2>3, <2>4, ZenonT(40) DEF CloseInv, Took
<1>9. CASE TakeControlWork
  <2>1. /\ UNCHANGED <<st, fins, accepted, closed>>
        /\ q'.closing = q.closing /\ q'.graceful = q.graceful /\ q'.closeFrame = q.closeFrame
        /\ q'.byStream = q.byStream
    BY <1>9, Zenon DEF TakeControlWork, SameData, SameEnd
  <2>2. (~q.closing \/ q.graceful) => \A s \in Streams : Kept(s)'
    BY <2>1, <1>KeptSame, ZenonT(40) DEF CloseInv
  <2>3. \E f : Took(f) /\ f # Close(0)
    <3>1. CASE q.control # <<>> /\ Took(Head(q.control))
      <4>1. 1 \in DOMAIN q.control /\ Head(q.control) = q.control[1]
        <5>1. q.control \in Seq(Frames)
          BY <1>0, QueueFields, ZenonT(40)
        <5> QED BY <3>1, <5>1, SMTT(30)
      <4>2. Head(q.control).type # "close" /\ Close(0).type = "close"
        BY <4>1, ZenonT(40) DEF EndInv, ControlInv, Close, Frame
      <4> QED BY <3>1, <4>2, ZenonT(40)
    <3>2. ASSUME NEW f \in Frames, f.type \in {"max_data", "max_stream_data"}, Took(f)
          PROVE  \E g : Took(g) /\ g # Close(0)
      <4>1. f.type # "close" /\ Close(0).type = "close"
        BY <3>2, ZenonT(40) DEF Close, Frame
      <4> QED BY <3>2, <4>1, ZenonT(40)
    <3> QED BY <1>9, <3>1, <3>2, ZenonT(40) DEF TakeControlWork
  <2> QED BY <2>1, <2>2, <2>3, <1>CloseTakes, ZenonT(40)
<1>10. ASSUME NEW i \in Nat, NEW s \in Streams, NEW k \in Nat, NEW f \in BOOLEAN,
              NEW b \in Seq(Chunks), Dispatch(i, s, k, f, b)
       PROVE  CloseInv'
  <2>1. /\ UNCHANGED <<fins, accepted, closed>> /\ Took(Data(s, k, f))
        /\ q'.closing = q.closing /\ q'.graceful = q.graceful /\ q'.closeFrame = q.closeFrame
        /\ \A x \in Streams : x # s => /\ q'.byStream[x] = q.byStream[x]
                                       /\ st'[x].sent = st[x].sent
                                       /\ st'[x].dispatched <=> st[x].dispatched
                                       /\ st'[x].resetQueued = st[x].resetQueued
    BY <1>0, <1>10, ZenonT(40) DEF Dispatch, SameEnd
  <2>2. Data(s, k, f) # Close(0)
    <3>1. Data(s, k, f).type = "stream" /\ Close(0).type = "close"
      BY Zenon DEF Data, Close, Frame
    <3> QED BY <3>1, ZenonT(40)
  <2>3. ASSUME ~q.closing \/ q.graceful PROVE \A x \in Streams : Kept(x)'
    <3>1. \A x \in Streams : Kept(x)
      BY <2>3, ZenonT(40) DEF CloseInv
    <3>2. Kept(s)'
      BY <1>10, <3>1, <1>KeptDispatch, ZenonT(40)
    <3>3. \A x \in Streams : x # s => Kept(x)'
      BY <2>1, <3>1, SMTT(30) DEF Kept
    <3> QED BY <3>2, <3>3, ZenonT(40)
  <2> QED BY <2>1, <2>2, <2>3, <1>CloseTakes, ZenonT(40)
<1> QED BY <1>1, <1>2, <1>3, <1>4, <1>5, <1>6, <1>7, <1>8, <1>9, <1>10, ZenonT(40) DEF Step

\* CloseInit: a new connection is not closing.
LEMMA CloseInit == ASSUME ChunkLaws, Init PROVE CloseInv
<1>1. /\ q.byStream = [s \in Streams |-> <<>>] /\ q.closeFrame = NoFrame /\ ~q.closing
      /\ st = [s \in Streams |-> InitStream] /\ frame = NoFrame
      /\ fins = {} /\ accepted = [s \in Streams |-> 0]
  BY Zenon DEF Init, InitQueues
<1>2. NoFrame # Close(0)
  BY Zenon DEF NoFrame, Close, Frame
<1>3. \A s \in Streams : Kept(s)
  <2> SUFFICES ASSUME NEW s \in Streams PROVE Kept(s)
    BY Zenon
  <2>1. q.byStream[s] = <<>> /\ st[s].sent = 0 /\ accepted[s] = 0 /\ s \notin fins
    BY <1>1, Zenon DEF InitStream
  <2> QED BY <2>1, NoChunk, SMTT(30) DEF Kept
<1> QED BY <1>1, <1>2, <1>3, Zenon DEF CloseInv

\* PassedKeeps: every step keeps the invariant of turns.
LEMMA PassedKeeps ==
  ASSUME ReadyLaws, CoreTypes, ReadyMatchesQueues, PassedInv, Step
  PROVE  PassedInv'
\* PassedSame: steps that leave the ready list alone.
<1>PassedSame.
    ASSUME PassedInv, q'.ready = q.ready, passed' = passed, q.closing => q'.closing,
           \A x \in Streams : st[x].terminal => st'[x].terminal
    PROVE  PassedInv'
  <2> USE <1>PassedSame
  <2>1. N' = N
    BY Zenon DEF N
  <2> QED BY <2>1, Zenon DEF PassedInv
\* PassedChunk: a stream that becomes ready joins at the end.
<1>PassedChunk.
    ASSUME CoreTypes, ReadyMatchesQueues, PassedInv,
           NEW s \in Streams, NEW c \in Chunks, PutChunk(s, c)
    PROVE  PassedInv'
  <2> USE <1>PassedChunk
  <2>0. /\ q \in Queue /\ q.ready \in Seq(Streams) /\ N' = N /\ N \in Nat
        /\ passed \in [Streams -> Nat]
    BY QueueFields, ReadyIsShort, Zenon DEF CoreTypes, N
  <2>1. /\ ~q.closing /\ ~st[s].terminal /\ UNCHANGED <<st, passed>> /\ q'.closing = q.closing
        /\ q'.ready = IF q.byStream[s] = <<>> THEN Append(q.ready, s) ELSE q.ready
    BY Zenon DEF PutChunk, SameEnd
  <2>2. CASE q.byStream[s] # <<>>
    BY <2>1, <2>2, <1>PassedSame, Zenon
  <2>3. CASE q.byStream[s] = <<>>
    <3>1. q'.ready = Append(q.ready, s)
      BY <2>1, <2>3, Zenon
    <3>2. s \notin Range(q.ready)
      BY <2>0, <2>3, ReadyFacts, Zenon
    <3>3. passed[s] = 0
      BY <2>1, <3>2, Zenon DEF PassedInv
    <3>4. PICK n \in Nat : n = Len(q.ready) /\ DOMAIN q.ready = 1..n
      BY <2>0, SMTT(30)
    <3>5. /\ DOMAIN q'.ready = 1..(n + 1) /\ q'.ready[n + 1] = s /\ Len(q'.ready) = n + 1
          /\ \A i \in 1..n : q'.ready[i] = q.ready[i]
      BY <2>0, <3>1, <3>4, SMTT(30)
    <3>6. n + 1 <= N
      <4>1. Len(q'.ready) <= N
        BY <2>0, <3>1, <3>2, ReadyFacts, ReadyAppend, ReadyIsShort, ZenonT(40)
      <4> QED BY <3>5, <4>1, Zenon
    <3>7. \A i \in DOMAIN q'.ready : passed'[q'.ready[i]] + i <= N
      <4> SUFFICES ASSUME NEW i \in 1..(n + 1) PROVE passed'[q'.ready[i]] + i <= N
        BY <3>5, ZenonT(40)
      <4>1. CASE i = n + 1
        BY <2>1, <3>3, <3>5, <3>6, <4>1, SMTT(30)
      <4>2. CASE i # n + 1
        <5>1. i \in 1..n
          BY <4>2, SMTT(30)
        <5> QED BY <2>1, <3>4, <3>5, <5>1, ZenonT(40) DEF PassedInv
      <4> QED BY <4>1, <4>2, Zenon
    <3>8. Range(q.ready) \subseteq Range(q'.ready)
      BY <2>0, <3>1, ReadyAppend, Zenon
    <3>9. \A t \in Streams :
            t \notin Range(q'.ready) /\ ~st'[t].terminal /\ ~q'.closing => passed'[t] = 0
      BY <2>1, <3>8, Zenon DEF PassedInv
    <3>10. \A t \in Streams : passed'[t] < N
      BY <2>1, Zenon DEF PassedInv
    <3> QED BY <2>0, <3>7, <3>9, <3>10, ZenonT(40) DEF PassedInv
  <2> QED BY <2>2, <2>3, Zenon
\* PassedReset: a stream that is reset leaves the list.
<1>PassedReset.
    ASSUME CoreTypes, ReadyMatchesQueues, PassedInv, NEW s \in Streams, PutReset(s)
    PROVE  PassedInv'
  <2> USE <1>PassedReset
  <2>0. /\ q \in Queue /\ q.ready \in Seq(Streams) /\ N' = N /\ N \in Nat
        /\ passed \in [Streams -> Nat] /\ IsInjective(q.ready)
    BY QueueFields, ReadyIsShort, ReadyFacts, Zenon DEF CoreTypes, N
  <2>1. /\ q'.ready = Without(q.ready, s) /\ passed' = passed /\ q'.closing = q.closing
        /\ \A x \in Streams : (st'[x].terminal <=> st[x].terminal \/ x = s)
    BY Zenon DEF PutReset, SameEnd, SameHistory
  <2>2. PICK r : r = Without(q.ready, s)
    BY Zenon
  <2>3. /\ r \in Seq(Streams) /\ Range(r) = Range(q.ready) \ {s}
        /\ \A i \in DOMAIN r : \E j \in DOMAIN q.ready : i <= j /\ r[i] = q.ready[j]
    BY <2>0, <2>2, ReadyWithout, SMTT(30)
  <2>4. ASSUME NEW i \in DOMAIN r PROVE passed[r[i]] + i <= N
    <3>1. PICK j \in DOMAIN q.ready : i <= j /\ r[i] = q.ready[j]
      BY <2>3, ZenonT(40)
    <3>2. i \in Nat /\ j \in Nat /\ q.ready[j] \in Streams
      BY <2>0, <2>3, SMTT(30)
    <3>3. passed[q.ready[j]] + j <= N /\ passed[q.ready[j]] \in Nat
      BY <2>0, <3>2, Zenon DEF PassedInv
    <3>4. PICK p \in Nat : p = passed[q.ready[j]]
      BY <3>3, Zenon
    <3>5. p + i <= N
      BY <2>0, <3>1, <3>2, <3>3, <3>4, SMTT(30)
    <3> QED BY <3>1, <3>4, <3>5, Zenon
  <2>5. \A i \in DOMAIN q'.ready : passed'[q'.ready[i]] + i <= N
    BY <2>1, <2>2, <2>4, Zenon
  <2>6. \A t \in Streams :
          t \notin Range(q'.ready) /\ ~st'[t].terminal /\ ~q'.closing => passed'[t] = 0
    BY <2>1, <2>2, <2>3, Zenon DEF PassedInv
  <2>7. \A t \in Streams : passed'[t] < N
    BY <2>1, Zenon DEF PassedInv
  <2> QED BY <2>0, <2>5, <2>6, <2>7, Zenon DEF PassedInv
\* PassedDispatch: the stream served goes to the end, those passed over move up.
<1>PassedDispatch.
    ASSUME CoreTypes, ReadyMatchesQueues, PassedInv,
           NEW i \in Nat, NEW s \in Streams, NEW k \in Nat, NEW f \in BOOLEAN,
           NEW b \in Seq(Chunks), Dispatch(i, s, k, f, b)
    PROVE  PassedInv'
  <2> USE <1>PassedDispatch
  <2>0. /\ q \in Queue /\ q.ready \in Seq(Streams) /\ N' = N /\ N \in Nat /\ N >= 1
        /\ passed \in [Streams -> Nat] /\ IsInjective(q.ready)
        /\ \A x \in Streams : q.byStream[x] # <<>> <=> x \in Range(q.ready)
    BY QueueFields, ReadyIsShort, ReadyFacts, Zenon DEF CoreTypes, N
  <2>1. PICK o : o = SubSeq(q.ready, i + 1, Len(q.ready)) \o SubSeq(q.ready, 1, i - 1)
    BY Zenon
  <2>2. /\ q'.ready = IF b = <<>> THEN o ELSE Append(o, s)
        /\ i \in DOMAIN q.ready /\ s = q.ready[i]
        /\ \A j \in 1..(i - 1) : ~Eligible(q, st, q.ready[j])
        /\ passed' = [t \in Streams |-> IF t \in CanSend \ {s} THEN passed[t] + 1 ELSE 0]
    BY <2>1, ZenonT(40) DEF Dispatch
  <2>3. i \in 1..Len(q.ready)
    BY <2>0, <2>2, SMTT(30)
  <2>4. o \in Seq(Streams) /\ \E from : RotatedBy(from, q.ready, i, o)
    BY <2>0, <2>1, <2>3, Rotated, Zenon
  <2>5. PICK from : RotatedBy(from, q.ready, i, o)
    BY <2>4, Zenon
  <2>6. IsInjective(o) /\ Range(o) = Range(q.ready) \ {s}
    <3>1. IsInjective(o)
      BY <2>0, <2>5, RotatedInjective, Zenon
    <3>2. Range(o) = Range(q.ready) \ {q.ready[i]}
      BY <2>0, <2>2, <2>5, RotatedRange, Zenon
    <3> QED BY <2>2, <3>1, <3>2, Zenon
  <2>7. PICK n \in Nat :
          /\ DOMAIN q.ready = 1..n /\ DOMAIN o = 1..(n - 1)
          /\ \A j \in 1..(n - 1) : o[j] = q.ready[from[j]] /\ from[j] \in 1..n /\ from[j] # i
          /\ \A j \in 1..(n - 1) : from[j] > i => from[j] = j + i
    BY <2>5, Zenon DEF RotatedBy
  <2>8. Len(o) <= N /\ Len(o) = n - 1 /\ n <= N
    <3>1. Len(o) <= N /\ Len(q.ready) <= N
      BY <2>0, <2>4, <2>6, ReadyIsShort, Zenon
    <3>2. Len(o) = n - 1 /\ Len(q.ready) = n
      <4>1. Len(q.ready) \in Nat /\ 1..Len(q.ready) = 1..n
        BY <2>0, <2>7, SMTT(30)
      <4>2. Len(o) \in Nat /\ 1..Len(o) = 1..(n - 1)
        BY <2>4, <2>7, SMTT(30)
      <4>3. n >= 1
        BY <2>2, <2>7, SMTT(30)
      <4> QED BY <4>1, <4>2, <4>3, SMTT(30)
    <3> QED BY <3>1, <3>2, Zenon
  <2>9. ASSUME NEW t \in CanSend, t # s
        PROVE  \E j \in 1..n : t = q.ready[j] /\ j > i
    <3>1. t \in Streams /\ t \in Range(q.ready) /\ Eligible(q, st, t)
      BY <2>0, <2>9, ZenonT(40) DEF CanSend
    <3>2. PICK j \in 1..n : t = q.ready[j]
      BY <2>7, <3>1, SMTT(30) DEF Range
    <3>3. j # i
      BY <2>2, <2>9, <3>2, Zenon
    <3>4. ~(j \in 1..(i - 1))
      BY <2>2, <3>1, <3>2, Zenon
    <3>5. j > i
      BY <3>3, <3>4, SMTT(30)
    <3> QED BY <3>2, <3>5, Zenon
  <2>10. \A t \in Streams : passed'[t] < N
    <3> SUFFICES ASSUME NEW t \in Streams PROVE passed'[t] < N
      BY Zenon
    <3>1. CASE t \in CanSend \ {s}
      <4>1. PICK j \in 1..n : t = q.ready[j] /\ j > i
        BY <2>9, <3>1, Zenon
      <4>2. passed[t] + j <= N /\ passed[t] \in Nat /\ passed'[t] = passed[t] + 1
        BY <2>0, <2>2, <2>7, <3>1, <4>1, ZenonT(40) DEF PassedInv
      <4>3. PICK p \in Nat : p = passed[t]
        BY <4>2, ZenonT(40)
      <4>4. p + j <= N /\ i >= 1
        BY <2>3, <4>2, <4>3, SMTT(30)
      <4>5. p + 1 < N
        BY <2>0, <4>1, <4>4, SMTT(30)
      <4> QED BY <4>2, <4>3, <4>5, Zenon
    <3>2. CASE t \notin CanSend \ {s}
      <4>1. passed'[t] = 0
        BY <2>2, <3>2, Zenon
      <4> QED BY <2>0, <4>1, SMTT(30)
    <3> QED BY <3>1, <3>2, Zenon
  <2>11. ASSUME NEW j \in 1..(n - 1) PROVE passed'[o[j]] + j <= N
    <3>1. PICK l \in 1..n : l = from[j] /\ o[j] = q.ready[l] /\ l # i /\ (l > i => l = j + i)
      BY <2>7, Zenon
    <3>2. o[j] \in Streams
      BY <2>4, <2>7, SMTT(30)
    <3>3. CASE o[j] \in CanSend \ {s}
      <4>1. PICK m \in 1..n : o[j] = q.ready[m] /\ m > i
        BY <2>9, <3>3, Zenon
      <4>2. m = l
        BY <2>0, <2>7, <3>1, <4>1, ZenonT(40) DEF IsInjective
      <4>3. passed[o[j]] + l <= N /\ passed[o[j]] \in Nat /\ passed'[o[j]] = passed[o[j]] + 1
        BY <2>0, <2>2, <2>7, <3>1, <3>2, <3>3, ZenonT(40) DEF PassedInv
      <4>4. PICK p \in Nat : p = passed[o[j]]
        BY <4>3, Zenon
      <4>5. l = j + i /\ p + l <= N /\ i >= 1
        <5>1. l > i
          BY <4>1, <4>2, Zenon
        <5>2. l = j + i
          BY <3>1, <5>1, Zenon
        <5>3. p + l <= N
          BY <4>3, <4>4, Zenon
        <5>4. i >= 1
          BY <2>3, SMTT(30)
        <5> QED BY <5>2, <5>3, <5>4, Zenon
      <4>6. (p + 1) + j <= N
        <5>1. N \in Nat
          BY <2>0, Zenon
        <5> QED BY <4>5, <5>1, SMTT(30)
      <4> QED BY <4>3, <4>4, <4>6, Zenon
    <3>4. CASE o[j] \notin CanSend \ {s}
      <4>1. passed'[o[j]] = 0
        BY <2>2, <3>2, <3>4, ZenonT(40)
      <4>2. j <= N
        BY <2>0, <2>8, SMTT(30)
      <4> QED BY <4>1, <4>2, SMTT(30)
    <3> QED BY <3>3, <3>4, Zenon
  <2>12. \A t \in Streams : t \notin Range(o) => passed'[t] = 0
    <3> SUFFICES ASSUME NEW t \in Streams, t \notin Range(o), t \in CanSend \ {s}
                 PROVE  FALSE
      BY <2>2, Zenon
    <3>1. t \in Range(q.ready)
      BY <2>0, Zenon DEF CanSend
    <3> QED BY <2>6, <3>1, Zenon
  <2>13. CASE b = <<>>
    <3>1. q'.ready = o
      BY <2>2, <2>13, Zenon
    <3> QED BY <2>0, <2>7, <2>10, <2>11, <2>12, <3>1, ZenonT(40) DEF PassedInv
  <2>14. CASE b # <<>>
    <3>1. q'.ready = Append(o, s)
      BY <2>2, <2>14, ZenonT(40)
    <3>2. /\ DOMAIN q'.ready = 1..n /\ q'.ready[n] = s
          /\ \A j \in 1..(n - 1) : q'.ready[j] = o[j]
      <4>1. n >= 1
        BY <2>2, <2>7, SMTT(30)
      <4> QED BY <2>4, <2>7, <2>8, <3>1, <4>1, SMTT(30)
    <3>3. passed'[s] = 0
      BY <2>2, Zenon
    <3>4. \A j \in DOMAIN q'.ready : passed'[q'.ready[j]] + j <= N
      <4> SUFFICES ASSUME NEW j \in 1..n PROVE passed'[q'.ready[j]] + j <= N
        BY <3>2, ZenonT(40)
      <4>1. CASE j = n
        BY <2>8, <3>2, <3>3, <4>1, SMTT(30)
      <4>2. CASE j # n
        <5>1. j \in 1..(n - 1)
          BY <4>2, SMTT(30)
        <5> QED BY <2>11, <3>2, <5>1, ZenonT(40)
      <4> QED BY <4>1, <4>2, Zenon
    <3>5. Range(o) \subseteq Range(q'.ready)
      BY <2>4, <3>1, ReadyAppend, ZenonT(40)
    <3> QED BY <2>0, <2>10, <2>12, <3>4, <3>5, ZenonT(40) DEF PassedInv
  <2> QED BY <2>13, <2>14, Zenon
<1>1. CASE Calm \/ StreamNews \/ Sent \/ Failed
  <2>1. q' = q /\ passed' = passed
    BY <1>1, Zenon DEF Calm, StreamNews, Sent, Failed, SameHistory
  <2>2. \A x \in Streams : st[x].terminal => st'[x].terminal
    BY <1>1, Zenon DEF Calm, StreamNews, Sent, Failed
  <2> QED BY <2>1, <2>2, <1>PassedSame, Zenon
<1>2. CASE \/ \E f \in Frames : Put(f)
           \/ ConnNews \/ CloseGracefully \/ TakeClose \/ TakeControlWork \/ GiveTurn
  <2>1. st' = st /\ passed' = passed /\ q'.ready = q.ready
    BY <1>2, Zenon DEF Put, ConnNews, CloseGracefully, TakeClose, TakeControlWork, GiveTurn,
                SameData, SameHistory
  <2>2. q.closing => q'.closing
    BY <1>2, ZenonT(40) DEF Put, ConnNews, CloseGracefully, TakeClose, TakeControlWork, GiveTurn, SameEnd
  <2> QED BY <2>1, <2>2, <1>PassedSame, Zenon
<1>3. CASE DropQueues
  <2>1. q'.ready = <<>> /\ q'.closing /\ passed' = passed /\ N' = N
    BY <1>3, Zenon DEF DropQueues, SameHistory, N
  <2> QED BY <2>1, SMTT(30) DEF PassedInv
<1>4. ASSUME NEW s \in Streams, NEW c \in Chunks, PutChunk(s, c) PROVE PassedInv'
  BY <1>4, <1>PassedChunk, Zenon
<1>5. ASSUME NEW s \in Streams, PutReset(s) PROVE PassedInv'
  BY <1>5, <1>PassedReset, Zenon
<1>6. ASSUME NEW i \in Nat, NEW s \in Streams, NEW k \in Nat, NEW f \in BOOLEAN,
             NEW b \in Seq(Chunks), Dispatch(i, s, k, f, b)
      PROVE  PassedInv'
  BY <1>6, <1>PassedDispatch, Zenon
<1> QED BY <1>1, <1>2, <1>3, <1>4, <1>5, <1>6, ZenonT(40) DEF Step

\* PassedInit: nobody has been passed over at first.
LEMMA PassedInit == ASSUME ReadyLaws, Init PROVE PassedInv
<1>1. q.ready = <<>> /\ passed = [s \in Streams |-> 0]
  BY Zenon DEF Init, InitQueues
<1>2. \A s \in Streams : passed[s] = 0 /\ 0 < N
  BY <1>1, ReadyIsShort, SMTT(30)
<1> QED BY <1>1, <1>2, SMTT(30) DEF PassedInv

-----------------------------------------------------------------------------
\* The sleep of the writer, and the remaining types.

\* SleepKeeps: every step that gives the writer work to do notifies it.
LEMMA SleepKeeps ==
  ASSUME ReadyLaws, CoreTypes, FlagTypes, ReadyMatchesQueues, SleepInv, [Next]_vars
  PROVE  SleepInv'
\* A notification wakes the writer or waits for its poll.
<1>Told. ASSUME NotifyOne \/ NotifyWaiters, pc' = pc PROVE SleepInv'
  <2>1. pc' = "wait" => woken'
    <3>1. NotifyWaiters => (pc = "wait" => woken')
      BY Zenon DEF NotifyWaiters
    <3>2. NotifyOne => (pc = "wait" => woken')
      BY Zenon DEF NotifyOne, FlagTypes
    <3> QED BY <1>Told, <3>1, <3>2, Zenon
  <2>2. pc' = "poll" => permit' \/ woken'
    BY <1>Told, Zenon DEF NotifyOne, NotifyWaiters
  <2> QED BY <2>1, <2>2, Zenon DEF SleepInv
<1>Busy. ASSUME pc' \notin {"wait", "poll"} PROVE SleepInv'
  BY <1>Busy, Zenon DEF SleepInv
\* What next_frame looks at is unchanged, or an update is no longer due.
<1>Quiet. ASSUME UNCHANGED <<q, connDue>>, due' \subseteq due,
                 \A x \in Streams : st'[x].sent = st[x].sent /\ st'[x].peerLimit = st[x].peerLimit
          PROVE  Idle => Idle'
  <2>1. ASSUME NEW x \in Streams PROVE Eligible(q, st', x) <=> Eligible(q, st, x)
    BY <1>Quiet, Zenon DEF Eligible, Count, StreamCredit
  <2>2. CanSend = {} => CanSend' = {}
    BY <1>Quiet, <2>1, Zenon DEF CanSend
  <2>3. ControlWaits' => ControlWaits
    BY <1>Quiet, Zenon DEF ControlWaits
  <2> QED BY <1>Quiet, <2>2, <2>3, Zenon DEF Idle
<1>Still. ASSUME UNCHANGED <<q, connDue, pc, permit, woken>>, due' \subseteq due,
                 \A x \in Streams : st'[x].sent = st[x].sent /\ st'[x].peerLimit = st[x].peerLimit
          PROVE  SleepInv'
  BY <1>Still, <1>Quiet, Zenon DEF SleepInv
<1>Took. ASSUME NEW f, Return(f) PROVE SleepInv'
  BY <1>Took, <1>Busy, Zenon DEF Return
<1>1. CASE Wait
  <2>1. CanSend = {}
    <3>1. q.ready \in Seq(Streams)
      BY QueueFields, Zenon DEF CoreTypes
    <3>2. \A s \in Range(q.ready) : ~Eligible(q, st, s)
      BY <1>1, <3>1, NoneEligible, Zenon DEF Wait
    <3>3. \A s \in Streams : q.byStream[s] # <<>> => s \in Range(q.ready)
      BY ReadyFacts, Zenon DEF CoreTypes
    <3> QED BY <3>2, <3>3, Zenon DEF CanSend
  <2>2. Idle
    BY <1>1, <2>1, Zenon DEF Wait, Idle, ControlDone, ControlFirst
  <2>3. pc' = "poll" /\ UNCHANGED <<q, st, connDue, due>>
    BY <1>1, Zenon DEF Wait, windows
  <2>4. Idle'
    BY <1>Quiet, <2>2, <2>3, Zenon
  <2> QED BY <2>3, <2>4, Zenon DEF SleepInv
<1>2. CASE Poll
  <2>1. UNCHANGED <<q, st, connDue, due, woken>>
    BY <1>2, Zenon DEF Poll, windows
  <2>2. Idle => Idle'
    BY <1>Quiet, <2>1, Zenon
  <2> QED BY <1>2, <2>1, <2>2, Zenon DEF Poll, SleepInv
<1>3. CASE Arm \/ Woken \/ PassTurn \/ SendDone \/ SendBreak
  BY <1>3, <1>Busy, Zenon DEF Arm, Woken, PassTurn, SendDone, SendBreak
<1>4. CASE NextErrorClose \/ NextControl \/ NextMaxData \/ NextData \/ NextGracefulClose
           \/ \E s \in Streams : NextMaxStreamData(s)
  BY <1>4, <1>Took, Zenon DEF NextErrorClose, NextControl, NextMaxData, NextData,
                       NextGracefulClose, NextMaxStreamData
<1>5. CASE \/ \E code \in {0, 1} : InitiateClose(code)
           \/ Abort \/ MarkClosed \/ ConnCreditDue
           \/ RecvSettings(InitialConn, InitialStream) \/ \E m \in ConnLimits : RecvMaxData(m)
  BY <1>5, <1>Told, Zenon DEF InitiateClose, Abort, MarkClosed, ConnCreditDue, RecvSettings,
                       RecvMaxData
<1>6. ASSUME NEW s \in Streams,
             \/ OpenBi(s) \/ Write(s) \/ ResetStream(s) \/ StreamCreditDue(s)
             \/ \E m \in StreamLimits : RecvMaxStreamData(s, m)
      PROVE  SleepInv'
  BY <1>6, <1>Told, Zenon DEF OpenBi, Write, SendChunk, ResetStream, StreamCreditDue,
                       RecvMaxStreamData
<1>7. ASSUME NEW s \in Streams, RemoteOpen(s) \/ PeerEnds(s) \/ DropSend(s) \/ DropRecv(s)
      PROVE  SleepInv'
  <2>1. UNCHANGED <<q, st, connDue, pc, permit, woken>> /\ due' \subseteq due
    BY <1>7, Zenon DEF RemoteOpen, PeerEnds, DropSend, DropRecv, Retire, windows, notify
  <2> QED BY <1>Still, <2>1, Zenon
<1>8. ASSUME NEW s \in Streams, StopSending(s)
      PROVE  SleepInv'
  <2>1. CASE NotifyOne
    BY <1>8, <1>Told, <2>1, ZenonT(40) DEF StopSending
  <2>2. CASE UNCHANGED <<q, notify>>
    <3>1. UNCHANGED <<q, st, connDue, pc, permit, woken>> /\ due' \subseteq due
      BY <1>8, <2>2, Zenon DEF StopSending, Retire, notify
    <3> QED BY <1>Still, <3>1, Zenon
  <2> QED BY <1>8, <2>1, <2>2, Zenon DEF StopSending
<1>9. ASSUME NEW s \in Streams, FinishStore(s)
      PROVE  SleepInv'
  <2>1. UNCHANGED <<q, connDue, pc, permit, woken, due>>
    BY <1>9, Zenon DEF FinishStore, windows, notify
  <2>2. st \in [Streams -> SendState] /\ st' = [st EXCEPT ![s].terminal = TRUE]
    BY <1>9, Zenon DEF FinishStore, CoreTypes
  <2>3. \A x \in Streams : st'[x].sent = st[x].sent /\ st'[x].peerLimit = st[x].peerLimit
    BY <2>2, TerminalFields, SMTT(30)
  <2> QED BY <1>Still, <2>1, <2>3, Zenon
<1>10. CASE KeepAlive
  <2>1. CASE NotifyOne
    BY <1>10, <1>Told, <2>1, Zenon DEF KeepAlive
  <2>2. CASE q' = q /\ UNCHANGED notify
    <3>1. UNCHANGED <<q, st, connDue, due, pc, permit, woken>>
      BY <1>10, <2>2, ZenonT(40) DEF KeepAlive, windows, notify
    <3> QED BY <1>Still, <3>1, Zenon
  <2> QED BY <1>10, <2>1, <2>2, Zenon DEF KeepAlive
<1>11. CASE UNCHANGED vars
  <2>1. UNCHANGED <<q, st, connDue, due, pc, permit, woken>>
    BY <1>11, Zenon DEF vars, windows, notify
  <2> QED BY <1>Still, <2>1, Zenon
<1>12. \/ UNCHANGED vars \/ NextFrame \/ SendDone \/ SendBreak \/ Produce \/ Finish
  BY Zenon DEF Next
<1> QED
  BY <1>1, <1>2, <1>3, <1>4, <1>5, <1>6, <1>7, <1>8, <1>9, <1>10, <1>11, <1>12, ZenonT(40)
  DEF NextFrame, Produce, Finish

\* FlagsKeep: every step keeps the types of flags and counters.
LEMMA FlagsKeep == ASSUME FlagTypes, [Next]_vars PROVE FlagTypes'
<1>Told. ASSUME NotifyOne \/ NotifyWaiters PROVE permit' \in BOOLEAN /\ woken' \in BOOLEAN
  BY <1>Told, Zenon DEF NotifyOne, NotifyWaiters, FlagTypes
<1>Same. ASSUME UNCHANGED <<life, connDue, dues, pings, pc>>,
                permit' \in BOOLEAN, woken' \in BOOLEAN
         PROVE  FlagTypes'
  BY <1>Same, Zenon DEF FlagTypes, life
<1>Took. ASSUME NEW f, Return(f), connDue' \in BOOLEAN, pings' = pings PROVE FlagTypes'
  BY <1>Took, Zenon DEF Return, FlagTypes, life, notify
<1>1. CASE Wait \/ Poll \/ Arm \/ Woken \/ PassTurn \/ SendBreak \/ UNCHANGED vars
  <2>1. /\ UNCHANGED <<life, connDue, dues, pings>>
        /\ permit' \in {permit, FALSE} /\ woken' \in {woken, FALSE}
        /\ pc' \in {pc, "arm", "eval", "poll", "wait", "done"}
    BY <1>1, ZenonT(40)
    DEF Wait, Poll, Arm, Woken, PassTurn, SendBreak, vars, windows, notify, bound
  <2> QED BY <2>1, ZenonT(40) DEF FlagTypes, life
<1>2. CASE SendDone
  <2>1. UNCHANGED <<life, connDue, dues, pings, permit, woken>> /\ pc' \in {"arm", "done"}
    BY <1>2, Zenon DEF SendDone, notify, bound
  <2> QED BY <2>1, Zenon DEF FlagTypes, life
<1>4. CASE NextErrorClose \/ NextControl \/ NextMaxData \/ NextData \/ NextGracefulClose
           \/ \E s \in Streams : NextMaxStreamData(s)
  <2>1. connDue' \in BOOLEAN /\ \E f : Return(f)
    BY <1>4, Zenon DEF NextErrorClose, NextControl, NextMaxData, NextData,
                NextGracefulClose, NextMaxStreamData, FlagTypes
  <2> QED BY <1>Took, <2>1, Zenon DEF Return, bound
<1>5. CASE \/ \E code \in {0, 1} : InitiateClose(code)
           \/ Abort \/ MarkClosed
  <2>1. /\ closed' \in BOOLEAN /\ terminated' \in BOOLEAN /\ cleaned' \in BOOLEAN
        /\ NotifyWaiters /\ UNCHANGED <<connDue, dues, pings, pc>>
    BY <1>5, Zenon DEF InitiateClose, Abort, MarkClosed, FlagTypes, windows, bound
  <2> QED BY <1>Told, <2>1, Zenon DEF FlagTypes
<1>6. CASE \/ RecvSettings(InitialConn, InitialStream) \/ \E m \in ConnLimits : RecvMaxData(m)
           \/ \E s \in Streams :
                \/ OpenBi(s) \/ Write(s) \/ ResetStream(s)
                \/ \E m \in StreamLimits : RecvMaxStreamData(s, m)
  <2>1. NotifyOne /\ UNCHANGED <<life, connDue, dues, pings, pc>>
    BY <1>6, ZenonT(40) DEF OpenBi, Write, SendChunk, ResetStream, RecvMaxStreamData, RecvSettings,
                RecvMaxData, windows, bound
  <2> QED BY <1>Told, <1>Same, <2>1, ZenonT(40)
<1>7. CASE ConnCreditDue \/ \E s \in Streams : StreamCreditDue(s)
  <2>1. /\ NotifyOne /\ UNCHANGED <<life, pings, pc>> /\ connDue' \in BOOLEAN
        /\ dues < MaxDues /\ dues' = dues + 1
    BY <1>7, Zenon DEF ConnCreditDue, StreamCreditDue, bound, FlagTypes
  <2>2. permit' \in BOOLEAN /\ woken' \in BOOLEAN
    BY <1>Told, <2>1, ZenonT(40)
  <2>3. dues' \in 0..MaxDues
    BY <2>1, WriterAssumption, SMTT(30) DEF FlagTypes
  <2> QED BY <2>1, <2>2, <2>3, Zenon DEF FlagTypes, life
<1>8. ASSUME NEW s \in Streams,
             \/ RemoteOpen(s) \/ PeerEnds(s) \/ DropSend(s) \/ DropRecv(s) \/ StopSending(s)
             \/ FinishStore(s)
      PROVE  FlagTypes'
  <2>1. UNCHANGED <<life, connDue, dues, pings, pc>> /\ (NotifyOne \/ UNCHANGED notify)
    BY <1>8, Zenon DEF RemoteOpen, PeerEnds, DropSend, DropRecv, StopSending, FinishStore, windows,
                bound
  <2>2. permit' \in BOOLEAN /\ woken' \in BOOLEAN
    BY <1>Told, <2>1, Zenon DEF notify, FlagTypes
  <2> QED BY <1>Same, <2>1, <2>2, Zenon
<1>9. CASE KeepAlive
  <2>1. /\ UNCHANGED <<life, connDue, dues, pc>> /\ (NotifyOne \/ UNCHANGED notify)
        /\ pings < MaxPings /\ pings' = pings + 1
    BY <1>9, Zenon DEF KeepAlive, windows
  <2>2. permit' \in BOOLEAN /\ woken' \in BOOLEAN
    BY <1>Told, <2>1, ZenonT(40) DEF notify, FlagTypes
  <2>3. pings' \in 0..MaxPings
    BY <2>1, WriterAssumption, SMTT(30) DEF FlagTypes
  <2> QED BY <2>1, <2>2, <2>3, Zenon DEF FlagTypes, life
<1>10. \/ UNCHANGED vars \/ NextFrame \/ SendDone \/ SendBreak \/ Produce \/ Finish
  BY Zenon DEF Next
<1> QED
  BY <1>1, <1>2, <1>4, <1>5, <1>6, <1>7, <1>8, <1>9, <1>10, ZenonT(40)
  DEF NextFrame, Produce, Finish

\* MapKeeps: every step keeps the types of the sets of streams; a stream that leaves
\* the map has no window update due.
LEMMA MapKeeps == ASSUME MapTypes, [Next]_vars PROVE MapTypes'
<1>Same. ASSUME UNCHANGED <<map, fins, recvTerminal, stopping, discarded>>, due' \subseteq due
         PROVE  MapTypes'
  BY <1>Same, Zenon DEF MapTypes, map
\* A stream that leaves the map has no update due.
<1>Retired. ASSUME NEW s, Retire(s), fins' = fins, ids' = ids,
                   complete' \subseteq ids, recvTerminal' \subseteq ids,
                   stopping' \subseteq discarded', discarded' \subseteq ids
            PROVE  MapTypes'
  <2>1. /\ streams' \subseteq streams /\ held' \subseteq held
        /\ streams \subseteq streams' \cup recvTerminal'
        /\ due' = due \ (recvTerminal' \cup discarded')
    BY <1>Retired, Zenon DEF Retire
  <2>2. due' \subseteq streams'
    BY <2>1, Zenon DEF MapTypes
  <2> QED BY <1>Retired, <2>1, <2>2, Zenon DEF MapTypes
<1>1. CASE Wait \/ Poll \/ Arm \/ Woken \/ PassTurn \/ SendBreak \/ UNCHANGED vars
  BY <1>1, <1>Same, Zenon DEF Wait, Poll, Arm, Woken, PassTurn, SendBreak, vars, windows
<1>2. CASE SendDone
  <2>1. /\ complete' \subseteq ids /\ UNCHANGED <<ids, fins, recvTerminal, stopping, discarded>>
        /\ Retire(frame.id) \/ UNCHANGED <<streams, held, due>>
    BY <1>2, Zenon DEF SendDone, MapTypes
  <2>2. CASE UNCHANGED <<streams, held, due>>
    BY <2>1, <2>2, Zenon DEF MapTypes
  <2>3. CASE Retire(frame.id)
    BY <2>1, <2>3, <1>Retired, Zenon DEF MapTypes
  <2> QED BY <2>1, <2>2, <2>3, Zenon
<1>4. CASE NextErrorClose \/ NextControl \/ NextMaxData \/ NextData \/ NextGracefulClose
           \/ \E s \in Streams : NextMaxStreamData(s)
  <2>1. due' \subseteq due /\ \E f : Return(f)
    BY <1>4, Zenon DEF NextErrorClose, NextControl, NextMaxData, NextData,
                NextGracefulClose, NextMaxStreamData
  <2> QED BY <1>Same, <2>1, Zenon DEF Return
<1>5. CASE \/ \E code \in {0, 1} : InitiateClose(code)
           \/ Abort \/ KeepAlive \/ ConnCreditDue
           \/ RecvSettings(InitialConn, InitialStream) \/ \E m \in ConnLimits : RecvMaxData(m)
  BY <1>5, <1>Same, Zenon DEF InitiateClose, Abort, KeepAlive, ConnCreditDue, RecvSettings,
                       RecvMaxData, windows
<1>6. CASE MarkClosed
  BY <1>6, Zenon DEF MarkClosed, MapTypes
<1>7. ASSUME NEW s \in Streams,
             \/ ResetStream(s) \/ FinishStore(s)
             \/ \E m \in StreamLimits : RecvMaxStreamData(s, m)
      PROVE  MapTypes'
  BY <1>7, <1>Same, Zenon DEF ResetStream, FinishStore, RecvMaxStreamData, windows
<1>8. ASSUME NEW s \in Streams, OpenBi(s) \/ RemoteOpen(s)
      PROVE  MapTypes'
  BY <1>8, Zenon DEF OpenBi, RemoteOpen, Insert, MapTypes, windows
<1>9. ASSUME NEW s \in Streams, Write(s)
      PROVE  MapTypes'
  BY <1>9, Zenon DEF Write, SendChunk, MapTypes, map, windows
<1>10. ASSUME NEW s \in Streams, StreamCreditDue(s)
       PROVE  MapTypes'
  BY <1>10, Zenon DEF StreamCreditDue, MapTypes, map
<1>11. ASSUME NEW s \in Streams, PeerEnds(s) \/ DropSend(s) \/ DropRecv(s) \/ StopSending(s)
       PROVE  MapTypes'
  <2>1. /\ Retire(s) /\ fins' = fins /\ ids' = ids /\ complete' = complete
        /\ recvTerminal' \subseteq ids /\ discarded' \subseteq ids
    BY <1>11, Zenon DEF PeerEnds, DropSend, DropRecv, StopSending, MapTypes
  <2>2. stopping' \subseteq discarded'
    BY <1>11, Zenon DEF PeerEnds, DropSend, DropRecv, StopSending, MapTypes
  <2>3. complete' \subseteq ids
    BY <2>1, Zenon DEF MapTypes
  <2> QED BY <1>Retired, <2>1, <2>2, <2>3, ZenonT(40)
<1>12. \/ UNCHANGED vars \/ NextFrame \/ SendDone \/ SendBreak \/ Produce \/ Finish
  BY Zenon DEF Next
<1> QED
  BY <1>1, <1>2, <1>4, <1>5, <1>6, <1>7, <1>8, <1>9, <1>10, <1>11, <1>12, ZenonT(40)
  DEF NextFrame, Produce, Finish

\* RestInit: a new connection has these types, and its writer is not asleep.
LEMMA RestInit == ASSUME Init PROVE FlagTypes /\ MapTypes /\ SleepInv
<1>1. FlagTypes
  <2>1. /\ closed = FALSE /\ terminated = FALSE /\ cleaned = FALSE /\ connDue = FALSE
        /\ permit = FALSE /\ woken = FALSE /\ pc = "arm" /\ pings = 0 /\ dues = 0
    BY Zenon DEF Init
  <2>2. 0 \in 0..MaxPings /\ 0 \in 0..MaxDues
    BY WriterAssumption, SMTT(30)
  <2> QED BY <2>1, <2>2, Zenon DEF FlagTypes
<1>2. MapTypes
  BY Zenon DEF Init, MapTypes
<1>3. SleepInv
  BY Zenon DEF Init, SleepInv
<1> QED BY <1>1, <1>2, <1>3, Zenon

-----------------------------------------------------------------------------
(* The laws, and the theorems. *)

INSTANCE DataLemmas

\* QueuedEmpty: no chunk, no byte.
LEMMA QueuedEmpty == Queued(<<>>) = 0
<1>1. DOMAIN [i \in DOMAIN <<>> |-> <<>>[i].len] = {}
  BY SMTT(30)
<1> QED BY <1>1, SumEmpty, ZenonT(40) DEF Queued, SumFunction

\* QueuedNat: the bytes of chunks are a number.
LEMMA QueuedNat == ASSUME NEW b \in Seq(Chunks) PROVE Queued(b) \in Nat
<1> DEFINE f == [i \in DOMAIN b |-> b[i].len]
<1>1. Len(b) \in Nat /\ DOMAIN b = 1..Len(b) /\ \A i \in 1..Len(b) : b[i] \in Chunks
  BY SMTT(30)
<1>2. IsFiniteSet(1..Len(b)) /\ DOMAIN f = 1..Len(b) /\ \A i \in 1..Len(b) : f[i] \in Nat
  BY <1>1, FS_Interval, SMTT(30) DEF Chunks
<1>3. SumFunctionOnSet(f, 1..Len(b)) \in Nat
  BY <1>2, SumNat, ZenonT(40)
<1> QED BY <1>2, <1>3, ZenonT(40) DEF Queued, SumFunction

\* QueuedAppend: enqueue_data adds the bytes of its chunk.
LEMMA QueuedAppend ==
  ASSUME NEW b \in Seq(Chunks), NEW c \in Chunks
  PROVE  Queued(Append(b, c)) = Queued(b) + c.len
<1> DEFINE f == [i \in DOMAIN b |-> b[i].len]
           a == Append(b, c)
           h == [i \in DOMAIN a |-> a[i].len]
           n == Len(b)
<1>1. n \in Nat /\ DOMAIN b = 1..n /\ \A i \in 1..n : b[i] \in Chunks
  BY SMTT(30)
<1>2. DOMAIN a = 1..(n + 1) /\ a[n + 1] = c /\ \A i \in 1..n : a[i] = b[i]
  BY SMTT(30)
<1>3. DOMAIN f = 1..n /\ \A i \in 1..n : f[i] \in Nat
  BY <1>1, ZenonT(40) DEF Chunks
<1> HIDE DEF a, n
<1>4. DOMAIN h = 1..(n + 1) /\ h[n + 1] = c.len /\ \A i \in 1..n : h[i] = f[i]
  BY <1>1, <1>2, SMTT(30)
<1>5. c.len \in Nat
  BY Zenon DEF Chunks
<1> HIDE DEF f, h
<1>6. SumFunctionOnSet(h, 1..(n + 1)) = SumFunctionOnSet(f, 1..n) + h[n + 1]
  BY <1>1, <1>3, <1>4, <1>5, SumAppend, ZenonT(40)
<1> QED BY <1>3, <1>4, <1>6, ZenonT(40) DEF Queued, SumFunction, f, h, a

\* QueuedTail: pop_front takes the bytes of the first chunk.
LEMMA QueuedTail ==
  ASSUME NEW b \in Seq(Chunks), b # <<>>
  PROVE  Queued(b) = Head(b).len + Queued(Tail(b))
<1> DEFINE f == [i \in DOMAIN b |-> b[i].len]
           t == Tail(b)
           h == [i \in DOMAIN t |-> t[i].len]
           n == Len(b) - 1
<1>1. /\ n \in Nat /\ DOMAIN b = 1..(n + 1) /\ Head(b) = b[1]
      /\ \A i \in 1..(n + 1) : b[i] \in Chunks
  BY SMTT(30)
<1>2. DOMAIN t = 1..n /\ \A i \in 1..n : t[i] = b[i + 1]
  BY SMTT(30)
<1>3. DOMAIN f = 1..(n + 1) /\ f[1] = Head(b).len /\ \A i \in 1..(n + 1) : f[i] \in Nat
  BY <1>1, SMTT(30) DEF Chunks
<1>4. DOMAIN h = 1..n /\ \A i \in 1..n : h[i] = f[i + 1]
  <2> HIDE DEF t, n
  <2> QED BY <1>1, <1>2, SMTT(30)
<1> HIDE DEF f, h, t, n
<1>5. SumFunctionOnSet(f, 1..(n + 1)) = f[1] + SumFunctionOnSet(h, 1..n)
  BY <1>1, <1>3, <1>4, SumShift, ZenonT(40)
<1> QED BY <1>3, <1>4, <1>5, ZenonT(40) DEF Queued, SumFunction, f, h, t

\* QueuedRest: a dispatch of k bytes leaves the others.
LEMMA QueuedRest ==
  ASSUME NEW b \in Seq(Chunks), b # <<>>, NEW k \in Nat, k <= Head(b).len
  PROVE  Queued(Rest(b, k)) + k = Queued(b)
<1>0. /\ Head(b) = b[1] /\ b[1] \in Chunks /\ Tail(b) \in Seq(Chunks) /\ Rest(b, k) \in Seq(Chunks)
      /\ Len(b) \in Nat /\ Len(b) >= 1
  <2>1. Rest(b, k) \in Seq(Chunks)
    BY RestChunks, ZenonT(40)
  <2>2. /\ Head(b) = b[1] /\ b[1] \in Chunks /\ Tail(b) \in Seq(Chunks)
        /\ Len(b) \in Nat /\ Len(b) >= 1
    BY SMTT(30)
  <2> QED BY <2>1, <2>2, ZenonT(40)
<1>1. CASE Head(b).len = k
  <2>1. Queued(b) = Head(b).len + Queued(Tail(b)) /\ Rest(b, k) = Tail(b)
    BY <1>1, QueuedTail, RestChunks, ZenonT(40)
  <2>2. Queued(Tail(b)) \in Nat
    BY <1>0, QueuedNat, ZenonT(40)
  <2> QED BY <1>1, <2>1, <2>2, SMTT(30)
<1>2. CASE Head(b).len # k
  <2> DEFINE f == [i \in DOMAIN b |-> b[i].len]
             r == Rest(b, k)
             h == [i \in DOMAIN r |-> r[i].len]
             n == Len(b)
  <2>1. /\ Len(r) = n /\ r[1] = [len |-> Head(b).len - k, fin |-> Head(b).fin]
        /\ \A i \in 2..n : r[i] = b[i]
    BY <1>2, RestChunks, ZenonT(40)
  <2>2. DOMAIN r = 1..n /\ DOMAIN b = 1..n /\ n \in Nat /\ 1 \in 1..n
    BY <1>0, <2>1, SMTT(30)
  <2>3. \A i \in 1..n : b[i] \in Chunks /\ r[i] \in Chunks
    BY <1>0, <2>2, SMTT(30)
  <2>4. \A i \in (1..n) \ {1} : r[i] = b[i]
    BY <2>1, <2>2, SMTT(30)
  <2>5. r[1].len = Head(b).len - k
    BY <2>1, SMTT(30)
  <2> HIDE DEF r, n
  <2>6. /\ DOMAIN f = 1..n /\ DOMAIN h = 1..n /\ f[1] = Head(b).len /\ h[1] = r[1].len
        /\ \A i \in (1..n) \ {1} : f[i] = h[i]
    BY <1>0, <2>2, <2>4, ZenonT(40)
  <2>7. \A i \in 1..n : f[i] \in Nat
    BY <2>2, <2>3, ZenonT(40) DEF Chunks
  <2>8. \A i \in 1..n : h[i] \in Nat
    BY <2>2, <2>3, ZenonT(40) DEF Chunks
  <2>9. IsFiniteSet(1..n)
    BY <2>2, FS_Interval, SMTT(30)
  <2> HIDE DEF f, h
  <2>10. SumFunctionOnSet(h, 1..n) + f[1] = SumFunctionOnSet(f, 1..n) + h[1]
    <3>1. \A i \in (1..n) \ {1} : f[i] = h[i]
      BY <2>6, ZenonT(40)
    <3>2. 1 \in 1..n
      BY <2>2, ZenonT(40)
    <3> DEFINE S == 1..n
               u == 1
    <3>3. /\ \A i \in S \ {u} : f[i] = h[i]
          /\ \A i \in S : f[i] \in Nat
          /\ \A i \in S : h[i] \in Nat
      BY <2>7, <2>8, <3>1, ZenonT(40)
    <3>4. IsFiniteSet(S) /\ u \in S
      BY <2>9, <3>2, ZenonT(40)
    <3> HIDE DEF S, u
    <3>5. SumFunctionOnSet(h, S) + f[u] = SumFunctionOnSet(f, S) + h[u]
      BY <3>3, <3>4, SumChange, SMTT(30)
    <3> QED BY <3>5, ZenonT(40) DEF S, u
  <2>11. Queued(r) + Head(b).len = Queued(b) + (Head(b).len - k)
    BY <2>5, <2>6, <2>10, ZenonT(40) DEF Queued, SumFunction, f, h
  <2>12. Queued(r) \in Nat /\ Queued(b) \in Nat /\ Head(b).len \in Nat
    BY <1>0, QueuedNat, ZenonT(40) DEF r, Chunks
  <2>13. Queued(r) + k = Queued(b)
    <3>1. PICK x \in Nat, y \in Nat, z \in Nat : x = Queued(r) /\ y = Queued(b) /\ z = Head(b).len
      BY <2>12, ZenonT(40)
    <3>2. x + z = y + (z - k)
      BY <2>11, <3>1, ZenonT(40)
    <3>3. x + k = y
      BY <3>2, SMTT(30)
    <3> QED BY <3>1, <3>3, ZenonT(40)
  <2> QED BY <2>13, ZenonT(40) DEF r
<1> QED BY <1>1, <1>2, ZenonT(40)

\* StreamsCount: the number of streams.
LEMMA StreamsCount ==
  /\ N \in Nat
  /\ \A s \in Streams : N >= 1
<1>1. N \in Nat
  BY QueueAssumption, FS_CardinalityType, ZenonT(40) DEF N
<1>2. Streams # {} => N # 0
  BY QueueAssumption, FS_EmptySet, ZenonT(40) DEF N
<1> QED BY <1>1, <1>2, SMTT(30)

\* StreamsBound: a list of streams without duplicates is not longer than the number of
\* streams.
LEMMA StreamsBound ==
  ASSUME NEW r \in Seq(Streams), IsInjective(r)
  PROVE  Len(r) <= N
<1>1. PICK n \in Nat : n = Len(r) /\ r \in [1..n -> Streams]
  BY SMTT(30)
<1>2. r \in Injection(1..n, Streams)
  BY <1>1, ZenonT(40) DEF Injection
<1>3. Cardinality(1..n) <= Cardinality(Streams)
  BY <1>2, QueueAssumption, FS_Injection, ZenonT(40)
<1>4. Cardinality(1..n) = n
  <2>1. 1 \in Int /\ n \in Int
    BY SMTT(30)
  <2>2. Cardinality(1..n) = IF 1 > n THEN 0 ELSE n - 1 + 1
    BY <2>1, FS_Interval, ZenonT(40)
  <2> QED BY <2>2, SMTT(30)
<1> QED BY <1>1, <1>3, <1>4, ZenonT(40) DEF N

\* Laws: the laws that WriterSteps uses.
LEMMA Laws == ReadyLaws /\ CreditLaws /\ ChunkLaws
<1>1. ReadyLaws
  <2>1. \A T \in SUBSET Nat : T # {} => \E m \in T : \A k \in T : m <= k
    BY LeastNumber, ZenonT(40)
  <2>2. \A d \in Seq(Streams), e \in Streams :
          /\ Append(d, e) \in Seq(Streams)
          /\ Range(Append(d, e)) = Range(d) \cup {e}
          /\ IsInjective(d) /\ e \notin Range(d) => IsInjective(Append(d, e))
    BY RangeAppend, ZenonT(40)
  <2>3. ASSUME NEW d \in Seq(Streams), NEW e \in Streams, IsInjective(d)
        PROVE  /\ Without(d, e) \in Seq(Streams)
               /\ IsInjective(Without(d, e))
               /\ Range(Without(d, e)) = Range(d) \ {e}
               /\ \A i \in DOMAIN Without(d, e) :
                    \E j \in DOMAIN d : i <= j /\ Without(d, e)[i] = d[j]
    BY <2>3, RangeWithout, SMTT(30)
  <2> QED BY <2>1, <2>2, <2>3, StreamsCount, StreamsBound, ZenonT(40) DEF ReadyLaws
<1>2. CreditLaws
  <2> SUFFICES ASSUME NEW f, NEW g, \A x \in Streams : f[x] \in Nat /\ g[x] \in Nat
               PROVE  /\ SumFunctionOnSet(g, Streams) \in Nat
                      /\ \A s \in Streams : (\A x \in Streams \ {s} : f[x] = g[x]) =>
                           SumFunctionOnSet(g, Streams) + f[s]
                             = SumFunctionOnSet(f, Streams) + g[s]
    BY ZenonT(40) DEF CreditLaws
  <2>1. SumFunctionOnSet(g, Streams) \in Nat
    BY SumNat, QueueAssumption, ZenonT(40)
  <2>2. ASSUME NEW s \in Streams, \A x \in Streams \ {s} : f[x] = g[x]
        PROVE  SumFunctionOnSet(g, Streams) + f[s] = SumFunctionOnSet(f, Streams) + g[s]
    <3>1. IsFiniteSet(Streams) /\ (\A x \in Streams : f[x] \in Nat)
          /\ (\A x \in Streams : g[x] \in Nat) /\ (\A y \in Streams \ {s} : f[y] = g[y])
      BY <2>2, QueueAssumption, ZenonT(40)
    <3> QED BY <3>1, SumChange, SMTT(30)
  <2> QED BY <2>1, <2>2, ZenonT(40)
<1>3. ChunkLaws
  BY QueuedEmpty, QueuedNat, QueuedAppend, QueuedRest, ZenonT(40) DEF ChunkLaws
<1> QED BY <1>1, <1>2, <1>3, ZenonT(40)

\* CreditInit: nothing is sent at first.
LEMMA CreditInit == ASSUME Init PROVE CreditInv
<1>1. /\ q.sent = 0 /\ q.peerLimit = 0 /\ q.initialLimit = 0
      /\ \A s \in Streams : st[s].sent = 0 /\ st[s].peerLimit = 0
  BY ZenonT(40) DEF Init, InitQueues, InitStream
<1>2. SumFunction([s \in Streams |-> st[s].sent]) = 0
  <2> DEFINE f == [s \in Streams |-> st[s].sent]
  <2>1. \A s \in Streams : f[s] \in Nat /\ f[s] <= 0
    BY <1>1, SMTT(30)
  <2>2. SumFunction(f) = SumFunctionOnSet(f, Streams)
    BY ZenonT(40) DEF SumFunction
  <2> HIDE DEF f
  <2>3. SumFunctionOnSet(f, Streams) <= Cardinality(Streams) * 0
    BY <2>1, SumAtMost, QueueAssumption, ZenonT(40)
  <2>4. SumFunctionOnSet(f, Streams) \in Nat /\ Cardinality(Streams) \in Nat
    BY <2>1, SumNat, QueueAssumption, FS_CardinalityType, ZenonT(40)
  <2>5. SumFunctionOnSet(f, Streams) = 0
    <3>1. PICK n \in Nat, m \in Nat : n = SumFunctionOnSet(f, Streams) /\ m = Cardinality(Streams)
      BY <2>4, ZenonT(40)
    <3>2. n <= m * 0 /\ m * 0 = 0
      BY <2>3, <3>1, SMTT(30)
    <3> QED BY <3>1, <3>2, SMTT(30)
  <2> QED BY <2>2, <2>5, ZenonT(40) DEF f
<1> QED BY <1>1, <1>2, SMTT(30) DEF CreditInv, CreditRespected, Max2

\* ReadyListsTheQueues: the ready list holds exactly the streams with queued chunks,
\* each once, for any number of streams: no stream's data is forgotten by next_frame,
\* and none is served twice a turn.
THEOREM ReadyListsTheQueues == Spec => []ReadyMatchesQueues
<1>1. Init => CoreTypes /\ ReadyMatchesQueues
  BY CoreInit, ZenonT(40)
<1>2. CoreTypes /\ ReadyMatchesQueues /\ [Next]_vars => (CoreTypes /\ ReadyMatchesQueues)'
  BY Laws, EveryStep, ReadyKeeps, ZenonT(40)
<1> QED BY <1>1, <1>2, PTL DEF Spec

\* CreditIsRespected: the writer never sends more than the peer's connection limit and
\* the stream's limit allow, however SETTINGS, MAX_DATA, MAX_STREAM_DATA and the
\* closing calls fall between its frames.
THEOREM CreditIsRespected == Spec => []CreditRespected
<1> DEFINE I == CoreTypes /\ ReadyMatchesQueues /\ CreditInv
<1>1. Init => I
  BY CoreInit, CreditInit, ZenonT(40)
<1>2. I /\ [Next]_vars => I'
  BY Laws, EveryStep, ReadyKeeps, CreditKeeps, ZenonT(40)
<1>3. I => CreditRespected
  BY ZenonT(40) DEF CreditInv
<1> QED BY <1>1, <1>2, <1>3, PTL DEF Spec

\* ControlAndDataAlternate: while both wait, next_frame serves control and data in turn
\* (urgent frames excepted): neither is passed over twice.
THEOREM ControlAndDataAlternate == Spec => []Alternation
<1> DEFINE I == CoreTypes /\ ReadyMatchesQueues /\ AltInv
<1>1. Init => I
  BY CoreInit, AltInit, Zenon
<1>2. I /\ [Next]_vars => I'
  BY Laws, EveryStep, ReadyKeeps, AltKeeps, ZenonT(40)
<1>3. I => Alternation
  BY ZenonT(40) DEF AltInv, Alternation
<1> QED BY <1>1, <1>2, <1>3, PTL DEF Spec

\* DirectionEndsOnce: after the FIN or the RESET of a direction the writer sends no
\* further frame of it, although finish, reset, STOP_SENDING and the cleanup of a
\* dropped handle race for the end.
THEOREM DirectionEndsOnce == Spec => []EndIsFinal
<1> DEFINE I == CoreTypes /\ ReadyMatchesQueues /\ FinInv /\ EndInv
<1>1. Init => I
  BY CoreInit, EndInit, ZenonT(40)
<1>2. I /\ [Next]_vars => I'
  BY Laws, EveryStep, ReadyKeeps, FinKeeps, EndsKeep, ZenonT(40)
<1>3. I => EndIsFinal
  BY ZenonT(40) DEF EndInv, HandInv, EndIsFinal
<1> QED BY <1>1, <1>2, <1>3, PTL DEF Spec

\* GracefulCloseIsLast: when the writer sends the CLOSE of a graceful close, every byte
\* and FIN it had accepted, of directions that were not reset, has been sent and no
\* control frame waits.
THEOREM GracefulCloseIsLast == Spec => []CloseAfterDrain
<1> DEFINE I == CoreTypes /\ ReadyMatchesQueues /\ FinInv /\ EndInv /\ CloseInv
<1>1. Init => I
  BY Laws, CoreInit, EndInit, CloseInit, ZenonT(40)
<1>2. I /\ [Next]_vars => I'
  BY Laws, EveryStep, ReadyKeeps, FinKeeps, EndsKeep, CloseKeeps, ZenonT(40)
<1>3. I => CloseAfterDrain
  <2> SUFFICES ASSUME I, frame = Close(0), NEW s \in Streams, ~st[s].resetQueued
               PROVE  /\ q.control = <<>>
                      /\ st[s].sent = accepted[s] /\ st[s].dispatched = (s \in fins)
    BY ZenonT(40) DEF CloseAfterDrain, CloseInv
  <2>1. /\ q.control = <<>> /\ st[s].sent = accepted[s] /\ (st[s].dispatched <=> s \in fins)
    BY ZenonT(40) DEF CloseInv
  <2>2. st[s].dispatched \in BOOLEAN
    BY ZenonT(40) DEF CoreTypes, SendState
  <2>3. st[s].dispatched = (s \in fins)
    BY <2>1, <2>2, SMTT(30)
  <2> QED BY <2>1, <2>3, ZenonT(40)
<1> QED BY <1>1, <1>2, <1>3, PTL DEF Spec

\* StreamsTakeTurns: a stream with data and credit is passed over by next_frame fewer
\* times in a row than there are streams, for any number of streams.
THEOREM StreamsTakeTurns == Spec => []RoundRobin
<1> DEFINE I == CoreTypes /\ ReadyMatchesQueues /\ PassedInv
<1>1. Init => I
  BY Laws, CoreInit, PassedInit, ZenonT(40)
<1>2. I /\ [Next]_vars => I'
  BY Laws, EveryStep, ReadyKeeps, PassedKeeps, ZenonT(40)
<1>3. I => RoundRobin
  BY Zenon DEF PassedInv, RoundRobin, N
<1> QED BY <1>1, <1>2, <1>3, PTL DEF Spec

\* WriterSleepsWhenIdle: no notification of the writer is lost: while it sleeps on its
\* Notified future no close, control frame, window update or sendable data waits,
\* whatever calls fall between its check of the queues and its poll.
THEOREM WriterSleepsWhenIdle == Spec => []NeverSleepsOnWork
<1> DEFINE I == CoreTypes /\ ReadyMatchesQueues /\ FlagTypes /\ SleepInv
<1>1. Init => I
  BY CoreInit, RestInit, ZenonT(40)
<1>2. I /\ [Next]_vars => I'
  BY Laws, EveryStep, ReadyKeeps, FlagsKeep, SleepKeeps, ZenonT(40)
<1>3. I => NeverSleepsOnWork
  BY Zenon DEF SleepInv, Idle, NeverSleepsOnWork
<1> QED BY <1>1, <1>2, <1>3, PTL DEF Spec

\* TypeCorrect: the types of the writer's state, and that every set of streams holds
\* opened ones only (the map, the handles, the windows due).
THEOREM TypeCorrect == Spec => []TypeOK
<1> DEFINE I == CoreTypes /\ ReadyMatchesQueues /\ FlagTypes /\ MapTypes
<1>1. Init => I
  BY CoreInit, RestInit, ZenonT(40)
<1>2. I /\ [Next]_vars => I'
  BY Laws, EveryStep, ReadyKeeps, FlagsKeep, MapKeeps, ZenonT(40)
<1>3. I => TypeOK
  BY Zenon DEF CoreTypes, FlagTypes, MapTypes, TypeOK, Queue, SendState
<1> QED BY <1>1, <1>2, <1>3, PTL DEF Spec
=============================================================================
