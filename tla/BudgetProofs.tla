---------------------------- MODULE BudgetProofs ----------------------------
(***************************************************************************)
(* Proofs about the outbound budgets.  The inductive invariant BInv is the     *)
(* types, the lines and BudgetsExact itself.  The sums over the streams in      *)
(* BudgetsExact change by what one stream changes (OneStream).                *)
(***************************************************************************)
EXTENDS Budget, DataLemmas

\* Queued chunks; the bytes that they hold permits for.
Chunk == [size : Nat, left : Nat]
Size(chunks) == SumFunction([i \in DOMAIN chunks |-> chunks[i].size])

\* SizeEmpty: an empty queue holds no byte permits.
LEMMA SizeEmpty == Size(<<>>) = 0
<1>1. DOMAIN [i \in DOMAIN <<>> |-> <<>>[i].size] = {}
  BY SMTT(30)
<1> QED BY <1>1, SumEmpty, Zenon DEF Size, SumFunction

\* SizeNat: the byte permits that a queue's chunks hold are a number.
LEMMA SizeNat == ASSUME NEW cs \in Seq(Chunk) PROVE Size(cs) \in Nat
<1> DEFINE f == [i \in DOMAIN cs |-> cs[i].size]
<1>1. Len(cs) \in Nat /\ DOMAIN cs = 1..Len(cs) /\ \A i \in 1..Len(cs) : cs[i] \in Chunk
  BY SMTT(30)
<1>2. IsFiniteSet(1..Len(cs)) /\ DOMAIN f = 1..Len(cs) /\ \A i \in 1..Len(cs) : f[i] \in Nat
  BY <1>1, FS_Interval, SMTT(30) DEF Chunk
<1>3. SumFunctionOnSet(f, 1..Len(cs)) \in Nat
  BY <1>2, SumNat, Zenon
<1> QED BY <1>2, <1>3, Zenon DEF Size, SumFunction

\* SizeAppend: enqueue_data (push_back) adds the permits of its chunk.
LEMMA SizeAppend ==
  ASSUME NEW cs \in Seq(Chunk), NEW c \in Chunk
  PROVE  Size(Append(cs, c)) = Size(cs) + c.size
<1> DEFINE f == [i \in DOMAIN cs |-> cs[i].size]
           a == Append(cs, c)
           h == [i \in DOMAIN a |-> a[i].size]
           n == Len(cs)
<1>1. n \in Nat /\ DOMAIN cs = 1..n /\ \A i \in 1..n : cs[i] \in Chunk
  BY SMTT(30)
<1>2. DOMAIN a = 1..(n + 1) /\ a[n + 1] = c /\ \A i \in 1..n : a[i] = cs[i]
  BY SMTT(30)
<1>3. DOMAIN f = 1..n /\ \A i \in 1..n : f[i] \in Nat
  BY <1>1, Zenon DEF Chunk
<1> HIDE DEF a, n
<1>4. DOMAIN h = 1..(n + 1) /\ h[n + 1] = c.size /\ \A i \in 1..n : h[i] = f[i]
  BY <1>1, <1>2, SMTT(30)
<1>5. c.size \in Nat
  BY Zenon DEF Chunk
<1> HIDE DEF f, h
<1>6. SumFunctionOnSet(h, 1..(n + 1)) = SumFunctionOnSet(f, 1..n) + h[n + 1]
  BY <1>1, <1>3, <1>4, <1>5, SumAppend, Zenon
<1> QED BY <1>3, <1>4, <1>6, Zenon DEF Size, SumFunction, f, h, a

\* SizeTail: pop_front takes out the permits of the head chunk.
LEMMA SizeTail ==
  ASSUME NEW cs \in Seq(Chunk), cs # <<>>
  PROVE  Size(cs) = Head(cs).size + Size(Tail(cs))
<1> DEFINE f == [i \in DOMAIN cs |-> cs[i].size]
           t == Tail(cs)
           h == [i \in DOMAIN t |-> t[i].size]
           n == Len(cs) - 1
<1>1. /\ n \in Nat /\ DOMAIN cs = 1..(n + 1) /\ Head(cs) = cs[1]
      /\ \A i \in 1..(n + 1) : cs[i] \in Chunk
  BY SMTT(30)
<1>2. DOMAIN t = 1..n /\ \A i \in 1..n : t[i] = cs[i + 1]
  BY SMTT(30)
<1>3. DOMAIN f = 1..(n + 1) /\ f[1] = Head(cs).size /\ \A i \in 1..(n + 1) : f[i] \in Nat
  BY <1>1, SMTT(30) DEF Chunk
<1>4. DOMAIN h = 1..n /\ \A i \in 1..n : h[i] = f[i + 1]
  <2> HIDE DEF t, n
  <2> QED BY <1>1, <1>2, SMTT(30)
<1> HIDE DEF f, h, t, n
<1>5. SumFunctionOnSet(f, 1..(n + 1)) = f[1] + SumFunctionOnSet(h, 1..n)
  BY <1>1, <1>3, <1>4, SumShift, Zenon
<1> QED BY <1>3, <1>4, <1>5, Zenon DEF Size, SumFunction, f, h, t

\* SizeHead: a partly sent chunk stays at the head with all its permits
\* (next_frame's split_to).
LEMMA SizeHead ==
  ASSUME NEW cs \in Seq(Chunk), cs # <<>>, NEW c \in Chunk, c.size = Head(cs).size
  PROVE  /\ <<c>> \o Tail(cs) \in Seq(Chunk) /\ Len(<<c>> \o Tail(cs)) = Len(cs)
         /\ Size(<<c>> \o Tail(cs)) = Size(cs)
<1> DEFINE d == <<c>> \o Tail(cs)
<1>1. d \in Seq(Chunk) /\ Len(d) = Len(cs) /\ d # <<>> /\ Head(d) = c /\ Tail(d) = Tail(cs)
  BY SMTT(30)
<1> HIDE DEF d
<1>2. Size(d) = Head(d).size + Size(Tail(d))
  BY <1>1, SizeTail, Zenon
<1>3. Size(cs) = Head(cs).size + Size(Tail(cs))
  BY SizeTail, Zenon
<1> QED BY <1>1, <1>2, <1>3, Zenon DEF d

\* SizeOne: a single chunk holds its own size.
LEMMA SizeOne == ASSUME NEW c \in Chunk PROVE Size(<<c>>) = c.size
<1>1. <<>> \in Seq(Chunk) /\ Append(<<>>, c) = <<c>> /\ c.size \in Nat
  BY SMTT(30) DEF Chunk
<1>2. Size(Append(<<>>, c)) = Size(<<>>) + c.size
  BY <1>1, SizeAppend, Zenon
<1> QED BY <1>1, <1>2, SizeEmpty, SMTT(30)

\* ChunksHoldIs: what ChunksHold counts: a slot of each kind for every chunk, and
\* its bytes twice.
LEMMA ChunksHoldIs ==
  ASSUME NEW cs
  PROVE  /\ ChunksHold(cs).slot = Len(cs) /\ ChunksHold(cs).frame = Len(cs)
         /\ ChunksHold(cs).bytes = Size(cs) /\ ChunksHold(cs).conn = Size(cs)
BY Zenon DEF ChunksHold, Size

-----------------------------------------------------------------------------
(* The inductive invariant. *)

\* TypesInv: types, without the upper bounds of the semaphores.
TypesInv ==
  /\ pc \in [Streams -> Places] /\ need \in [Streams -> 0..StreamBytes]
  /\ slots \in [Streams -> Nat] /\ bytes \in [Streams -> Nat]
  /\ frames \in Nat /\ conn \in Nat
  /\ queue \in [Streams -> Seq(Chunk)]
  /\ terminal \in [Streams -> BOOLEAN]
  /\ state \in {"open", "closing", "ended"}

\* LinesInv: each line holds the calls that wait in it, each once.
LinesInv ==
  /\ frameLine \in Seq(Streams) /\ IsInjective(frameLine)
  /\ Range(frameLine) = {s \in Streams : pc[s] = "frame"}
  /\ connLine \in Seq(Streams) /\ IsInjective(connLine)
  /\ Range(connLine) = {s \in Streams : pc[s] = "conn"}

\* BInv: the inductive invariant.
BInv == TypesInv /\ LinesInv /\ BudgetsExact

\* What the connection's semaphores have given out, stream by stream.
FrameUse == [s \in Streams |-> CallHolds(s).frame + ChunksHold(queue[s]).frame]
ConnUse == [s \in Streams |-> CallHolds(s).conn + ChunksHold(queue[s]).conn]

\* HoldsNat: calls and chunks hold numbers of permits; a call holds a frame slot of
\* the connection only with one of its stream (the order in which
\* queue_stream_chunk acquires them).
LEMMA HoldsNat ==
  ASSUME TypesInv, NEW s \in Streams
  PROVE  /\ CallHolds(s).slot \in {0, 1} /\ CallHolds(s).frame \in {0, 1}
         /\ CallHolds(s).frame <= CallHolds(s).slot
         /\ CallHolds(s).bytes \in Nat /\ CallHolds(s).conn \in Nat
         /\ ChunksHold(queue[s]).slot \in Nat /\ ChunksHold(queue[s]).frame \in Nat
         /\ ChunksHold(queue[s]).bytes \in Nat /\ ChunksHold(queue[s]).conn \in Nat
         /\ ChunksHold(queue[s]).slot = ChunksHold(queue[s]).frame
<1>1. need[s] \in Nat /\ queue[s] \in Seq(Chunk)
  BY BudgetAssumption, SMTT(30) DEF TypesInv
<1>2. Size(queue[s]) \in Nat /\ Len(queue[s]) \in Nat
  BY <1>1, SizeNat, SMTT(30)
<1>3. /\ CallHolds(s).slot \in {0, 1} /\ CallHolds(s).frame \in {0, 1}
      /\ CallHolds(s).frame <= CallHolds(s).slot
      /\ CallHolds(s).bytes \in Nat /\ CallHolds(s).conn \in Nat
  BY <1>1, SMTT(30) DEF CallHolds
<1> QED BY <1>2, <1>3, ChunksHoldIs, Zenon

\* OneStream: a step that concerns one stream and conserves its four balances
\* conserves those of the connection, whatever the other streams hold.
LEMMA OneStream ==
  ASSUME TypesInv, TypesInv', BudgetsExact, NEW s \in Streams,
         \A t \in Streams \ {s} :
           /\ pc'[t] = pc[t] /\ need'[t] = need[t] /\ queue'[t] = queue[t]
           /\ slots'[t] = slots[t] /\ bytes'[t] = bytes[t],
         slots'[s] + CallHolds(s)'.slot + ChunksHold(queue'[s]).slot
           = slots[s] + CallHolds(s).slot + ChunksHold(queue[s]).slot,
         bytes'[s] + CallHolds(s)'.bytes + ChunksHold(queue'[s]).bytes
           = bytes[s] + CallHolds(s).bytes + ChunksHold(queue[s]).bytes,
         frames' + CallHolds(s)'.frame + ChunksHold(queue'[s]).frame
           = frames + CallHolds(s).frame + ChunksHold(queue[s]).frame,
         conn' + CallHolds(s)'.conn + ChunksHold(queue'[s]).conn
           = conn + CallHolds(s).conn + ChunksHold(queue[s]).conn
  PROVE  BudgetsExact'
<1>1. ASSUME NEW t \in Streams \ {s}
      PROVE  CallHolds(t)' = CallHolds(t) /\ ChunksHold(queue[t])' = ChunksHold(queue[t])
  BY Zenon DEF CallHolds
<1>2. ASSUME NEW t \in Streams
      PROVE  /\ (slots[t] + CallHolds(t).slot + ChunksHold(queue[t]).slot)' = StreamSlots
             /\ (bytes[t] + CallHolds(t).bytes + ChunksHold(queue[t]).bytes)' = StreamBytes
  <2>1. CASE t = s
    BY <2>1, Zenon DEF BudgetsExact
  <2>2. CASE t # s
    BY <2>2, <1>1, ZenonT(40) DEF BudgetsExact
  <2> QED BY <2>1, <2>2, Zenon
<1>3. IsFiniteSet(Streams)
  BY BudgetAssumption, Zenon
<1>4. \A t \in Streams : FrameUse[t] \in Nat /\ ConnUse[t] \in Nat
  BY HoldsNat, SMTT(30) DEF FrameUse, ConnUse
<1>5. \A t \in Streams : FrameUse'[t] \in Nat /\ ConnUse'[t] \in Nat
  <2> SUFFICES ASSUME NEW t \in Streams PROVE FrameUse'[t] \in Nat /\ ConnUse'[t] \in Nat
    BY Zenon
  <2>1. /\ CallHolds(t)'.frame \in {0, 1} /\ CallHolds(t)'.conn \in Nat
        /\ ChunksHold(queue[t])'.frame \in Nat /\ ChunksHold(queue[t])'.conn \in Nat
    <3>1. need'[t] \in Nat /\ queue'[t] \in Seq(Chunk)
      BY BudgetAssumption, SMTT(30) DEF TypesInv
    <3>2. Size(queue'[t]) \in Nat /\ Len(queue'[t]) \in Nat
      BY <3>1, SizeNat, SMTT(30)
    <3>3. CallHolds(t)'.frame \in {0, 1} /\ CallHolds(t)'.conn \in Nat
      BY <3>1, Zenon DEF CallHolds
    <3> QED BY <3>2, <3>3, ChunksHoldIs, ZenonT(40)
  <2> QED BY <2>1, SMTT(30) DEF FrameUse, ConnUse
<1>6. \A t \in Streams \ {s} : FrameUse'[t] = FrameUse[t] /\ ConnUse'[t] = ConnUse[t]
  BY <1>1, Zenon DEF FrameUse, ConnUse
<1>7. /\ FrameUse[s] = CallHolds(s).frame + ChunksHold(queue[s]).frame
      /\ FrameUse'[s] = CallHolds(s)'.frame + ChunksHold(queue'[s]).frame
      /\ ConnUse[s] = CallHolds(s).conn + ChunksHold(queue[s]).conn
      /\ ConnUse'[s] = CallHolds(s)'.conn + ChunksHold(queue'[s]).conn
  BY Zenon DEF FrameUse, ConnUse
<1>8. SumFunctionOnSet(FrameUse', Streams) + FrameUse[s] = SumFunctionOnSet(FrameUse, Streams) + FrameUse'[s]
  BY <1>3, <1>4, <1>5, <1>6, SumChange, SMTT(30)
<1>9. SumFunctionOnSet(ConnUse', Streams) + ConnUse[s] = SumFunctionOnSet(ConnUse, Streams) + ConnUse'[s]
  BY <1>3, <1>4, <1>5, <1>6, SumChange, SMTT(30)
<1>10. /\ frames + SumFunctionOnSet(FrameUse, Streams) = MaxFrames
       /\ conn + SumFunctionOnSet(ConnUse, Streams) = ConnBytes
  BY Zenon DEF BudgetsExact, FrameUse, ConnUse, SumFunction
<1>11. /\ SumFunctionOnSet(FrameUse, Streams) \in Nat /\ SumFunctionOnSet(FrameUse', Streams) \in Nat
       /\ SumFunctionOnSet(ConnUse, Streams) \in Nat /\ SumFunctionOnSet(ConnUse', Streams) \in Nat
  BY <1>3, <1>4, <1>5, SumNat, Zenon
<1>12. /\ frames' + FrameUse'[s] = frames + FrameUse[s]
       /\ conn' + ConnUse'[s] = conn + ConnUse[s]
  <2>1. /\ CallHolds(s).frame \in Nat /\ CallHolds(s).conn \in Nat
        /\ ChunksHold(queue[s]).frame \in Nat /\ ChunksHold(queue[s]).conn \in Nat
    BY HoldsNat, SMTT(30)
  <2>2. /\ CallHolds(s)'.frame \in Nat /\ CallHolds(s)'.conn \in Nat
        /\ ChunksHold(queue'[s]).frame \in Nat /\ ChunksHold(queue'[s]).conn \in Nat
    <3>1. need'[s] \in Nat /\ queue'[s] \in Seq(Chunk)
      BY BudgetAssumption, SMTT(30) DEF TypesInv
    <3>2. Size(queue'[s]) \in Nat /\ Len(queue'[s]) \in Nat
      BY <3>1, SizeNat, SMTT(30)
    <3>3. CallHolds(s)'.frame \in Nat /\ CallHolds(s)'.conn \in Nat
      BY <3>1, Zenon DEF CallHolds
    <3> QED BY <3>2, <3>3, ChunksHoldIs, Zenon
  <2>3. frames \in Nat /\ frames' \in Nat /\ conn \in Nat /\ conn' \in Nat
    BY Zenon DEF TypesInv
  <2>4. frames' + FrameUse'[s] = frames + FrameUse[s]
    BY <1>7, <2>1, <2>2, <2>3, SMTT(30)
  <2>5. conn' + ConnUse'[s] = conn + ConnUse[s]
    BY <1>7, <2>1, <2>2, <2>3, SMTT(30)
  <2> QED BY <2>4, <2>5, Zenon
<1>13. /\ frames' + SumFunctionOnSet(FrameUse', Streams) = MaxFrames
       /\ conn' + SumFunctionOnSet(ConnUse', Streams) = ConnBytes
  <2>1. /\ frames \in Nat /\ frames' \in Nat /\ conn \in Nat /\ conn' \in Nat
        /\ FrameUse[s] \in Nat /\ FrameUse'[s] \in Nat /\ ConnUse[s] \in Nat /\ ConnUse'[s] \in Nat
    BY <1>4, <1>5, Zenon DEF TypesInv
  <2> QED BY <2>1, <1>8, <1>9, <1>10, <1>11, <1>12, SMTT(30)
<1> QED BY <1>2, <1>13, Zenon DEF BudgetsExact, FrameUse, ConnUse, SumFunction

-----------------------------------------------------------------------------
(* The actions. *)

\* InitInv: new semaphores hold all their permits.
LEMMA InitInv == Init => BInv
<1> SUFFICES ASSUME Init PROVE BInv
  BY Zenon
<1>1. Cardinality(Streams) \in Nat \ {0}
  BY BudgetAssumption, FS_CardinalityType, FS_EmptySet, Zenon
<1>2. StreamSlots \in Nat
  BY <1>1, BudgetAssumption, SMTT(30) DEF StreamSlots
<1>3. TypesInv
  BY <1>2, BudgetAssumption, SMTT(30) DEF Init, TypesInv, Places
<1>4. LinesInv
  BY SMTT(30) DEF Init, LinesInv, IsInjective, Range
<1>5. \A s \in Streams : ChunksHold(queue[s]).slot = 0 /\ ChunksHold(queue[s]).frame = 0
                         /\ ChunksHold(queue[s]).bytes = 0 /\ ChunksHold(queue[s]).conn = 0
  BY ChunksHoldIs, SizeEmpty, Zenon DEF Init
<1>6. \A s \in Streams : CallHolds(s) = [slot |-> 0, bytes |-> 0, frame |-> 0, conn |-> 0]
  BY Zenon DEF Init, CallHolds
<1>7. \A s \in Streams : FrameUse[s] = 0 /\ ConnUse[s] = 0
  BY <1>5, <1>6, SMTT(30) DEF FrameUse, ConnUse
<1>8. SumFunctionOnSet(FrameUse, Streams) = 0 /\ SumFunctionOnSet(ConnUse, Streams) = 0
  <2>1. SumFunctionOnSet(FrameUse, Streams) \in Nat /\ SumFunctionOnSet(ConnUse, Streams) \in Nat
    BY <1>7, BudgetAssumption, SumNat, SMTT(30)
  <2>2. /\ SumFunctionOnSet(FrameUse, Streams) <= Cardinality(Streams) * 0
        /\ SumFunctionOnSet(ConnUse, Streams) <= Cardinality(Streams) * 0
    BY <1>7, BudgetAssumption, SumAtMost, SMTT(30)
  <2> QED BY <1>1, <2>1, <2>2, SMTT(30)
<1>9. BudgetsExact
  <2>1. \A s \in Streams :
          /\ slots[s] + CallHolds(s).slot + ChunksHold(queue[s]).slot = StreamSlots
          /\ bytes[s] + CallHolds(s).bytes + ChunksHold(queue[s]).bytes = StreamBytes
    BY <1>2, <1>5, <1>6, BudgetAssumption, SMTT(30) DEF Init
  <2>2. /\ frames + SumFunctionOnSet(FrameUse, Streams) = MaxFrames
        /\ conn + SumFunctionOnSet(ConnUse, Streams) = ConnBytes
    BY <1>8, BudgetAssumption, SMTT(30) DEF Init
  <2> QED BY <2>1, <2>2, Zenon DEF BudgetsExact, FrameUse, ConnUse, SumFunction
<1> QED BY <1>3, <1>4, <1>9, Zenon DEF BInv

-----------------------------------------------------------------------------
(* Types and lines. *)

\* GivenBack: permits that are given back are natural numbers again.
LEMMA GivenBack ==
  ASSUME TypesInv, NEW s \in Streams, NEW h, GiveBack(s, h),
         h.slot \in Nat, h.bytes \in Nat, h.frame \in Nat, h.conn \in Nat
  PROVE  /\ slots' \in [Streams -> Nat] /\ bytes' \in [Streams -> Nat]
         /\ frames' \in Nat /\ conn' \in Nat
<1>1. slots[s] + h.slot \in Nat /\ bytes[s] + h.bytes \in Nat
  BY SMTT(30) DEF TypesInv
<1>2. slots' \in [Streams -> Nat] /\ bytes' \in [Streams -> Nat]
  BY <1>1, Zenon DEF TypesInv, GiveBack
<1>3. /\ frames \in Nat /\ frames' = frames + h.frame
      /\ conn \in Nat /\ conn' = conn + h.conn
  BY Zenon DEF TypesInv, GiveBack
<1>4. frames' \in Nat /\ conn' \in Nat
  BY <1>3, SMTT(30)
<1> QED BY <1>2, <1>4, Zenon

\* LeaveTypes: a failed or dropped call leaves numbers of permits.
LEMMA LeaveTypes ==
  ASSUME TypesInv, NEW s \in Streams, Leave(s)
  PROVE  TypesInv'
<1>1. /\ slots' \in [Streams -> Nat] /\ bytes' \in [Streams -> Nat]
      /\ frames' \in Nat /\ conn' \in Nat
  <2>1. /\ CallHolds(s).slot \in Nat /\ CallHolds(s).frame \in Nat
        /\ CallHolds(s).bytes \in Nat /\ CallHolds(s).conn \in Nat
    BY HoldsNat, SMTT(30)
  <2> QED BY <2>1, GivenBack, Zenon DEF Leave
<1>2. pc' \in [Streams -> Places]
  BY Zenon DEF TypesInv, Leave, Goto, Places
<1>3. need' \in [Streams -> 0..StreamBytes]
  BY BudgetAssumption, SMTT(30) DEF TypesInv, Leave
<1> QED BY <1>1, <1>2, <1>3, Zenon DEF TypesInv, Leave

\* TypesKeep: every step keeps the types; no acquire takes more permits than there
\* are.
LEMMA TypesKeep == BInv /\ [Next]_vars => TypesInv'
<1> SUFFICES ASSUME BInv, [Next]_vars PROVE TypesInv'
  BY Zenon
<1>0. TypesInv
  BY Zenon DEF BInv
<1>1. ASSUME NEW s \in Streams, NEW n \in Sizes[s], Begin(s, n) PROVE TypesInv'
  <2> n \in 0..StreamBytes
    BY <1>1, BudgetAssumption, SMTT(30) DEF Begin
  <2> QED BY <1>0, <1>1, Zenon DEF TypesInv, Begin, Goto, permits, Places
<1>2. ASSUME NEW s \in Streams, TakeSlot(s) PROVE TypesInv'
  <2>1. slots' \in [Streams -> Nat]
    BY <1>0, <1>2, SMTT(30) DEF TypesInv, TakeSlot
  <2>2. pc' \in [Streams -> Places]
    BY <1>0, <1>2, ZenonT(40) DEF TypesInv, TakeSlot, EnterFrameLine, Goto, Places
  <2> QED BY <1>0, <1>2, <2>1, <2>2, Zenon DEF TypesInv, TakeSlot
<1>3. ASSUME NEW s \in Streams, TakeBytes(s) PROVE TypesInv'
  <2> bytes[s] - need[s] \in Nat
    BY <1>0, <1>3, BudgetAssumption, SMTT(30) DEF TypesInv, TakeBytes
  <2> QED BY <1>0, <1>3, Zenon DEF TypesInv, TakeBytes, EnterFrameLine, Goto, Places
<1>4. ASSUME NEW s \in Streams, EnterConnLine(s) PROVE TypesInv'
  BY <1>0, <1>4, Zenon DEF TypesInv, EnterConnLine, Goto, permits, Places
<1>5. ASSUME NEW s \in Streams, Enqueue(s) PROVE TypesInv'
  <2>1. [size |-> need[s], left |-> need[s]] \in Chunk
    BY <1>0, BudgetAssumption, SMTT(30) DEF TypesInv, Chunk
  <2>2. queue' \in [Streams -> Seq(Chunk)]
    BY <1>0, <1>5, <2>1, SMTT(30) DEF TypesInv, Enqueue
  <2> QED BY <1>0, <1>5, <2>2, BudgetAssumption, SMTT(30) DEF TypesInv, Enqueue, Goto, permits, Places
<1>6. ASSUME NEW s \in Streams, Fail(s) \/ Cancel(s) PROVE TypesInv'
  BY <1>0, <1>6, LeaveTypes, Zenon DEF Fail, Cancel
<1>7. CASE GrantFrame
  <2>1. frames' \in Nat
    BY <1>0, <1>7, SMTT(30) DEF TypesInv, GrantFrame
  <2>2. pc' \in [Streams -> Places]
    BY <1>0, <1>7, Zenon DEF TypesInv, GrantFrame, Goto, Places
  <2> QED BY <1>0, <1>7, <2>1, <2>2, ZenonT(40) DEF TypesInv, GrantFrame
<1>8. CASE GrantConn
  <2>1. Head(connLine) \in Streams
    BY <1>8, SMTT(30) DEF BInv, LinesInv, GrantConn
  <2>2. conn - need[Head(connLine)] \in Nat
    <3>1. /\ conn \in Nat /\ need[Head(connLine)] \in 0..StreamBytes
          /\ conn >= need[Head(connLine)]
      BY <1>0, <1>8, <2>1, Zenon DEF TypesInv, GrantConn
    <3> QED BY <3>1, BudgetAssumption, SMTT(30)
  <2> QED BY <1>0, <1>8, <2>2, Zenon DEF TypesInv, GrantConn, Goto, Places
<1>9. ASSUME NEW s \in Streams, Dispatch(s) PROVE TypesInv'
  <2> DEFINE head == Head(queue[s])
  <2>1. queue[s] \in Seq(Chunk) /\ queue[s] # <<>> /\ head \in Chunk
    BY <1>0, <1>9, SMTT(30) DEF TypesInv, Dispatch
  <2>2. CASE head.left > 1
    <3> DEFINE c == [size |-> head.size, left |-> head.left - 1]
    <3>1. c \in Chunk /\ c.size = head.size
      BY <2>1, <2>2, SMTT(30) DEF Chunk
    <3>2. <<c>> \o Tail(queue[s]) \in Seq(Chunk)
      BY <2>1, <3>1, SizeHead, Zenon
    <3>3. queue' = [queue EXCEPT ![s] = <<c>> \o Tail(queue[s])] /\ UNCHANGED permits
      BY <1>9, <2>2, Zenon DEF Dispatch
    <3> HIDE DEF c
    <3> QED BY <1>0, <1>9, <3>2, <3>3, ZenonT(40) DEF TypesInv, Dispatch, permits
  <2>3. CASE ~(head.left > 1)
    <3>1. GiveBack(s, ChunksHold(<<head>>)) /\ queue' = [queue EXCEPT ![s] = Tail(queue[s])]
      BY <1>9, <2>3, Zenon DEF Dispatch
    <3>2. head.size \in Nat
      BY <2>1, Zenon DEF Chunk
    <3>3. /\ ChunksHold(<<head>>).slot \in Nat /\ ChunksHold(<<head>>).frame \in Nat
          /\ ChunksHold(<<head>>).bytes \in Nat /\ ChunksHold(<<head>>).conn \in Nat
      BY <2>1, <3>2, ChunksHoldIs, SizeOne, SMTT(30)
    <3>4. /\ slots' \in [Streams -> Nat] /\ bytes' \in [Streams -> Nat]
          /\ frames' \in Nat /\ conn' \in Nat
      BY <1>0, <3>1, <3>3, GivenBack, Zenon
    <3>5. queue' \in [Streams -> Seq(Chunk)]
      BY <1>0, <2>1, <3>1, SMTT(30) DEF TypesInv
    <3> QED BY <1>0, <1>9, <3>4, <3>5, Zenon DEF TypesInv, Dispatch
  <2> QED BY <2>2, <2>3, ZenonT(40)
<1>10. ASSUME NEW s \in Streams, Reset(s) PROVE TypesInv'
  <2>1. /\ ChunksHold(queue[s]).slot \in Nat /\ ChunksHold(queue[s]).frame \in Nat
        /\ ChunksHold(queue[s]).bytes \in Nat /\ ChunksHold(queue[s]).conn \in Nat
    BY <1>0, HoldsNat, Zenon
  <2>2. /\ slots' \in [Streams -> Nat] /\ bytes' \in [Streams -> Nat]
        /\ frames' \in Nat /\ conn' \in Nat
    BY <1>0, <1>10, <2>1, GivenBack, Zenon DEF Reset
  <2>3. queue' \in [Streams -> Seq(Chunk)]
    BY <1>0, <1>10, SMTT(30) DEF TypesInv, Reset
  <2>4. terminal' \in [Streams -> BOOLEAN]
    BY <1>0, <1>10, Zenon DEF TypesInv, Reset
  <2> QED BY <1>0, <1>10, <2>2, <2>3, <2>4, Zenon DEF TypesInv, Reset
<1>11. CASE Close
  BY <1>0, <1>11, Zenon DEF TypesInv, Close, permits
<1>12. CASE End
  <2> DEFINE f == [s \in Streams |-> ChunksHold(queue[s]).frame]
             c == [s \in Streams |-> ChunksHold(queue[s]).conn]
  <2>1. \A s \in Streams :
          /\ ChunksHold(queue[s]).slot \in Nat /\ ChunksHold(queue[s]).frame \in Nat
          /\ ChunksHold(queue[s]).bytes \in Nat /\ ChunksHold(queue[s]).conn \in Nat
    BY <1>0, HoldsNat, Zenon
  <2>2. SumFunctionOnSet(f, Streams) \in Nat /\ SumFunctionOnSet(c, Streams) \in Nat
    BY <2>1, BudgetAssumption, SumNat, ZenonT(40)
  <2>3. frames' \in Nat /\ conn' \in Nat
    BY <1>0, <1>12, <2>2, SMTT(30) DEF End, SumFunction, TypesInv
  <2>4. slots' \in [Streams -> Nat] /\ bytes' \in [Streams -> Nat]
    <3>1. \A s \in Streams : slots[s] \in Nat /\ bytes[s] \in Nat
      BY <1>0, Zenon DEF TypesInv
    <3>2. \A s \in Streams : /\ slots[s] + ChunksHold(queue[s]).slot \in Nat
                            /\ bytes[s] + ChunksHold(queue[s]).bytes \in Nat
      BY <2>1, <3>1, SMTT(30)
    <3> QED BY <1>12, <3>2, Zenon DEF End
  <2>5. queue' \in [Streams -> Seq(Chunk)]
    BY <1>12, SMTT(30) DEF End
  <2> QED BY <1>0, <1>12, <2>3, <2>4, <2>5, Zenon DEF TypesInv, End
<1>13. CASE UNCHANGED vars
  BY <1>0, <1>13, Zenon DEF TypesInv, vars, permits
<1> QED
  BY <1>1, <1>2, <1>3, <1>4, <1>5, <1>6, <1>7, <1>8, <1>9, <1>10, <1>11, <1>12, <1>13, ZenonT(40)
  DEF Next, Poll

\* LinesKeep: every step keeps the semaphores' lines of waiters equal to the calls
\* that wait in them, each once; a dropped call leaves its line.
LEMMA LinesKeep == BInv /\ [Next]_vars => LinesInv'
<1> SUFFICES ASSUME BInv, [Next]_vars PROVE LinesInv'
  BY Zenon
<1>0. LinesInv /\ pc \in [Streams -> Places]
  BY Zenon DEF BInv, TypesInv
<1>1. ASSUME NEW s \in Streams, EnterFrameLine(s), pc[s] \in {"slot", "bytes"},
             UNCHANGED connLine
      PROVE  LinesInv'
  <2>1. s \notin Range(frameLine) /\ s \notin Range(connLine)
    BY <1>0, <1>1, Zenon DEF LinesInv
  <2>2. /\ frameLine' \in Seq(Streams) /\ IsInjective(frameLine')
        /\ Range(frameLine') = Range(frameLine) \cup {s}
    BY <1>0, <1>1, <2>1, RangeAppend, SMTT(30) DEF LinesInv, EnterFrameLine
  <2> QED BY <1>0, <1>1, <2>1, <2>2, SMTT(30) DEF LinesInv, EnterFrameLine, Goto
<1>2. ASSUME NEW s \in Streams, NEW l \in {"idle", "slot", "bytes", "framed", "ready"},
             Goto(s, l), pc[s] \notin {"frame", "conn"},
             UNCHANGED <<frameLine, connLine>>
      PROVE  LinesInv'
  BY <1>0, <1>2, Zenon DEF LinesInv, Goto
<1>3. ASSUME NEW s \in Streams, NEW n \in Sizes[s], Begin(s, n) PROVE LinesInv'
  BY <1>2, <1>3, Zenon DEF Begin
<1>4. ASSUME NEW s \in Streams, TakeSlot(s) PROVE LinesInv'
  BY <1>1, <1>2, <1>4, Zenon DEF TakeSlot
<1>5. ASSUME NEW s \in Streams, TakeBytes(s) PROVE LinesInv'
  BY <1>1, <1>5, Zenon DEF TakeBytes
<1>6. ASSUME NEW s \in Streams, EnterConnLine(s) PROVE LinesInv'
  <2>1. CASE need[s] = 0
    BY <1>2, <1>6, <2>1, Zenon DEF EnterConnLine
  <2>2. CASE need[s] # 0
    <3>1. s \notin Range(frameLine) /\ s \notin Range(connLine)
      BY <1>0, <1>6, Zenon DEF LinesInv, EnterConnLine
    <3>2. /\ connLine' \in Seq(Streams) /\ IsInjective(connLine')
          /\ Range(connLine') = Range(connLine) \cup {s}
      <4>1. connLine' = Append(connLine, s)
        BY <1>6, <2>2, Zenon DEF EnterConnLine
      <4> QED BY <1>0, <4>1, <3>1, RangeAppend, SMTT(30) DEF LinesInv
    <3> QED BY <1>0, <1>6, <2>2, <3>1, <3>2, SMTT(30) DEF LinesInv, EnterConnLine, Goto
  <2> QED BY <2>1, <2>2, Zenon
<1>7. ASSUME NEW s \in Streams, Enqueue(s) PROVE LinesInv'
  BY <1>2, <1>7, Zenon DEF Enqueue
<1>8. ASSUME NEW s \in Streams, Leave(s) PROVE LinesInv'
  <2>1. /\ frameLine' \in Seq(Streams) /\ IsInjective(frameLine')
        /\ Range(frameLine') = Range(frameLine) \ {s}
    BY <1>0, <1>8, RangeWithout, SMTT(30) DEF LinesInv, Leave
  <2>2. /\ connLine' \in Seq(Streams) /\ IsInjective(connLine')
        /\ Range(connLine') = Range(connLine) \ {s}
    BY <1>0, <1>8, RangeWithout, SMTT(30) DEF LinesInv, Leave
  <2> QED BY <1>0, <1>8, <2>1, <2>2, ZenonT(40) DEF LinesInv, Leave, Goto
<1>9. CASE GrantFrame
  <2> DEFINE s == Head(frameLine)
  <2>1. s \in Streams /\ s \in Range(frameLine) /\ s \notin Range(connLine)
    <3>1. s \in Streams /\ s \in Range(frameLine)
      BY <1>0, <1>9, SMTT(30) DEF LinesInv, GrantFrame, Range
    <3> QED BY <1>0, <3>1, Zenon DEF LinesInv
  <2>2. /\ frameLine' \in Seq(Streams) /\ IsInjective(frameLine')
        /\ Range(frameLine') = Range(frameLine) \ {s}
    BY <1>0, <1>9, RangeTail, Zenon DEF LinesInv, GrantFrame
  <2> QED BY <1>0, <1>9, <2>1, <2>2, Zenon DEF LinesInv, GrantFrame, Goto
<1>10. CASE GrantConn
  <2> DEFINE s == Head(connLine)
  <2>1. s \in Streams /\ s \in Range(connLine) /\ s \notin Range(frameLine)
    <3>1. s \in Streams /\ s \in Range(connLine)
      BY <1>0, <1>10, SMTT(30) DEF LinesInv, GrantConn, Range
    <3> QED BY <1>0, <3>1, Zenon DEF LinesInv
  <2>2. /\ connLine' \in Seq(Streams) /\ IsInjective(connLine')
        /\ Range(connLine') = Range(connLine) \ {s}
    BY <1>0, <1>10, RangeTail, Zenon DEF LinesInv, GrantConn
  <2> QED BY <1>0, <1>10, <2>1, <2>2, Zenon DEF LinesInv, GrantConn, Goto
<1>11. CASE UNCHANGED <<pc, frameLine, connLine>>
  BY <1>0, <1>11, Zenon DEF LinesInv
<1> QED
  BY <1>3, <1>4, <1>5, <1>6, <1>7, <1>8, <1>9, <1>10, <1>11, ZenonT(40)
  DEF Next, Poll, Fail, Cancel, Dispatch, Reset, Close, End, vars

-----------------------------------------------------------------------------
(* The budgets. *)

\* Moves: a step of one call that moves permits between the semaphores and the
\* call, and no chunk.
LEMMA Moves ==
  ASSUME BInv, TypesInv', NEW s \in Streams,
         pc' = [pc EXCEPT ![s] = pc'[s]], need' = [need EXCEPT ![s] = need'[s]],
         slots' = [slots EXCEPT ![s] = slots'[s]],
         bytes' = [bytes EXCEPT ![s] = bytes'[s]],
         UNCHANGED queue,
         slots'[s] + CallHolds(s)'.slot = slots[s] + CallHolds(s).slot,
         bytes'[s] + CallHolds(s)'.bytes = bytes[s] + CallHolds(s).bytes,
         frames' + CallHolds(s)'.frame = frames + CallHolds(s).frame,
         conn' + CallHolds(s)'.conn = conn + CallHolds(s).conn
  PROVE  BudgetsExact'
<1>1. TypesInv /\ BudgetsExact
  BY Zenon DEF BInv
<1>2. \A t \in Streams \ {s} :
        /\ pc'[t] = pc[t] /\ need'[t] = need[t] /\ queue'[t] = queue[t]
        /\ slots'[t] = slots[t] /\ bytes'[t] = bytes[t]
  BY <1>1, SMTT(30) DEF TypesInv
<1> QED BY <1>1, <1>2, OneStream, Zenon

\* Drains: chunks leave the queue of one stream and give back exactly the permits
\* that they hold.
LEMMA Drains ==
  ASSUME BInv, TypesInv', NEW s \in Streams, NEW h,
         queue' = [queue EXCEPT ![s] = queue'[s]], GiveBack(s, h), UNCHANGED <<pc, need>>,
         h.slot \in Nat, h.bytes \in Nat, h.frame \in Nat, h.conn \in Nat,
         h.slot + ChunksHold(queue'[s]).slot = ChunksHold(queue[s]).slot,
         h.bytes + ChunksHold(queue'[s]).bytes = ChunksHold(queue[s]).bytes,
         h.frame + ChunksHold(queue'[s]).frame = ChunksHold(queue[s]).frame,
         h.conn + ChunksHold(queue'[s]).conn = ChunksHold(queue[s]).conn
  PROVE  BudgetsExact'
<1>1. TypesInv /\ BudgetsExact
  BY Zenon DEF BInv
<1>2. \A t \in Streams \ {s} :
        /\ pc'[t] = pc[t] /\ need'[t] = need[t] /\ queue'[t] = queue[t]
        /\ slots'[t] = slots[t] /\ bytes'[t] = bytes[t]
  BY <1>1, Zenon DEF TypesInv, GiveBack
<1>3. /\ slots'[s] = slots[s] + h.slot /\ bytes'[s] = bytes[s] + h.bytes
      /\ frames' = frames + h.frame /\ conn' = conn + h.conn
      /\ slots[s] \in Nat /\ bytes[s] \in Nat /\ frames \in Nat /\ conn \in Nat
  BY <1>1, Zenon DEF TypesInv, GiveBack
<1>4. CallHolds(s)' = CallHolds(s)
  BY Zenon DEF CallHolds
<1>5. /\ CallHolds(s).slot \in Nat /\ CallHolds(s).frame \in Nat
      /\ CallHolds(s).bytes \in Nat /\ CallHolds(s).conn \in Nat
  BY <1>1, HoldsNat, SMTT(30)
<1>6. queue'[s] \in Seq(Chunk)
  BY Zenon DEF TypesInv
<1>7. Len(queue'[s]) \in Nat /\ Size(queue'[s]) \in Nat
  BY <1>6, SizeNat, SMTT(30)
<1>8. /\ ChunksHold(queue'[s]).slot \in Nat /\ ChunksHold(queue'[s]).frame \in Nat
      /\ ChunksHold(queue'[s]).bytes \in Nat /\ ChunksHold(queue'[s]).conn \in Nat
  BY <1>7, ChunksHoldIs, ZenonT(40)
<1>9. slots'[s] + CallHolds(s)'.slot + ChunksHold(queue'[s]).slot
        = slots[s] + CallHolds(s).slot + ChunksHold(queue[s]).slot
  BY <1>3, <1>4, <1>5, <1>8, SMTT(30)
<1>10. bytes'[s] + CallHolds(s)'.bytes + ChunksHold(queue'[s]).bytes
         = bytes[s] + CallHolds(s).bytes + ChunksHold(queue[s]).bytes
  BY <1>3, <1>4, <1>5, <1>8, SMTT(30)
<1>11. frames' + CallHolds(s)'.frame + ChunksHold(queue'[s]).frame
         = frames + CallHolds(s).frame + ChunksHold(queue[s]).frame
  BY <1>3, <1>4, <1>5, <1>8, SMTT(30)
<1>12. conn' + CallHolds(s)'.conn + ChunksHold(queue'[s]).conn
         = conn + CallHolds(s).conn + ChunksHold(queue[s]).conn
  BY <1>3, <1>4, <1>5, <1>8, SMTT(30)
<1> QED BY <1>1, <1>2, <1>9, <1>10, <1>11, <1>12, OneStream, ZenonT(40)

\* ExactKeep: every step of queue_stream_chunk, of the semaphores, the writer, a
\* reset and the end of the connection keeps the four budgets exact.
LEMMA ExactKeep == BInv /\ [Next]_vars => BudgetsExact'
<1> SUFFICES ASSUME BInv, [Next]_vars PROVE BudgetsExact'
  BY Zenon
<1>0. TypesInv /\ LinesInv /\ BudgetsExact /\ TypesInv'
  BY TypesKeep, Zenon DEF BInv
<1>1. ASSUME NEW s \in Streams, NEW n \in Sizes[s], Begin(s, n) PROVE BudgetsExact'
  <2>1. CallHolds(s)' = CallHolds(s)
    BY <1>0, <1>1, Zenon DEF Begin, Goto, CallHolds, TypesInv
  <2> QED BY <1>0, <1>1, <2>1, Moves, ZenonT(40) DEF Begin, Goto, permits, TypesInv
<1>2. ASSUME NEW s \in Streams, TakeSlot(s) PROVE BudgetsExact'
  <2>1. pc[s] = "slot" /\ pc'[s] \in {"bytes", "frame"} /\ need'[s] = need[s]
        /\ (pc'[s] = "frame" => need[s] = 0)
    BY <1>0, <1>2, Zenon DEF TakeSlot, EnterFrameLine, Goto, TypesInv
  <2>2. /\ CallHolds(s).slot = 0 /\ CallHolds(s)'.slot = 1
        /\ CallHolds(s)'.bytes = CallHolds(s).bytes
        /\ CallHolds(s)'.frame = CallHolds(s).frame
        /\ CallHolds(s)'.conn = CallHolds(s).conn
    BY <2>1, Zenon DEF CallHolds
  <2>3. slots[s] \in Nat /\ slots'[s] = slots[s] - 1
    BY <1>0, <1>2, Zenon DEF TakeSlot, TypesInv
  <2>4. slots'[s] + CallHolds(s)'.slot = slots[s] + CallHolds(s).slot
    BY <2>2, <2>3, SMTT(30)
  <2>5. /\ pc' = [pc EXCEPT ![s] = pc'[s]] /\ need' = [need EXCEPT ![s] = need'[s]]
        /\ slots' = [slots EXCEPT ![s] = slots'[s]]
        /\ bytes' = [bytes EXCEPT ![s] = bytes'[s]]
    BY <1>0, <1>2, Zenon DEF TakeSlot, EnterFrameLine, Goto, TypesInv
  <2> QED BY <1>0, <1>2, <2>2, <2>4, <2>5, Moves, Zenon DEF TakeSlot
<1>3. ASSUME NEW s \in Streams, TakeBytes(s) PROVE BudgetsExact'
  <2>1. pc[s] = "bytes" /\ pc'[s] = "frame" /\ need'[s] = need[s]
    BY <1>0, <1>3, Zenon DEF TakeBytes, EnterFrameLine, Goto, TypesInv
  <2>2. /\ CallHolds(s)'.slot = CallHolds(s).slot
        /\ CallHolds(s).bytes = 0 /\ CallHolds(s)'.bytes = need[s]
        /\ CallHolds(s)'.frame = CallHolds(s).frame
        /\ CallHolds(s)'.conn = CallHolds(s).conn
    BY <2>1, ZenonT(40) DEF CallHolds
  <2>3. bytes[s] \in Nat /\ need[s] \in Nat /\ bytes'[s] = bytes[s] - need[s]
    BY <1>0, <1>3, BudgetAssumption, SMTT(30) DEF TakeBytes, TypesInv
  <2>4. bytes'[s] + CallHolds(s)'.bytes = bytes[s] + CallHolds(s).bytes
    BY <2>2, <2>3, SMTT(30)
  <2>5. /\ pc' = [pc EXCEPT ![s] = pc'[s]] /\ need' = [need EXCEPT ![s] = need'[s]]
        /\ slots' = [slots EXCEPT ![s] = slots'[s]]
        /\ bytes' = [bytes EXCEPT ![s] = bytes'[s]]
    BY <1>0, <1>3, Zenon DEF TakeBytes, EnterFrameLine, Goto, TypesInv
  <2> QED BY <1>0, <1>3, <2>2, <2>4, <2>5, Moves, ZenonT(40) DEF TakeBytes
<1>4. CASE GrantFrame
  <2>0. PICK s \in Streams : s = Head(frameLine)
    BY <1>0, <1>4, SMTT(30) DEF LinesInv, GrantFrame
  <2>1. pc[s] = "frame"
    <3>1. s \in Range(frameLine)
      BY <1>0, <1>4, <2>0, SMTT(30) DEF LinesInv, GrantFrame, Range
    <3> QED BY <1>0, <3>1, Zenon DEF LinesInv
  <2>2. pc' = [pc EXCEPT ![s] = "framed"] /\ frames' = frames - 1
        /\ UNCHANGED <<need, slots, bytes, conn, queue>>
    BY <1>4, <2>0, Zenon DEF GrantFrame, Goto
  <2>3. /\ CallHolds(s)'.slot = CallHolds(s).slot
        /\ CallHolds(s)'.bytes = CallHolds(s).bytes
        /\ CallHolds(s).frame = 0 /\ CallHolds(s)'.frame = 1
        /\ CallHolds(s)'.conn = CallHolds(s).conn
    <3>1. pc'[s] = "framed" /\ need'[s] = need[s]
      BY <1>0, <2>1, <2>2, ZenonT(40) DEF TypesInv
    <3> QED BY <2>1, <3>1, Zenon DEF CallHolds
  <2>4. frames' + CallHolds(s)'.frame = frames + CallHolds(s).frame
    <3>1. frames \in Nat
      BY <1>0, Zenon DEF TypesInv
    <3> QED BY <2>2, <2>3, <3>1, SMTT(30)
  <2>5. /\ pc' = [pc EXCEPT ![s] = pc'[s]] /\ need' = [need EXCEPT ![s] = need'[s]]
        /\ slots' = [slots EXCEPT ![s] = slots'[s]]
        /\ bytes' = [bytes EXCEPT ![s] = bytes'[s]]
    BY <1>0, <2>1, <2>2, Zenon DEF TypesInv
  <2>6. /\ slots'[s] + CallHolds(s)'.slot = slots[s] + CallHolds(s).slot
        /\ bytes'[s] + CallHolds(s)'.bytes = bytes[s] + CallHolds(s).bytes
        /\ conn' + CallHolds(s)'.conn = conn + CallHolds(s).conn
        /\ UNCHANGED queue
    BY <2>2, <2>3, Zenon
  <2> QED BY <1>0, <2>1, <2>4, <2>5, <2>6, Moves, ZenonT(40)
<1>5. ASSUME NEW s \in Streams, EnterConnLine(s) PROVE BudgetsExact'
  <2>1. pc[s] = "framed" /\ pc'[s] \in {"conn", "ready"} /\ need'[s] = need[s]
        /\ (pc'[s] = "ready" => need[s] = 0)
    BY <1>0, <1>5, Zenon DEF EnterConnLine, Goto, TypesInv
  <2>2. CallHolds(s)' = CallHolds(s)
    BY <2>1, Zenon DEF CallHolds
  <2>3. /\ pc' = [pc EXCEPT ![s] = pc'[s]] /\ need' = [need EXCEPT ![s] = need'[s]]
        /\ slots' = [slots EXCEPT ![s] = slots'[s]]
        /\ bytes' = [bytes EXCEPT ![s] = bytes'[s]]
    BY <1>0, <1>5, Zenon DEF EnterConnLine, Goto, permits, TypesInv
  <2> QED BY <1>0, <1>5, <2>2, <2>3, Moves, ZenonT(40) DEF EnterConnLine, permits
<1>6. CASE GrantConn
  <2>0. PICK s \in Streams : s = Head(connLine)
    BY <1>0, <1>6, SMTT(30) DEF LinesInv, GrantConn
  <2>1. pc[s] = "conn"
    <3>1. s \in Range(connLine)
      BY <1>0, <1>6, <2>0, SMTT(30) DEF LinesInv, GrantConn, Range
    <3> QED BY <1>0, <3>1, Zenon DEF LinesInv
  <2>2. pc' = [pc EXCEPT ![s] = "ready"] /\ conn' = conn - need[s]
        /\ UNCHANGED <<need, slots, bytes, frames, queue>>
    BY <1>6, <2>0, Zenon DEF GrantConn, Goto
  <2>3. /\ CallHolds(s)'.slot = CallHolds(s).slot
        /\ CallHolds(s)'.bytes = CallHolds(s).bytes
        /\ CallHolds(s)'.frame = CallHolds(s).frame
        /\ CallHolds(s).conn = 0 /\ CallHolds(s)'.conn = need[s]
    <3>1. pc'[s] = "ready" /\ need'[s] = need[s]
      BY <1>0, <2>1, <2>2, ZenonT(40) DEF TypesInv
    <3> QED BY <2>1, <3>1, Zenon DEF CallHolds
  <2>4. conn' + CallHolds(s)'.conn = conn + CallHolds(s).conn
    <3>1. conn \in Nat /\ need[s] \in Nat
      BY <1>0, <2>1, BudgetAssumption, SMTT(30) DEF TypesInv
    <3> QED BY <2>2, <2>3, <3>1, SMTT(30)
  <2>5. /\ pc' = [pc EXCEPT ![s] = pc'[s]] /\ need' = [need EXCEPT ![s] = need'[s]]
        /\ slots' = [slots EXCEPT ![s] = slots'[s]]
        /\ bytes' = [bytes EXCEPT ![s] = bytes'[s]]
    BY <1>0, <2>1, <2>2, Zenon DEF TypesInv
  <2>6. /\ slots'[s] + CallHolds(s)'.slot = slots[s] + CallHolds(s).slot
        /\ bytes'[s] + CallHolds(s)'.bytes = bytes[s] + CallHolds(s).bytes
        /\ frames' + CallHolds(s)'.frame = frames + CallHolds(s).frame
        /\ UNCHANGED queue
    BY <2>2, <2>3, Zenon
  <2> QED BY <1>0, <2>1, <2>4, <2>5, <2>6, Moves, ZenonT(40)
<1>7. ASSUME NEW s \in Streams, Enqueue(s) PROVE BudgetsExact'
  <2> DEFINE c == [size |-> need[s], left |-> need[s]]
  <2>1. need[s] \in Nat /\ c \in Chunk /\ c.size = need[s] /\ queue[s] \in Seq(Chunk)
    BY <1>0, BudgetAssumption, SMTT(30) DEF TypesInv, Chunk
  <2>2. queue'[s] = Append(queue[s], c) /\ UNCHANGED permits
    BY <1>0, <1>7, Zenon DEF TypesInv, Enqueue
  <2>3. pc[s] = "ready" /\ pc'[s] = "idle"
    BY <1>0, <1>7, Zenon DEF TypesInv, Enqueue, Goto
  <2>4. \A t \in Streams \ {s} :
          /\ pc'[t] = pc[t] /\ need'[t] = need[t] /\ queue'[t] = queue[t]
          /\ slots'[t] = slots[t] /\ bytes'[t] = bytes[t]
    BY <1>0, <1>7, Zenon DEF TypesInv, Enqueue, Goto, permits
  <2>5. /\ CallHolds(s).slot = 1 /\ CallHolds(s)'.slot = 0
        /\ CallHolds(s).bytes = need[s] /\ CallHolds(s)'.bytes = 0
        /\ CallHolds(s).frame = 1 /\ CallHolds(s)'.frame = 0
        /\ CallHolds(s).conn = need[s] /\ CallHolds(s)'.conn = 0
    BY <2>3, Zenon DEF CallHolds
  <2> HIDE DEF c
  <2>6. /\ ChunksHold(queue'[s]).slot = ChunksHold(queue[s]).slot + 1
        /\ ChunksHold(queue'[s]).frame = ChunksHold(queue[s]).frame + 1
    <3>1. Len(Append(queue[s], c)) = Len(queue[s]) + 1
      BY <2>1, SMTT(30)
    <3> QED BY <2>2, <3>1, ChunksHoldIs, Zenon
  <2>7. /\ ChunksHold(queue'[s]).bytes = ChunksHold(queue[s]).bytes + need[s]
        /\ ChunksHold(queue'[s]).conn = ChunksHold(queue[s]).conn + need[s]
    BY <2>1, <2>2, SizeAppend, ChunksHoldIs, ZenonT(40)
  <2>8. /\ slots[s] \in Nat /\ bytes[s] \in Nat /\ frames \in Nat /\ conn \in Nat
        /\ slots'[s] = slots[s] /\ bytes'[s] = bytes[s] /\ frames' = frames /\ conn' = conn
    BY <1>0, <2>2, Zenon DEF TypesInv, permits
  <2>9. /\ ChunksHold(queue[s]).slot \in Nat /\ ChunksHold(queue[s]).frame \in Nat
        /\ ChunksHold(queue[s]).bytes \in Nat /\ ChunksHold(queue[s]).conn \in Nat
    BY <1>0, HoldsNat, Zenon
  <2>10. need[s] \in Nat
    BY <2>1, ZenonT(40)
  <2>11. slots'[s] + CallHolds(s)'.slot + ChunksHold(queue'[s]).slot
           = slots[s] + CallHolds(s).slot + ChunksHold(queue[s]).slot
    BY <2>5, <2>6, <2>8, <2>9, SMTT(30)
  <2>12. bytes'[s] + CallHolds(s)'.bytes + ChunksHold(queue'[s]).bytes
           = bytes[s] + CallHolds(s).bytes + ChunksHold(queue[s]).bytes
    BY <2>5, <2>7, <2>8, <2>9, <2>10, SMTT(30)
  <2>13. frames' + CallHolds(s)'.frame + ChunksHold(queue'[s]).frame
           = frames + CallHolds(s).frame + ChunksHold(queue[s]).frame
    BY <2>5, <2>6, <2>8, <2>9, SMTT(30)
  <2>14. conn' + CallHolds(s)'.conn + ChunksHold(queue'[s]).conn
           = conn + CallHolds(s).conn + ChunksHold(queue[s]).conn
    BY <2>5, <2>7, <2>8, <2>9, <2>10, SMTT(30)
  <2> QED BY <1>0, <2>4, <2>11, <2>12, <2>13, <2>14, OneStream, ZenonT(40)
<1>8. ASSUME NEW s \in Streams, Leave(s) PROVE BudgetsExact'
  <2>1. /\ slots' = [slots EXCEPT ![s] = slots[s] + CallHolds(s).slot]
        /\ bytes' = [bytes EXCEPT ![s] = bytes[s] + CallHolds(s).bytes]
        /\ frames' = frames + CallHolds(s).frame
        /\ conn' = conn + CallHolds(s).conn
        /\ pc' = [pc EXCEPT ![s] = "idle"] /\ need' = [need EXCEPT ![s] = 0]
        /\ queue' = queue
    BY <1>8, Zenon DEF Leave, GiveBack, Goto
  <2>2. /\ CallHolds(s).slot \in Nat /\ CallHolds(s).frame \in Nat
        /\ CallHolds(s).bytes \in Nat /\ CallHolds(s).conn \in Nat
    BY <1>0, HoldsNat, SMTT(30)
  <2>3. pc'[s] = "idle"
    BY <1>0, <2>1, Zenon DEF TypesInv
  <2>4. /\ CallHolds(s)'.slot = 0 /\ CallHolds(s)'.bytes = 0
        /\ CallHolds(s)'.frame = 0 /\ CallHolds(s)'.conn = 0
    BY <2>3, Zenon DEF CallHolds
  <2>5. /\ slots'[s] = slots[s] + CallHolds(s).slot /\ slots[s] \in Nat
        /\ bytes'[s] = bytes[s] + CallHolds(s).bytes /\ bytes[s] \in Nat
        /\ frames \in Nat /\ conn \in Nat
    BY <1>0, <2>1, ZenonT(40) DEF TypesInv
  <2>6. /\ slots'[s] + CallHolds(s)'.slot = slots[s] + CallHolds(s).slot
        /\ bytes'[s] + CallHolds(s)'.bytes = bytes[s] + CallHolds(s).bytes
        /\ frames' + CallHolds(s)'.frame = frames + CallHolds(s).frame
        /\ conn' + CallHolds(s)'.conn = conn + CallHolds(s).conn
    BY <2>1, <2>2, <2>4, <2>5, SMTT(30)
  <2>7. /\ pc' = [pc EXCEPT ![s] = pc'[s]] /\ need' = [need EXCEPT ![s] = need'[s]]
        /\ slots' = [slots EXCEPT ![s] = slots'[s]]
        /\ bytes' = [bytes EXCEPT ![s] = bytes'[s]]
    BY <1>0, <2>1, Zenon DEF TypesInv
  <2> QED BY <1>0, <2>1, <2>6, <2>7, Moves, ZenonT(40)
<1>9. ASSUME NEW s \in Streams, Dispatch(s) PROVE BudgetsExact'
  <2> DEFINE cs == queue[s]
             head == Head(cs)
  <2>1. cs \in Seq(Chunk) /\ cs # <<>> /\ head \in Chunk
    BY <1>0, <1>9, SMTT(30) DEF TypesInv, Dispatch
  <2>2. head.size \in Nat /\ head.left \in Nat
    BY <2>1, Zenon DEF Chunk
  <2>3. CASE head.left > 1
    <3> DEFINE c == [size |-> head.size, left |-> head.left - 1]
    <3>1. c \in Chunk /\ c.size = head.size
      BY <2>2, <2>3, SMTT(30) DEF Chunk
    <3>2. /\ queue' = [queue EXCEPT ![s] = <<c>> \o Tail(cs)] /\ UNCHANGED permits
          /\ UNCHANGED <<pc, need>>
      BY <1>9, <2>3, Zenon DEF Dispatch
    <3> HIDE DEF c
    <3>3. queue'[s] = <<c>> \o Tail(cs)
      BY <1>0, <3>2, Zenon DEF TypesInv
    <3>4. /\ ChunksHold(queue'[s]).slot = ChunksHold(cs).slot
          /\ ChunksHold(queue'[s]).frame = ChunksHold(cs).frame
          /\ ChunksHold(queue'[s]).bytes = ChunksHold(cs).bytes
          /\ ChunksHold(queue'[s]).conn = ChunksHold(cs).conn
      <4> DEFINE ds == <<c>> \o Tail(cs)
      <4>1. Len(ds) = Len(cs) /\ Size(ds) = Size(cs)
        BY <2>1, <3>1, SizeHead, Zenon
      <4> HIDE DEF ds, cs
      <4>2. queue'[s] = ds
        BY <3>3, Zenon DEF ds
      <4> QED BY <4>1, <4>2, ChunksHoldIs, Zenon
    <3>5. \A t \in Streams \ {s} :
            /\ pc'[t] = pc[t] /\ need'[t] = need[t] /\ queue'[t] = queue[t]
            /\ slots'[t] = slots[t] /\ bytes'[t] = bytes[t]
      BY <1>0, <3>2, Zenon DEF TypesInv, permits
    <3>6. CallHolds(s)' = CallHolds(s)
      BY <3>2, Zenon DEF CallHolds
    <3>7. slots' = slots /\ bytes' = bytes /\ frames' = frames /\ conn' = conn
      BY <3>2, Zenon DEF permits
    <3> QED BY <1>0, <3>4, <3>5, <3>6, <3>7, OneStream, ZenonT(40)
  <2>4. CASE ~(head.left > 1)
    <3> DEFINE h == ChunksHold(<<head>>)
    <3>1. /\ GiveBack(s, h) /\ queue' = [queue EXCEPT ![s] = Tail(cs)]
          /\ UNCHANGED <<pc, need>>
      BY <1>9, <2>4, Zenon DEF Dispatch
    <3>2. h.slot = 1 /\ h.frame = 1 /\ h.bytes = head.size /\ h.conn = head.size
      BY <2>1, ChunksHoldIs, SizeOne, Zenon
    <3>3. queue'[s] = Tail(cs)
      BY <1>0, <3>1, Zenon DEF TypesInv
    <3>4. Len(cs) \in Nat /\ Len(Tail(cs)) = Len(cs) - 1 /\ Tail(cs) \in Seq(Chunk)
      BY <2>1, SMTT(30)
    <3>5. /\ h.slot + ChunksHold(queue'[s]).slot = ChunksHold(cs).slot
          /\ h.frame + ChunksHold(queue'[s]).frame = ChunksHold(cs).frame
      <4>1. ChunksHold(queue'[s]).slot = Len(Tail(cs)) /\ ChunksHold(queue'[s]).frame = Len(Tail(cs))
        BY <3>3, ChunksHoldIs, Zenon
      <4>2. ChunksHold(cs).slot = Len(cs) /\ ChunksHold(cs).frame = Len(cs)
        BY ChunksHoldIs, Zenon
      <4> HIDE DEF cs, h
      <4> QED BY <3>2, <3>4, <4>1, <4>2, SMTT(30)
    <3>6. Size(cs) = head.size + Size(Tail(cs))
      BY <2>1, SizeTail, Zenon
    <3>7. /\ h.bytes + ChunksHold(queue'[s]).bytes = ChunksHold(cs).bytes
          /\ h.conn + ChunksHold(queue'[s]).conn = ChunksHold(cs).conn
      BY <3>2, <3>3, <3>6, ChunksHoldIs, ZenonT(40)
    <3>8. queue' = [queue EXCEPT ![s] = queue'[s]]
      BY <3>1, <3>3, Zenon
    <3>9. h.slot \in Nat /\ h.bytes \in Nat /\ h.frame \in Nat /\ h.conn \in Nat
      BY <2>2, <3>2, SMTT(30)
    <3> HIDE DEF h
    <3> QED BY <1>0, <3>1, <3>5, <3>7, <3>8, <3>9, Drains, ZenonT(40)
  <2> QED BY <2>3, <2>4, ZenonT(40)
<1>10. ASSUME NEW s \in Streams, Reset(s) PROVE BudgetsExact'
  <2> DEFINE h == ChunksHold(queue[s])
  <2>1. /\ GiveBack(s, h) /\ queue' = [queue EXCEPT ![s] = <<>>]
        /\ UNCHANGED <<pc, need>>
    BY <1>10, Zenon DEF Reset
  <2>2. queue'[s] = <<>>
    BY <1>0, <2>1, Zenon DEF TypesInv
  <2>3. /\ ChunksHold(queue'[s]).slot = 0 /\ ChunksHold(queue'[s]).frame = 0
        /\ ChunksHold(queue'[s]).bytes = 0 /\ ChunksHold(queue'[s]).conn = 0
    BY <2>2, ChunksHoldIs, SizeEmpty, Zenon
  <2>4. h.slot \in Nat /\ h.bytes \in Nat /\ h.frame \in Nat /\ h.conn \in Nat
    BY <1>0, HoldsNat, Zenon
  <2>5. queue' = [queue EXCEPT ![s] = queue'[s]]
    BY <2>1, <2>2, ZenonT(40)
  <2> HIDE DEF h
  <2>6. /\ h.slot + ChunksHold(queue'[s]).slot = h.slot
        /\ h.frame + ChunksHold(queue'[s]).frame = h.frame
        /\ h.bytes + ChunksHold(queue'[s]).bytes = h.bytes
        /\ h.conn + ChunksHold(queue'[s]).conn = h.conn
    BY <2>3, <2>4, SMTT(30)
  <2> QED BY <1>0, <2>1, <2>4, <2>5, <2>6, Drains, ZenonT(40) DEF h
<1>11. CASE End
  <2> DEFINE fc == [t \in Streams |-> CallHolds(t).frame]
             fq == [t \in Streams |-> ChunksHold(queue[t]).frame]
             cc == [t \in Streams |-> CallHolds(t).conn]
             cq == [t \in Streams |-> ChunksHold(queue[t]).conn]
             S(f) == SumFunctionOnSet(f, Streams)
  <2>1. \A t \in Streams :
          /\ CallHolds(t).slot \in Nat /\ CallHolds(t).frame \in Nat
          /\ CallHolds(t).bytes \in Nat /\ CallHolds(t).conn \in Nat
          /\ ChunksHold(queue[t]).slot \in Nat /\ ChunksHold(queue[t]).frame \in Nat
          /\ ChunksHold(queue[t]).bytes \in Nat /\ ChunksHold(queue[t]).conn \in Nat
    BY <1>0, HoldsNat, SMTT(30)
  <2>2. \A t \in Streams :
          /\ ChunksHold(queue'[t]).slot = 0 /\ ChunksHold(queue'[t]).frame = 0
          /\ ChunksHold(queue'[t]).bytes = 0 /\ ChunksHold(queue'[t]).conn = 0
    BY <1>11, ChunksHoldIs, SizeEmpty, ZenonT(40) DEF End
  <2>3. \A t \in Streams : CallHolds(t)' = CallHolds(t)
    BY <1>11, Zenon DEF End, CallHolds
  <2>4. ASSUME NEW t \in Streams
        PROVE  /\ (slots[t] + CallHolds(t).slot + ChunksHold(queue[t]).slot)' = StreamSlots
               /\ (bytes[t] + CallHolds(t).bytes + ChunksHold(queue[t]).bytes)' = StreamBytes
    <3>1. /\ slots'[t] = slots[t] + ChunksHold(queue[t]).slot /\ slots[t] \in Nat
          /\ bytes'[t] = bytes[t] + ChunksHold(queue[t]).bytes /\ bytes[t] \in Nat
      BY <1>0, <1>11, Zenon DEF End, TypesInv
    <3>2. /\ slots[t] + CallHolds(t).slot + ChunksHold(queue[t]).slot = StreamSlots
          /\ bytes[t] + CallHolds(t).bytes + ChunksHold(queue[t]).bytes = StreamBytes
      BY <1>0, ZenonT(40) DEF BudgetsExact
    <3>3. slots'[t] + CallHolds(t)'.slot + ChunksHold(queue'[t]).slot = StreamSlots
      BY <2>1, <2>2, <2>3, <3>1, <3>2, SMTT(30)
    <3>4. bytes'[t] + CallHolds(t)'.bytes + ChunksHold(queue'[t]).bytes = StreamBytes
      BY <2>1, <2>2, <2>3, <3>1, <3>2, SMTT(30)
    <3> QED BY <3>3, <3>4, Zenon
  <2>5. /\ \A t \in Streams : fc[t] \in Nat /\ fq[t] \in Nat /\ FrameUse[t] = fc[t] + fq[t]
        /\ \A t \in Streams : cc[t] \in Nat /\ cq[t] \in Nat /\ ConnUse[t] = cc[t] + cq[t]
    BY <2>1, ZenonT(40) DEF FrameUse, ConnUse
  <2>6. FrameUse' = fc /\ ConnUse' = cc
    BY <2>1, <2>2, <2>3, SMTT(30) DEF FrameUse, ConnUse
  <2>7. frames' = frames + S(fq) /\ conn' = conn + S(cq)
    BY <1>11, Zenon DEF End, SumFunction
  <2>8. frames + S(FrameUse) = MaxFrames /\ conn + S(ConnUse) = ConnBytes
    BY <1>0, Zenon DEF BudgetsExact, FrameUse, ConnUse, SumFunction
  <2>9. frames \in Nat /\ conn \in Nat
    BY <1>0, Zenon DEF TypesInv
  <2> HIDE DEF fc, fq, cc, cq
  <2>10. S(FrameUse) = S(fc) + S(fq) /\ S(ConnUse) = S(cc) + S(cq)
    BY <2>5, BudgetAssumption, SumPlus, SMTT(30)
  <2>11. S(fc) \in Nat /\ S(fq) \in Nat /\ S(cc) \in Nat /\ S(cq) \in Nat
    BY <2>5, BudgetAssumption, SumNat, ZenonT(40)
  <2>12. frames' + S(fc) = MaxFrames /\ conn' + S(cc) = ConnBytes
    BY <2>7, <2>8, <2>9, <2>10, <2>11, SMTT(30)
  <2>13. frames' + S(FrameUse') = MaxFrames /\ conn' + S(ConnUse') = ConnBytes
    BY <2>6, <2>12, Zenon
  <2> QED BY <2>4, <2>13, ZenonT(40) DEF BudgetsExact, FrameUse, ConnUse, SumFunction
<1>12. CASE UNCHANGED <<pc, need, permits, queue>>
  BY <1>0, <1>12, ZenonT(40) DEF BudgetsExact, CallHolds, permits
<1> QED
  BY <1>1, <1>2, <1>3, <1>4, <1>5, <1>6, <1>7, <1>8, <1>9, <1>10, <1>11, <1>12, ZenonT(40)
  DEF Next, Poll, Fail, Cancel, Close, vars

-----------------------------------------------------------------------------
(* What the invariant gives. *)

\* BInvAlways: the inductive invariant holds always.
LEMMA BInvAlways == Spec => []BInv
<1>1. BInv /\ [Next]_vars => BInv'
  BY TypesKeep, LinesKeep, ExactKeep, Zenon DEF BInv
<1> QED BY InitInv, <1>1, PTL DEF Spec

\* BudgetsStayExact: for any number of streams, any limits and any payload sizes
\* every permit of the four semaphores is at all times available, held by the call
\* that took it, or held by a queued chunk: no path of failures, dropped calls,
\* resets and the end of the connection loses a permit or returns one twice.
THEOREM BudgetsStayExact == Spec => []BudgetsExact
<1>1. BInv => BudgetsExact
  BY Zenon DEF BInv
<1> QED BY BInvAlways, <1>1, PTL

\* TypeCorrect: the semaphores never hold more permits than they were created with,
\* and their lines hold exactly the calls that wait in them.
THEOREM TypeCorrect == Spec => []TypeOK
<1>1. BInv => TypeOK
  <2> SUFFICES ASSUME BInv PROVE TypeOK
    BY Zenon
  <2>0. TypesInv /\ LinesInv /\ BudgetsExact
    BY Zenon DEF BInv
  <2>1. ASSUME NEW s \in Streams
        PROVE  slots[s] \in 0..StreamSlots /\ bytes[s] \in 0..StreamBytes
    <3>1. /\ CallHolds(s).slot \in Nat /\ CallHolds(s).bytes \in Nat
          /\ ChunksHold(queue[s]).slot \in Nat /\ ChunksHold(queue[s]).bytes \in Nat
      BY <2>0, HoldsNat, SMTT(30)
    <3>2. /\ slots[s] \in Nat /\ bytes[s] \in Nat
          /\ slots[s] + CallHolds(s).slot + ChunksHold(queue[s]).slot = StreamSlots
          /\ bytes[s] + CallHolds(s).bytes + ChunksHold(queue[s]).bytes = StreamBytes
      BY <2>0, Zenon DEF TypesInv, BudgetsExact
    <3> QED BY <3>1, <3>2, SMTT(30)
  <2>2. frames \in 0..MaxFrames /\ conn \in 0..ConnBytes
    <3>1. \A s \in Streams : FrameUse[s] \in Nat /\ ConnUse[s] \in Nat
      BY <2>0, HoldsNat, SMTT(30) DEF FrameUse, ConnUse
    <3>2. SumFunctionOnSet(FrameUse, Streams) \in Nat /\ SumFunctionOnSet(ConnUse, Streams) \in Nat
      BY <3>1, BudgetAssumption, SumNat, Zenon
    <3>3. /\ frames + SumFunctionOnSet(FrameUse, Streams) = MaxFrames
          /\ conn + SumFunctionOnSet(ConnUse, Streams) = ConnBytes
      BY <2>0, Zenon DEF BudgetsExact, FrameUse, ConnUse, SumFunction
    <3>4. frames \in Nat /\ conn \in Nat
      BY <2>0, Zenon DEF TypesInv
    <3> QED BY <3>2, <3>3, <3>4, SMTT(30)
  <2>3. slots \in [Streams -> 0..StreamSlots] /\ bytes \in [Streams -> 0..StreamBytes]
    BY <2>0, <2>1, ZenonT(40) DEF TypesInv
  <2> QED BY <2>0, <2>2, <2>3, Zenon DEF TypeOK, TypesInv, LinesInv
<1> QED BY BInvAlways, <1>1, PTL

\* FrameSlotIsFree: for any number of streams a call that holds a frame slot of its
\* stream finds one of the connection: dividing max_queued_outbound_frames by
\* max_open_streams isolates the streams from one another.
THEOREM FrameSlotIsFree == Spec => []FrameSlotFree
<1>1. BInv => FrameSlotFree
  <2> SUFFICES ASSUME BInv, NEW s \in Streams, pc[s] = "frame" PROVE frames > 0
    BY Zenon DEF FrameSlotFree
  <2> DEFINE n == Cardinality(Streams)
             full == [t \in Streams |-> IF t = s THEN FrameUse[t] + 1 ELSE FrameUse[t]]
  <2>0. TypesInv /\ BudgetsExact
    BY Zenon DEF BInv
  <2>1. n \in Nat \ {0} /\ StreamSlots \in Nat
    BY BudgetAssumption, FS_CardinalityType, FS_EmptySet, SMTT(30) DEF StreamSlots
  <2>2. ASSUME NEW t \in Streams
        PROVE  FrameUse[t] \in Nat /\ full[t] \in Nat /\ full[t] <= StreamSlots
    <3>1. /\ CallHolds(t).slot \in Nat /\ CallHolds(t).frame \in Nat
          /\ CallHolds(t).frame <= CallHolds(t).slot
          /\ ChunksHold(queue[t]).slot \in Nat
          /\ ChunksHold(queue[t]).frame = ChunksHold(queue[t]).slot
      BY <2>0, HoldsNat, SMTT(30)
    <3>2. /\ slots[t] \in Nat
          /\ slots[t] + CallHolds(t).slot + ChunksHold(queue[t]).slot = StreamSlots
      BY <2>0, Zenon DEF TypesInv, BudgetsExact
    <3>3. FrameUse[t] = CallHolds(t).frame + ChunksHold(queue[t]).frame
      BY Zenon DEF FrameUse
    <3>4. t = s => CallHolds(t).slot = 1 /\ CallHolds(t).frame = 0
      BY Zenon DEF CallHolds
    <3>5. full[t] = IF t = s THEN FrameUse[t] + 1 ELSE FrameUse[t]
      BY Zenon
    <3> HIDE DEF full
    <3> QED BY <2>1, <3>1, <3>2, <3>3, <3>4, <3>5, SMTT(30)
  <2>3. (\A t \in Streams \ {s} : full[t] = FrameUse[t]) /\ full[s] = FrameUse[s] + 1
    BY Zenon
  <2> HIDE DEF full
  <2>4. SumFunctionOnSet(full, Streams) <= n * StreamSlots
    BY <2>1, <2>2, BudgetAssumption, SumAtMost, ZenonT(40)
  <2>5. SumFunctionOnSet(full, Streams) + FrameUse[s] = SumFunctionOnSet(FrameUse, Streams) + full[s]
    BY <2>2, <2>3, BudgetAssumption, SumChange, SMTT(30)
  <2>6. SumFunctionOnSet(full, Streams) \in Nat /\ SumFunctionOnSet(FrameUse, Streams) \in Nat
    BY <2>2, BudgetAssumption, SumNat, ZenonT(40)
  <2>7. n * StreamSlots <= MaxFrames
    BY <2>1, BudgetAssumption, SMTT(30) DEF StreamSlots
  <2>8. frames + SumFunctionOnSet(FrameUse, Streams) = MaxFrames /\ frames \in Nat
    BY <2>0, ZenonT(40) DEF BudgetsExact, FrameUse, SumFunction, TypesInv
  <2>9. SumFunctionOnSet(full, Streams) = SumFunctionOnSet(FrameUse, Streams) + 1
    <3>1. ASSUME NEW a \in Nat, NEW b \in Nat, NEW c \in Nat, a + c = b + (c + 1) PROVE a = b + 1
      BY <3>1, SMTT(30)
    <3>2. FrameUse[s] \in Nat /\ full[s] = FrameUse[s] + 1
      BY <2>2, <2>3, ZenonT(40)
    <3> QED BY <2>5, <2>6, <3>1, <3>2, SMTT(30)
  <2>10. n * StreamSlots \in Nat /\ MaxFrames \in Nat
    BY <2>1, BudgetAssumption, SMTT(30)
  <2> HIDE DEF n
  <2> QED BY <2>4, <2>6, <2>7, <2>8, <2>9, <2>10, SMTT(30)
<1> QED BY BInvAlways, <1>1, PTL

=============================================================================
