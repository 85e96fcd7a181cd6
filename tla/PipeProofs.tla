----------------------------- MODULE PipeProofs -----------------------------
(***************************************************************************)
(* The receiving side's steps keep the invariant of PipeSteps; every step of *)
(* Pipe is a step of ByteStream or not seen by it; the theorems.  The step   *)
(* lemmas assume the laws of Bytes (BytesLaws); the module proves the laws   *)
(* last, from the sums of DataLemmas.                                        *)
(***************************************************************************)
EXTENDS PipeSteps, TLAPS

-----------------------------------------------------------------------------
(* The receiver. *)

\* Quantities: the numbers that the accounts add up.
LEMMA Quantities ==
  ASSUME BytesLaws, PInv
  PROVE  /\ Bytes(chunks) \in Nat /\ Len(buf) \in Nat /\ giving \in Nat /\ Len(read) \in Nat
         /\ consumedC \in Nat /\ consumedS \in Nat /\ received \in Nat
         /\ permitsC \in Nat /\ permitsS \in Nat
         /\ ConnWindow \in Nat /\ StreamWindow \in Nat
         /\ buf \in Seq(Nat) /\ read \in Seq(Nat) /\ chunks \in Seq(Chunk)
<1>1. /\ buf \in Seq(Nat) /\ read \in Seq(Nat) /\ chunks \in Seq(Chunk) /\ giving \in Nat
      /\ permitsC \in Nat /\ permitsS \in Nat
  BY Zenon DEF PInv, RecvTypes
<1>2. Bytes(chunks) \in Nat /\ Len(buf) \in Nat /\ Len(read) \in Nat
  BY <1>1, SMTT(30) DEF BytesLaws
<1>3. consumedC \in Nat /\ consumedS \in Nat /\ received \in Nat
  BY Zenon DEF PInv, CreditInv
<1> QED BY <1>1, <1>2, <1>3, InboundAssumption, ZenonT(40)

\* FrameAtHand: while push_inbound is at work the direction has not ended and the frame
\* holds the last bytes received.
LEMMA FrameAtHand ==
  ASSUME PInv, reader \in {"push", "lock"}
  PROVE  /\ frame.type = "stream" /\ frame.data # <<>> /\ ~frame.fin /\ frame.data \in Seq(Nat)
         /\ Len(frame.data) \in Nat /\ InReader = Len(frame.data) /\ AfterPayload(frame) = "idle"
         /\ ~finReceived /\ ~recvTerminal /\ ~resetError /\ ~RecvEnded
         /\ Len(frame.data) <= received
         /\ frame.data = Run(received - Len(frame.data), received)
<1>1. /\ frame.type = "stream" /\ frame.data # <<>> /\ ~frame.fin
      /\ frame \in Frames \cup {NoFrame}
      /\ ~finReceived /\ ~recvTerminal /\ ~resetError
  BY Zenon DEF PInv, RecvCtl
<1>2. frame \in Frames
  BY <1>1, SMTT(30) DEF NoFrame
<1>3. frame.data \in Seq(Nat) /\ Len(frame.data) \in Nat
  BY <1>2, SMTT(30) DEF Frames
<1>4. InReader = Len(frame.data) /\ AfterPayload(frame) = "idle"
  BY <1>1, ZenonT(40) DEF InReader, AfterPayload
<1>5. ~RecvEnded
  BY <1>1, ZenonT(40) DEF RecvEnded
<1>6. Len(frame.data) <= received /\ frame.data = Run(received - Len(frame.data), received)
  BY ZenonT(40) DEF PInv, ReadInv
<1> QED BY <1>1, <1>3, <1>4, <1>5, <1>6, ZenonT(40)

\* ReceiverKeeps: the steps of the receiving side (push_inbound, the ends of the
\* direction, read_chunk and poll_read, the drop of the handle and its cleanup) keep
\* the invariant.
LEMMA ReceiverKeeps == ASSUME BytesLaws, PInv, Receiver PROVE PInv'
\* PushAcquireKeeps: push_inbound takes the permits of both budgets, or fails the
\* connection.
<1>PushAcquireKeeps.
    ASSUME PInv, PushAcquire, UNCHANGED outVars, UNCHANGED <<wire, back>>
    PROVE  PInv'
  <2> USE <1>PushAcquireKeeps
  <2> /\ SInv /\ WireInv /\ CreditInv
      /\ RecvTypes /\ RecvCtl /\ AccountInv /\ ReadInv /\ NotifyInv
    BY Zenon DEF PInv
  <2> DEFINE n == Len(frame.data)
             got == ~discarded /\ ~recvClosed /\ permitsC >= n /\ permitsS >= n
             B == Bytes(chunks)
             b == Len(buf)
  <2>1. /\ reader = "push" /\ frame.type = "stream" /\ frame.data # <<>> /\ ~frame.fin
        /\ n \in Nat /\ InReader = n /\ AfterPayload(frame) = "idle"
        /\ ~finReceived /\ ~recvTerminal /\ ~resetError /\ ~RecvEnded
        /\ n <= received /\ frame.data = Run(received - n, received)
    BY FrameAtHand, ZenonT(40) DEF PushAcquire
  <2>2. /\ B \in Nat /\ b \in Nat /\ giving \in Nat /\ Len(read) \in Nat
        /\ consumedC \in Nat /\ consumedS \in Nat /\ received \in Nat
        /\ permitsC \in Nat /\ permitsS \in Nat /\ ConnWindow \in Nat /\ StreamWindow \in Nat
    BY Quantities, ZenonT(40)
  <2>3. /\ consumedC' = IF discarded THEN consumedC + n ELSE consumedC
        /\ permitsC' = IF got THEN permitsC - n ELSE permitsC
        /\ permitsS' = IF got THEN permitsS - n ELSE permitsS
        /\ reader' = IF discarded THEN "idle" ELSE IF got THEN "lock" ELSE "failed"
        /\ frame' = IF reader' = "lock" THEN frame ELSE NoFrame
    BY <2>1, ZenonT(40) DEF PushAcquire
  <2>4. /\ UNCHANGED <<chunks, resetError, finReceived, recvClosed, recvTerminal,
                       discarded, received, consumedS, grantedC, grantedS>>
        /\ UNCHANGED <<recvMode, app, buf, giving, permit, woken, cleaner, read, outcome>>
    BY ZenonT(40) DEF PushAcquire, inboundState, application, notifier
  <2>5. /\ received = consumedC + B + b + giving + n
        /\ ~discarded => received = consumedS + B + b + giving + n
        /\ permitsC + (B + b + 0) = ConnWindow /\ permitsS + (B + b + 0) = StreamWindow
    BY <2>1, ZenonT(40) DEF AccountInv
  <2>6. /\ grantedC \in Nat /\ grantedS \in Nat
        /\ received <= grantedC /\ received <= grantedS
        /\ grantedC <= consumedC + ConnWindow /\ grantedS <= consumedS + StreamWindow
    BY ZenonT(40) DEF CreditInv
  <2> HIDE DEF n, B, b, got
  <2>7. permitsC >= n /\ (~discarded => permitsS >= n)
    BY <2>1, <2>2, <2>5, <2>6, SMTT(30)
  <2>8. got <=> ~discarded /\ ~recvClosed
    BY <2>7, ZenonT(40) DEF got
  <2>9. SInv'
    BY SendSame, ZenonT(40)
  <2>10. reader' \in {"idle", "lock", "failed"} /\ ~RecvEnded'
    BY <2>1, <2>3, <2>4, ZenonT(40) DEF RecvEnded
  <2>11. WireInv'
    BY <2>1, <2>4, <2>10, ReceiverWire, ZenonT(40)
  <2>12. consumedC' \in Nat /\ consumedC <= consumedC'
    BY <2>1, <2>2, <2>3, SMTT(30)
  <2>13. CreditInv'
    BY <2>2, <2>4, <2>12, ReceiverCredit, SMTT(30)
  <2>14. permitsC' \in Nat /\ permitsS' \in Nat
    BY <2>1, <2>2, <2>3, <2>7, <2>8, SMTT(30)
  <2>15. RecvTypes'
    BY <2>4, <2>10, <2>14, SMTT(30) DEF RecvTypes
  <2>16. frame' \in Frames \cup {NoFrame}
    BY <2>3, ZenonT(40) DEF RecvCtl
  <2>17. RecvCtl'
    BY <2>1, <2>3, <2>4, <2>8, <2>16, ZenonT(40) DEF RecvCtl
  <2>18. Bytes(chunks') = B /\ Len(buf') = b
    BY <2>4, ZenonT(40) DEF B, b
  <2>19. InReader' = IF reader' = "lock" THEN n ELSE 0
    BY <2>3, <2>10, ZenonT(40) DEF InReader, n
  <2>20. AccountInv'
    <3>1. CASE discarded
      <4>1. received = (consumedC + n) + B + b + giving + 0
        BY <2>1, <2>2, <2>5, SMTT(30)
      <4>2. reader' = "idle" /\ InReader' = 0 /\ consumedC' = consumedC + n
        BY <2>3, <2>19, <3>1, ZenonT(40)
      <4>3. permitsC' = permitsC /\ permitsS' = permitsS
        BY <2>3, <2>8, <3>1, ZenonT(40)
      <4> QED BY <2>4, <2>5, <2>18, <3>1, <4>1, <4>2, <4>3, ZenonT(40) DEF AccountInv
    <3>2. CASE ~discarded /\ got
      <4>1. reader' = "lock" /\ InReader' = n /\ consumedC' = consumedC /\ Len(frame'.data) = n
        BY <2>3, <2>19, <3>2, ZenonT(40) DEF n
      <4>2. permitsC' + (B + b + n) = ConnWindow /\ permitsS' + (B + b + n) = StreamWindow
        <5>1. permitsC' = permitsC - n /\ permitsS' = permitsS - n
          BY <2>3, <3>2, ZenonT(40)
        <5>2. (permitsC - n) + (B + b + n) = permitsC + (B + b + 0)
          BY <2>1, <2>2, SMTT(30)
        <5>3. (permitsS - n) + (B + b + n) = permitsS + (B + b + 0)
          BY <2>1, <2>2, SMTT(30)
        <5> QED BY <2>5, <5>1, <5>2, <5>3, ZenonT(40)
      <4> QED BY <2>4, <2>5, <2>18, <4>1, <4>2, ZenonT(40) DEF AccountInv
    <3>3. CASE ~discarded /\ ~got
      <4>1. reader' = "failed" /\ permitsC' = permitsC /\ permitsS' = permitsS
        BY <2>3, <3>3, ZenonT(40)
      <4> QED BY <2>4, <2>5, <2>18, <4>1, ZenonT(40) DEF AccountInv
    <3> QED BY <3>1, <3>2, <3>3, ZenonT(40)
  <2>21. ReadInv'
    <3>1. ASSUME cleaner = "idle"
          PROVE  \E m \in Nat : /\ Len(read) + Len(buf) <= m /\ m <= received
                                /\ Chain(chunks, Len(read) + Len(buf), m)
                                /\ reader' # "failed" => m = received - InReader'
      <4>1. PICK m \in Nat : /\ Len(read) + Len(buf) <= m /\ m <= received
                             /\ Chain(chunks, Len(read) + Len(buf), m)
                             /\ m = received - n
        BY <2>1, <3>1, ZenonT(40) DEF ReadInv
      <4>2. ~discarded
        BY <3>1, ZenonT(40) DEF RecvCtl
      <4> QED BY <2>3, <2>19, <4>1, <4>2, ZenonT(40)
    <3>2. reader' \in {"push", "lock"} =>
            /\ Len(frame'.data) <= received
            /\ frame'.data = Run(received - Len(frame'.data), received)
      BY <2>1, <2>3, <2>10, ZenonT(40) DEF n
    <3> QED BY <2>4, <3>1, <3>2, ZenonT(40) DEF ReadInv
  <2>22. NotifyInv'
    BY <2>1, <2>4, ZenonT(40) DEF NotifyInv
  <2> QED BY <2>9, <2>11, <2>13, <2>15, <2>17, <2>20, <2>21, <2>22, ZenonT(40) DEF PInv
\* PushLockedKeeps: push_inbound files the payload, or gives it back when the handle is
\* gone.
<1>PushLockedKeeps.
    ASSUME PInv, PushLocked, UNCHANGED outVars, UNCHANGED <<wire, back>>
    PROVE  PInv'
  <2> USE <1>PushLockedKeeps
  \* FiledChunks: push_inbound files the payload behind the chunks there are, whether or
  \* not it joins the page at the tail.
  <2>FiledChunks.
      ASSUME chunks \in Seq(Chunk), NEW data \in Seq(Nat)
      PROVE  /\ Filed(data) \in Seq(Chunk)
             /\ Bytes(Filed(data)) = Bytes(chunks) + Len(data)
             /\ \A a, b \in Nat : \A c \in Nat :
                  b <= c /\ Chain(chunks, a, b) /\ data = Run(b, c) => Chain(Filed(data), a, c)
    <3> USE <2>FiledChunks
    \* ChainJoin: the bytes that come next join the last segment (the page of
    \* push_inbound).
    <3>ChainJoin.
        ASSUME NEW S, NEW segs \in Seq(S), NEW a, NEW b, NEW c \in Nat,
               b <= c, Chain(segs, a, b), segs # <<>>,
               NEW e, e.data = segs[Len(segs)].data \o Run(b, c)
        PROVE  Chain([segs EXCEPT ![Len(segs)] = e], a, c)
      <4> USE <3>ChainJoin
      <4> DEFINE n == Len(segs)
                 t == [segs EXCEPT ![n] = e]
      <4>1. /\ n \in Nat \ {0} /\ Len(t) = n /\ t[n] = e
            /\ \A i \in 1..n : i # n => t[i] = segs[i]
        BY SMTT(30)
      <4>2. PICK cut \in [0..n -> Nat] :
              /\ cut[0] = a /\ cut[n] = b
              /\ \A i, j \in 0..n : i <= j => cut[i] <= cut[j]
              /\ \A i \in 1..n : segs[i].data = Run(cut[i - 1], cut[i])
        BY ZenonT(40) DEF Chain
      <4>0. e.data = segs[n].data \o Run(b, c)
        BY ZenonT(40)
      <4> HIDE DEF n, t
      <4> DEFINE d == [i \in 0..n |-> IF i = n THEN c ELSE cut[i]]
      <4>3. d \in [0..n -> Nat] /\ d[n] = c /\ \A i \in 0..n : i # n => d[i] = cut[i]
        BY <4>1, SMTT(30)
      <4> HIDE DEF d
      <4>4. \A i \in 0..n : cut[i] <= c /\ cut[i] \in Nat
        BY <4>1, <4>2, SMTT(30)
      <4>5. ASSUME NEW i \in 0..n, NEW j \in 0..n, i <= j PROVE d[i] <= d[j]
        <5>1. CASE j # n
          <6>1. i # n
            BY <4>1, <4>5, <5>1, SMTT(30)
          <6>2. d[i] = cut[i] /\ d[j] = cut[j]
            BY <4>3, <5>1, <6>1, Zenon
          <6> QED BY <4>2, <4>5, <6>2, Zenon
        <5>2. CASE j = n
          <6>1. CASE i = n
            BY <4>3, <5>2, <6>1, SMTT(30)
          <6>2. CASE i # n
            BY <4>3, <4>4, <5>2, <6>2, ZenonT(40)
          <6> QED BY <6>1, <6>2, ZenonT(40)
        <5> QED BY <5>1, <5>2, Zenon
      <4>6. ASSUME NEW i \in 1..n PROVE t[i].data = Run(d[i - 1], d[i])
        <5>1. CASE i = n
          <6>1. segs[n].data = Run(cut[n - 1], b) /\ d[n - 1] = cut[n - 1]
                /\ cut[n - 1] \in Nat /\ cut[n - 1] <= b /\ b \in Nat
            BY <4>1, <4>2, <4>3, SMTT(30)
          <6>2. Run(cut[n - 1], b) \o Run(b, c) = Run(cut[n - 1], c)
            BY <6>1, RunJoin, ZenonT(40)
          <6> QED BY <4>0, <4>1, <4>3, <5>1, <6>1, <6>2, ZenonT(40)
        <5>2. CASE i # n
          <6>1. d[i] = cut[i] /\ d[i - 1] = cut[i - 1] /\ t[i] = segs[i]
            BY <4>1, <4>3, <5>2, SMTT(30)
          <6> QED BY <4>2, <6>1, ZenonT(40)
        <5> QED BY <5>1, <5>2, ZenonT(40)
      <4>7. d[0] = a
        BY <4>1, <4>2, <4>3, SMTT(30)
      <4>8. Chain(t, a, c)
        BY <4>1, <4>3, <4>5, <4>6, <4>7, ZenonT(40) DEF Chain
      <4> QED BY <4>8, ZenonT(40) DEF t, n
    <3> DEFINE last == Len(chunks)
               joins == last > 0 /\ chunks[last].page
                        /\ Len(chunks[last].data) + Len(data) <= PageSize
    <3>1. last \in Nat
      BY SMTT(30)
    <3>2. CASE joins
      <4>1. last \in 1..last /\ chunks # <<>> /\ chunks[last] \in Chunk
        BY <3>1, <3>2, SMTT(30)
      <4>2. chunks[last].data \in Seq(Nat)
        BY <4>1, ZenonT(40) DEF Chunk
      <4> DEFINE e == [data |-> chunks[last].data \o data, page |-> TRUE]
      <4>3. e \in Chunk /\ e.data = chunks[last].data \o data
        BY <4>2, SMTT(30) DEF Chunk
      <4>4. Filed(data) = [chunks EXCEPT ![last] = e]
        BY <3>2, Zenon DEF Filed
      <4> HIDE DEF e
      <4>5. Filed(data) \in Seq(Chunk)
        <5>1. \A i \in 1..Len(chunks) : [chunks EXCEPT ![last] = e][i] \in Chunk
          BY <4>1, <4>3, SMTT(30)
        <5> QED BY <3>1, <4>1, <4>3, <4>4, <5>1, SMTT(30)
      <4>6. Len(e.data) = Len(chunks[last].data) + Len(data) /\ Len(data) \in Nat
        BY <4>2, <4>3, SMTT(30)
      <4>7. Bytes(Filed(data)) = Bytes(chunks) + Len(data)
        <5>1. PICK k \in Nat : k = Len(data) /\ Len(e.data) = Len(chunks[Len(chunks)].data) + k
          BY <4>6, ZenonT(40)
        <5>2. Bytes([chunks EXCEPT ![Len(chunks)] = e]) = Bytes(chunks) + k
          BY <4>1, <4>3, <5>1, ZenonT(40) DEF BytesLaws
        <5> QED BY <4>4, <5>1, <5>2, ZenonT(40)
      <4>8. ASSUME NEW a \in Nat, NEW b \in Nat, NEW c \in Nat,
                   b <= c, Chain(chunks, a, b), data = Run(b, c)
            PROVE  Chain(Filed(data), a, c)
        <5>1. e.data = chunks[Len(chunks)].data \o Run(b, c)
          BY <4>3, <4>8, ZenonT(40)
        <5>2. Chain([chunks EXCEPT ![Len(chunks)] = e], a, c)
          BY <4>1, <4>8, <5>1, <3>ChainJoin, ZenonT(40)
        <5> QED BY <4>4, <5>2, ZenonT(40)
      <4> QED BY <4>5, <4>7, <4>8, ZenonT(40)
    <3>3. CASE ~joins
      <4> DEFINE e == [data |-> data, page |-> Len(data) < (PageSize + 1) \div 2]
      <4>1. e \in Chunk /\ e.data = data
        BY SMTT(30) DEF Chunk
      <4>2. Filed(data) = Append(chunks, e)
        BY <3>3, ZenonT(40) DEF Filed
      <4> HIDE DEF e
      <4>3. Filed(data) \in Seq(Chunk)
        BY <4>1, <4>2, SMTT(30)
      <4>4. Bytes(Filed(data)) = Bytes(chunks) + Len(data)
        BY <4>1, <4>2, ZenonT(40) DEF BytesLaws
      <4>5. ASSUME NEW a \in Nat, NEW b \in Nat, NEW c \in Nat,
                   b <= c, Chain(chunks, a, b), data = Run(b, c)
            PROVE  Chain(Filed(data), a, c)
        BY <4>1, <4>2, <4>5, ChainPut, Zenon
      <4> QED BY <4>3, <4>4, <4>5, Zenon
    <3> QED BY <3>2, <3>3, ZenonT(40)
  \* FiledMoves: filing moves the frame's bytes from the reader to the chunks.
  <2>FiledMoves.
      ASSUME NEW c \in Nat, NEW x \in Nat, NEW y \in Nat, NEW g \in Nat, NEW n \in Nat
      PROVE  /\ c + (x + n) + y + g + 0 = c + x + y + g + n
             /\ (x + n) + y + 0 = x + y + n
    BY <2>FiledMoves, SMTT(30)
  <2> /\ SInv /\ WireInv /\ CreditInv
      /\ RecvTypes /\ RecvCtl /\ AccountInv /\ ReadInv /\ NotifyInv
    BY Zenon DEF PInv
  <2> DEFINE n == Len(frame.data)
             B == Bytes(chunks)
             b == Len(buf)
  <2>1. /\ reader = "lock" /\ frame.data # <<>> /\ frame.data \in Seq(Nat)
        /\ n \in Nat /\ InReader = n /\ AfterPayload(frame) = "idle"
        /\ ~finReceived /\ ~recvTerminal /\ ~resetError /\ ~RecvEnded
        /\ n <= received /\ frame.data = Run(received - n, received)
    BY FrameAtHand, ZenonT(40) DEF PushLocked
  <2>2. /\ B \in Nat /\ b \in Nat /\ giving \in Nat /\ Len(read) \in Nat
        /\ consumedC \in Nat /\ consumedS \in Nat /\ received \in Nat
        /\ permitsC \in Nat /\ permitsS \in Nat /\ ConnWindow \in Nat /\ StreamWindow \in Nat
        /\ chunks \in Seq(Chunk)
    BY Quantities, ZenonT(40)
  <2>3. /\ IF discarded THEN UNCHANGED notifier ELSE NotifyOne
        /\ chunks' = IF discarded THEN chunks ELSE Filed(frame.data)
        /\ permitsC' = IF discarded THEN permitsC + n ELSE permitsC
        /\ permitsS' = IF discarded THEN permitsS + n ELSE permitsS
        /\ consumedC' = IF discarded THEN consumedC + n ELSE consumedC
        /\ reader' = "idle" /\ frame' = NoFrame
    BY <2>1, ZenonT(40) DEF PushLocked
  <2>4. /\ UNCHANGED <<resetError, finReceived, recvClosed, recvTerminal,
                       discarded, received, consumedS, grantedC, grantedS>>
        /\ UNCHANGED <<recvMode, app, buf, giving, cleaner, read, outcome>>
    BY ZenonT(40) DEF PushLocked, application
  <2>5. /\ received = consumedC + B + b + giving + n
        /\ ~discarded => received = consumedS + B + b + giving + n
        /\ permitsC + (B + b + n) = ConnWindow /\ permitsS + (B + b + n) = StreamWindow
    BY <2>1, ZenonT(40) DEF AccountInv
  <2>6. /\ Filed(frame.data) \in Seq(Chunk) /\ Bytes(Filed(frame.data)) = B + n
        /\ \A a, k \in Nat : \A c \in Nat :
             k <= c /\ Chain(chunks, a, k) /\ frame.data = Run(k, c)
               => Chain(Filed(frame.data), a, c)
    BY <2>1, <2>2, <2>FiledChunks, ZenonT(40)
  <2> HIDE DEF n, B, b
  <2>7. /\ permit' \in BOOLEAN /\ woken' \in BOOLEAN
        /\ ~discarded /\ app = "wait" => woken'
        /\ ~discarded /\ app = "poll" => permit'
        /\ discarded => permit' = permit /\ woken' = woken
    <3>1. permit \in BOOLEAN /\ woken \in BOOLEAN
      BY ZenonT(40) DEF RecvTypes
    <3> QED BY <2>3, <3>1, ZenonT(40) DEF NotifyOne, notifier
  <2>8. SInv'
    BY SendSame, Zenon
  <2>9. ~RecvEnded'
    BY <2>1, <2>3, <2>4, ZenonT(40) DEF RecvEnded
  <2>10. WireInv'
    BY <2>1, <2>4, <2>9, ReceiverWire, ZenonT(40)
  <2>11. /\ consumedC' \in Nat /\ consumedC <= consumedC'
         /\ permitsC' \in Nat /\ permitsS' \in Nat
    BY <2>1, <2>2, <2>3, SMTT(30)
  <2>12. CreditInv'
    BY <2>2, <2>4, <2>11, ReceiverCredit, SMTT(30)
  <2>13. chunks' \in Seq(Chunk)
    BY <2>2, <2>3, <2>6, ZenonT(40)
  <2>14. RecvTypes'
    BY <2>3, <2>4, <2>7, <2>11, <2>13, SMTT(30) DEF RecvTypes
  <2>15. RecvCtl'
    BY <2>1, <2>3, <2>4, Zenon DEF RecvCtl
  <2>16. InReader' = 0 /\ Len(buf') = b
    BY <2>3, <2>4, ZenonT(40) DEF InReader, b
  <2>17. ~discarded => cleaner \notin {"stop", "done"}
    BY Zenon DEF RecvCtl
  <2>18. AccountInv'
    <3>1. CASE discarded
      <4>1. received = (consumedC + n) + B + b + giving + 0
        BY <2>1, <2>2, <2>5, SMTT(30)
      <4>2. /\ (permitsC + n) + (B + b + 0) = ConnWindow
            /\ (permitsS + n) + (B + b + 0) = StreamWindow
        BY <2>1, <2>2, <2>5, SMTT(30)
      <4>3. Bytes(chunks') = B /\ chunks' = chunks
        BY <2>3, <3>1, Zenon DEF B
      <4> QED BY <2>1, <2>3, <2>4, <2>16, <3>1, <4>1, <4>2, <4>3, ZenonT(40) DEF AccountInv
    <3>2. CASE ~discarded
      <4>1. /\ received = consumedC + (B + n) + b + giving + 0
            /\ received = consumedS + (B + n) + b + giving + 0
            /\ permitsC + ((B + n) + b + 0) = ConnWindow
            /\ permitsS + ((B + n) + b + 0) = StreamWindow
        <5>1. /\ consumedC + (B + n) + b + giving + 0 = consumedC + B + b + giving + n
              /\ consumedS + (B + n) + b + giving + 0 = consumedS + B + b + giving + n
              /\ (B + n) + b + 0 = B + b + n
          BY <2>1, <2>2, <2>FiledMoves, SMTT(30)
        <5> QED BY <2>5, <3>2, <5>1, ZenonT(40)
      <4>2. Bytes(chunks') = B + n
        BY <2>3, <2>6, <3>2, Zenon
      <4> QED BY <2>1, <2>3, <2>4, <2>16, <2>17, <3>2, <4>1, <4>2, ZenonT(40) DEF AccountInv
    <3> QED BY <3>1, <3>2, Zenon
  <2>19. ReadInv'
    <3>1. ASSUME cleaner = "idle"
          PROVE  /\ Len(read) + b <= received
                 /\ Chain(chunks', Len(read) + b, received)
      <4>1. PICK m \in Nat : /\ Len(read) + b <= m /\ m <= received
                             /\ Chain(chunks, Len(read) + b, m)
                             /\ m = received - n
        BY <2>1, <3>1, ZenonT(40) DEF ReadInv, b
      <4>2. ~discarded /\ Len(read) + b \in Nat
        BY <2>2, <3>1, SMTT(30) DEF RecvCtl
      <4>3. frame.data = Run(m, received)
        BY <2>1, <4>1, Zenon
      <4>4. Chain(Filed(frame.data), Len(read) + b, received)
        BY <2>2, <2>6, <4>1, <4>2, <4>3, ZenonT(40)
      <4> QED BY <2>2, <2>3, <4>1, <4>2, <4>4, SMTT(30)
    <3>2. received - 0 = received /\ received <= received
      BY <2>2, SMTT(30)
    <3>3. cleaner' = "idle" => \E m \in Nat :
            /\ Len(read') + Len(buf') <= m /\ m <= received'
            /\ Chain(chunks', Len(read') + Len(buf'), m)
            /\ m = received' - InReader'
      BY <2>2, <2>4, <2>16, <3>1, <3>2, ZenonT(40)
    <3>4. outcome # "eof"
      BY <2>1, Zenon DEF ReadInv
    <3>5. /\ read = Run(0, Len(read)) /\ buf = Run(Len(read), Len(read) + Len(buf))
          /\ Len(read) + Len(buf) <= received
          /\ buf # <<>> => outcome = "none"
          /\ outcome = "reset" => resetError
      BY Zenon DEF ReadInv
    <3> QED BY <2>3, <2>4, <3>3, <3>4, <3>5, ZenonT(40) DEF ReadInv
  <2>20. NotifyInv'
    <3>1. CASE discarded
      BY <2>1, <2>3, <2>4, <2>7, <3>1, SMTT(30) DEF NotifyInv
    <3>2. CASE ~discarded
      BY <2>4, <2>7, <3>2, Zenon DEF NotifyInv
    <3> QED BY <3>1, <3>2, ZenonT(40)
  <2> QED BY <2>8, <2>10, <2>12, <2>14, <2>15, <2>18, <2>19, <2>20, Zenon DEF PInv
\* ClearedKeeps: chunks.clear() gives back what the chunks hold, once.
<1>ClearedKeeps.
    ASSUME PInv, ClearChunks, UNCHANGED outVars, UNCHANGED <<back, frame, buf, giving, discarded>>,
           reader = "lock" <=> reader' = "lock", reader = "failed" <=> reader' = "failed",
           InReader' = InReader
    PROVE  /\ CreditInv' /\ AccountInv'
           /\ chunks' = <<>> /\ permitsC' \in Nat /\ permitsS' \in Nat
           /\ UNCHANGED <<received, grantedC, grantedS>>
  <2> USE <1>ClearedKeeps
  <2> DEFINE B == Bytes(chunks)
             b == Len(buf)
             l == IF reader = "lock" THEN Len(frame.data) ELSE 0
  <2>0. CreditInv /\ AccountInv
    BY Zenon DEF PInv
  <2>1. /\ B \in Nat /\ b \in Nat /\ giving \in Nat
        /\ consumedC \in Nat /\ consumedS \in Nat /\ received \in Nat
        /\ permitsC \in Nat /\ permitsS \in Nat /\ ConnWindow \in Nat /\ StreamWindow \in Nat
    BY Quantities, Zenon
  <2>2. /\ chunks' = <<>> /\ permitsC' = permitsC + B /\ permitsS' = permitsS + B
        /\ consumedC' = consumedC + B /\ consumedS' = consumedS + B
        /\ UNCHANGED <<received, grantedC, grantedS>>
    BY Zenon DEF ClearChunks
  <2>3. InReader \in Nat /\ l \in Nat
    <3>1. CASE reader \in {"push", "lock"}
      BY <3>1, FrameAtHand, Zenon
    <3>2. CASE reader \notin {"push", "lock"}
      BY <3>2, Zenon DEF InReader
    <3> QED BY <3>1, <3>2, Zenon
  <2>4. /\ reader # "failed" =>
             /\ received = consumedC + B + b + giving + InReader
             /\ ~discarded => received = consumedS + B + b + giving + InReader
        /\ permitsC + (B + b + l) = ConnWindow /\ permitsS + (B + b + l) = StreamWindow
    BY <2>0, Zenon DEF AccountInv
  <2>5. Bytes(chunks') = 0 /\ Len(buf') = b
    BY <2>2, Zenon DEF BytesLaws
  <2>6. l = IF reader' = "lock" THEN Len(frame'.data) ELSE 0
    BY Zenon
  <2>7. /\ consumedC' \in Nat /\ consumedC <= consumedC'
        /\ consumedS' \in Nat /\ consumedS <= consumedS'
        /\ permitsC' \in Nat /\ permitsS' \in Nat
    BY <2>1, <2>2, SMTT(30)
  <2>8. CreditInv'
    BY <2>0, <2>2, <2>7, ReceiverCredit, Zenon
  <2> HIDE DEF B, b, l
  <2>9. \A c, g, r \in Nat : (c + B) + 0 + b + g + r = c + B + b + g + r
    BY <2>1, SMTT(30)
  <2>10. \A p \in Nat : (p + B) + (0 + b + l) = p + (B + b + l)
    BY <2>1, <2>3, SMTT(30)
  <2>11. reader # "failed" =>
             /\ received = (consumedC + B) + 0 + b + giving + InReader
             /\ ~discarded => received = (consumedS + B) + 0 + b + giving + InReader
    BY <2>1, <2>3, <2>4, <2>9, SMTT(30)
  <2>12. /\ (permitsC + B) + (0 + b + l) = ConnWindow
         /\ (permitsS + B) + (0 + b + l) = StreamWindow
    BY <2>1, <2>4, <2>10, Zenon
  <2>13. AccountInv'
    BY <2>2, <2>5, <2>6, <2>11, <2>12, ZenonT(40) DEF AccountInv
  <2> QED BY <2>2, <2>7, <2>8, <2>13, ZenonT(40)
\* MarkResetKeeps: RESET_STREAM drops the chunks and leaves the error to read.
<1>MarkResetKeeps.
    ASSUME PInv, MarkReset, UNCHANGED outVars, UNCHANGED <<wire, back>>
    PROVE  PInv'
  <2> USE <1>MarkResetKeeps
  <2> /\ SInv /\ WireInv /\ CreditInv
      /\ RecvTypes /\ RecvCtl /\ AccountInv /\ ReadInv /\ NotifyInv
    BY Zenon DEF PInv
  <2>1. /\ reader = "reset" /\ reader' = "fin" /\ resetError' = TRUE /\ ClearChunks
        /\ woken' = (woken \/ app \in {"poll", "wait"})
        /\ UNCHANGED <<finReceived, recvClosed, recvTerminal, discarded, frame, cleaner>>
        /\ UNCHANGED <<recvMode, app, buf, giving, permit, read, outcome>>
    BY Zenon DEF MarkReset, NotifyWaiters, application
  <2>2. frame = NoFrame /\ ~finReceived /\ ~recvTerminal /\ ~resetError
    BY <2>1, Zenon DEF RecvCtl
  <2>3. InReader = 0 /\ InReader' = 0
    BY <2>1, Zenon DEF InReader
  <2>4. /\ CreditInv' /\ AccountInv'
        /\ chunks' = <<>> /\ permitsC' \in Nat /\ permitsS' \in Nat
        /\ UNCHANGED <<received, grantedC, grantedS>>
    BY <2>1, <2>3, <1>ClearedKeeps, Zenon
  <2>5. RecvEnded /\ RecvEnded'
    BY <2>1, Zenon DEF RecvEnded
  <2>6. WireInv'
    BY <2>1, <2>4, <2>5, ReceiverWire, ZenonT(40)
  <2>7. SInv'
    BY SendSame, Zenon
  <2>8. chunks' \in Seq(Chunk)
    BY <2>4, SMTT(30)
  <2>9. RecvTypes'
    BY <2>1, <2>4, <2>8, SMTT(30) DEF RecvTypes
  <2>10. RecvCtl'
    BY <2>1, <2>2, Zenon DEF RecvCtl
  <2>11. ReadInv'
    BY <2>1, <2>2, <2>4, ZenonT(40) DEF ReadInv
  <2>12. NotifyInv'
    BY <2>1, Zenon DEF NotifyInv
  <2> QED BY <2>4, <2>6, <2>7, <2>9, <2>10, <2>11, <2>12, ZenonT(40) DEF PInv
\* MarkEndKeeps: a FIN ends the direction, in two steps.
<1>MarkEndKeeps.
    ASSUME PInv, MarkFin \/ MarkTerminal, UNCHANGED outVars, UNCHANGED <<wire, back>>
    PROVE  PInv'
  <2> USE <1>MarkEndKeeps
  <2> /\ SInv /\ WireInv /\ CreditInv
      /\ RecvTypes /\ RecvCtl /\ AccountInv /\ ReadInv /\ NotifyInv
    BY Zenon DEF PInv
  <2>1. /\ UNCHANGED <<chunks, resetError, recvClosed, discarded, received, consumedC,
                       consumedS, grantedC, grantedS, permitsC, permitsS, frame, cleaner>>
        /\ UNCHANGED <<recvMode, app, buf, giving, permit, read, outcome>>
        /\ \/ /\ reader = "fin" /\ reader' = "terminal" /\ finReceived' = TRUE
              /\ UNCHANGED <<recvTerminal, woken>>
           \/ /\ reader = "terminal" /\ reader' = "idle" /\ recvTerminal' = TRUE
              /\ UNCHANGED finReceived
              /\ woken' = (woken \/ app \in {"poll", "wait"})
    <3>1. CASE MarkFin
      BY <3>1, Zenon DEF MarkFin, windows, application, notifier
    <3>2. CASE MarkTerminal
      BY <3>2, Zenon DEF MarkTerminal, inboundState, windows, application, NotifyWaiters
    <3> QED BY <3>1, <3>2, ZenonT(40)
  <2>2. finReceived' = TRUE
    BY <2>1, Zenon DEF RecvCtl, RecvTypes
  <2>3. RecvEnded /\ RecvEnded'
    BY <2>1, <2>2, Zenon DEF RecvEnded
  <2>4. WireInv'
    BY <2>1, <2>3, ReceiverWire, ZenonT(40)
  <2>5. CreditInv'
    BY <2>1, ReceiverCredit, SMTT(30) DEF CreditInv
  <2>6. SInv'
    BY SendSame, ZenonT(40)
  <2>7. RecvTypes'
    <3>1. woken \in BOOLEAN /\ recvTerminal \in BOOLEAN
      BY Zenon DEF RecvTypes
    <3>2. /\ woken' \in BOOLEAN /\ recvTerminal' \in BOOLEAN /\ finReceived' \in BOOLEAN
          /\ reader' \in {"idle", "terminal"}
      BY <2>1, <2>2, <3>1, Zenon
    <3> QED BY <2>1, <3>2, SMTT(30) DEF RecvTypes
  <2>8. RecvCtl'
    BY <2>1, <2>2, Zenon DEF RecvCtl
  <2>9. InReader = 0 /\ InReader' = 0
    BY <2>1, Zenon DEF InReader
  <2>10. AccountInv'
    BY <2>1, <2>9, Zenon DEF AccountInv
  <2>11. ReadInv'
    BY <2>1, <2>2, <2>9, Zenon DEF ReadInv
  <2>12. NotifyInv'
    BY <2>1, Zenon DEF NotifyInv
  <2> QED BY <2>4, <2>5, <2>6, <2>7, <2>8, <2>10, <2>11, <2>12, ZenonT(40) DEF PInv
\* ClosedKeeps: mark_closed ends the connection for the application.
<1>ClosedKeeps.
    ASSUME PInv, MarkConnectionClosed, UNCHANGED outVars, UNCHANGED <<wire, back>>
    PROVE  PInv'
  <2> USE <1>ClosedKeeps
  <2> /\ SInv /\ WireInv /\ CreditInv
      /\ RecvTypes /\ RecvCtl /\ AccountInv /\ ReadInv /\ NotifyInv
    BY Zenon DEF PInv
  <2>1. /\ RecvTypes' /\ RecvCtl' /\ AccountInv' /\ ReadInv' /\ NotifyInv'
        /\ RecvEnded' = RecvEnded
        /\ UNCHANGED <<resetError, reader, received, consumedC, consumedS, grantedC, grantedS>>
    BY ClosedWakes, Zenon
  <2>2. WireInv'
    BY <2>1, ReceiverWire, ZenonT(40)
  <2>3. CreditInv'
    BY <2>1, ReceiverCredit, SMTT(30) DEF CreditInv
  <2>4. SInv'
    BY SendSame, Zenon
  <2> QED BY <2>1, <2>2, <2>3, <2>4, Zenon DEF PInv
\* ReadsKeep: read_chunk and poll_read, called or woken again.
<1>ReadsKeep.
    ASSUME PInv, CallRead(1) \/ CallRead(2) \/ ReadAgain,
           UNCHANGED outVars, UNCHANGED <<wire, back>>
    PROVE  PInv'
  <2> USE <1>ReadsKeep
  \* ReadKeeps: one pass through the loop of read_chunk.
  <2>ReadKeeps.
      ASSUME PInv, UNCHANGED outVars, UNCHANGED <<wire, back>>,
             ReadCheck, buf = <<>>, app \in {"idle", "again", "wait"},
             recvMode' \in 0..2, woken' = FALSE,
             UNCHANGED <<resetError, recvClosed, recvTerminal, discarded, windows, reader, frame,
                         giving, permit, cleaner, read>>
      PROVE  PInv'
    <3> USE <2>ReadKeeps
    \* ReadFrame: the parts of the invariant that a read_chunk does not touch.
    <3>ReadFrame.
        ASSUME PInv, UNCHANGED outVars, UNCHANGED <<wire, back>>,
               finReceived' = finReceived, recvMode' \in 0..2, woken' = FALSE,
               UNCHANGED <<resetError, recvClosed, recvTerminal, discarded, received, consumedC,
                           consumedS, grantedC, grantedS, permitsC, permitsS>>,
               UNCHANGED <<reader, frame, giving, permit, cleaner, read>>,
               app \in {"idle", "again", "wait"}, app' \in {"idle", "give", "poll"},
               app' = "poll" => buf' = <<>>,
               chunks' \in Seq(Chunk), buf' \in Seq(Nat), outcome' \in {"none", "eof", "reset"}
        PROVE  /\ SInv' /\ WireInv' /\ CreditInv' /\ RecvTypes' /\ RecvCtl'
               /\ InReader' = InReader /\ cleaner = "idle" /\ giving = 0
      <4> USE <3>ReadFrame
      <4> SInv /\ WireInv /\ CreditInv /\ RecvTypes /\ RecvCtl
        BY Zenon DEF PInv
      <4>1. SInv'
        BY SendSame, ZenonT(40)
      <4>2. RecvEnded' = RecvEnded
        BY SMTT(30) DEF RecvEnded
      <4>3. WireInv'
        BY <4>2, ReceiverWire, SMTT(30)
      <4>4. CreditInv'
        BY ReceiverCredit, SMTT(30) DEF CreditInv
      <4>5. RecvTypes'
        <5>1. /\ app' \in {"idle", "poll", "wait", "again", "give", "consume", "release", "gone"}
              /\ woken' \in BOOLEAN
          BY Zenon
        <5> QED BY <5>1, SMTT(30) DEF RecvTypes
      <4>6. cleaner = "idle" /\ giving = 0
        BY ZenonT(40) DEF RecvCtl
      <4>7. RecvCtl'
        <5>1. cleaner' = "idle" /\ giving' = 0 /\ app' \notin {"release", "gone"}
          BY <4>6, Zenon
        <5>2. app' \in {"poll", "wait", "again", "release", "gone"} => buf' = <<>>
          BY Zenon
        <5> QED BY <5>1, <5>2, SMTT(30) DEF RecvCtl
      <4>8. InReader' = InReader
        BY Zenon DEF InReader
      <4> QED BY <4>1, <4>3, <4>4, <4>5, <4>6, <4>7, <4>8, ZenonT(40)
    <3> /\ SInv /\ WireInv /\ CreditInv
        /\ RecvTypes /\ RecvCtl /\ AccountInv /\ ReadInv /\ NotifyInv
      BY Zenon DEF PInv
    <3>1. /\ UNCHANGED <<resetError, recvClosed, recvTerminal, discarded, received, consumedC,
                         consumedS, grantedC, grantedS, permitsC, permitsS>>
          /\ UNCHANGED <<reader, frame, giving, permit, cleaner, read>>
      BY Zenon DEF windows
    <3>2. /\ Bytes(chunks) \in Nat /\ Len(buf) \in Nat /\ giving \in Nat /\ Len(read) \in Nat
          /\ consumedC \in Nat /\ consumedS \in Nat /\ received \in Nat
          /\ permitsC \in Nat /\ permitsS \in Nat /\ ConnWindow \in Nat /\ StreamWindow \in Nat
          /\ buf \in Seq(Nat) /\ read \in Seq(Nat) /\ chunks \in Seq(Chunk)
      BY Quantities, Zenon
    <3>3. outcome \in {"none", "eof", "reset"} /\ finReceived \in BOOLEAN
      BY Zenon DEF RecvTypes
    <3>4. CASE ~(~resetError /\ chunks # <<>>)
      <4>1. /\ UNCHANGED <<chunks, buf>> /\ app' \in {"idle", "poll"}
            /\ \/ resetError /\ outcome' = "reset" /\ app' = "idle" /\ UNCHANGED finReceived
               \/ /\ ~resetError /\ chunks = <<>> /\ (finReceived \/ recvTerminal)
                  /\ finReceived' = TRUE /\ outcome' = "eof" /\ app' = "idle"
               \/ /\ ~resetError /\ chunks = <<>> /\ ~finReceived /\ ~recvTerminal
                  /\ app' = (IF recvClosed THEN "idle" ELSE "poll")
                  /\ UNCHANGED <<finReceived, outcome>>
        <5>1. CASE resetError
          BY <3>4, <5>1, Zenon DEF ReadCheck
        <5>2. CASE ~resetError /\ chunks = <<>>
          BY <3>4, <5>2, Zenon DEF ReadCheck
        <5> QED BY <3>4, <5>1, <5>2, Zenon
      <4>2. finReceived' = finReceived
        BY <3>3, <4>1, Zenon DEF RecvCtl
      <4>3. /\ outcome' \in {"none", "eof", "reset"} /\ chunks' \in Seq(Chunk)
            /\ buf' \in Seq(Nat) /\ buf' = <<>>
        BY <3>2, <3>3, <4>1, Zenon
      <4>4. /\ SInv' /\ WireInv' /\ CreditInv' /\ RecvTypes' /\ RecvCtl'
            /\ InReader' = InReader
        BY <3>1, <4>1, <4>2, <4>3, <3>ReadFrame, ZenonT(40)
      <4>5. AccountInv'
        BY <3>1, <4>1, <4>4, SMTT(30) DEF AccountInv
      <4>6. /\ outcome' = "eof" => finReceived' /\ ~resetError' /\ chunks' = <<>>
            /\ outcome' = "reset" => resetError'
        <5>1. /\ outcome = "eof" => finReceived /\ ~resetError /\ chunks = <<>>
              /\ outcome = "reset" => resetError
          BY Zenon DEF ReadInv
        <5> QED BY <3>1, <4>1, <4>2, <5>1, SMTT(30)
      <4>7. ReadInv'
        BY <3>1, <4>1, <4>3, <4>4, <4>6, ZenonT(40) DEF ReadInv
      <4>8. NotifyInv'
        BY <3>1, <4>1, <4>2, SMTT(30) DEF NotifyInv
      <4> QED BY <4>4, <4>5, <4>7, <4>8, Zenon DEF PInv
    <3>5. CASE ~resetError /\ chunks # <<>>
      <4> DEFINE h == Head(chunks)
                 t == Tail(chunks)
      <4>1. buf' = h.data /\ chunks' = t /\ app' = "give" /\ UNCHANGED <<finReceived, outcome>>
        BY <3>5, Zenon DEF ReadCheck
      <4>2. h \in Chunk /\ t \in Seq(Chunk)
        BY <3>2, <3>5, HeadAndTail, ZenonT(40)
      <4>3. h.data \in Seq(Nat) /\ Len(h.data) \in Nat
        BY <4>2, SMTT(30) DEF Chunk
      <4>4. Bytes(chunks) = Len(h.data) + Bytes(t) /\ Bytes(t) \in Nat
        BY <3>2, <3>5, <4>2, Zenon DEF BytesLaws
      <4> HIDE DEF h, t
      <4>5. /\ SInv' /\ WireInv' /\ CreditInv' /\ RecvTypes' /\ RecvCtl'
            /\ InReader' = InReader /\ cleaner = "idle" /\ giving = 0
        BY <3>1, <3>3, <4>1, <4>2, <4>3, <3>ReadFrame, ZenonT(40)
      <4>6. Len(buf) = 0
        BY ZenonT(40)
      <4>7. AccountInv'
        <5>1. Bytes(chunks) + Len(buf) = Bytes(t) + Len(h.data)
          BY <4>3, <4>4, <4>6, SMTT(30)
        <5>2. InReader \in Nat /\ (IF reader = "lock" THEN Len(frame.data) ELSE 0) \in Nat
          <6>1. CASE reader \in {"push", "lock"}
            BY <6>1, FrameAtHand, Zenon
          <6>2. CASE reader \notin {"push", "lock"}
            BY <6>2, ZenonT(40) DEF InReader
          <6> QED BY <6>1, <6>2, Zenon
        <5>3. /\ consumedC + Bytes(chunks) + Len(buf) + giving + InReader
                   = consumedC + Bytes(t) + Len(h.data) + giving + InReader
              /\ consumedS + Bytes(chunks) + Len(buf) + giving + InReader
                   = consumedS + Bytes(t) + Len(h.data) + giving + InReader
          BY <3>2, <4>3, <4>4, <4>6, <5>2, SMTT(30)
        <5>4. cleaner \notin {"stop", "done"}
          BY <4>5, Zenon
        <5> QED BY <3>1, <3>5, <4>1, <4>5, <5>1, <5>3, <5>4, SMTT(30) DEF AccountInv
      <4>8. ReadInv'
        <5>1. PICK m \in Nat :
                /\ Len(read) + Len(buf) <= m /\ m <= received
                /\ Chain(chunks, Len(read) + Len(buf), m)
                /\ reader # "failed" => m = received - InReader
          BY <3>5, <4>5, ZenonT(40) DEF ReadInv
        <5>2. PICK k \in Nat : /\ Len(read) + Len(buf) <= k /\ k <= m
                               /\ h.data = Run(Len(read) + Len(buf), k)
                               /\ Chain(t, k, m)
          BY <3>2, <3>5, <5>1, ChainTake, ZenonT(40) DEF h, t
        <5>3. Len(read) + Len(buf) = Len(read)
          BY <3>2, <4>6, SMTT(30)
        <5>4. Len(h.data) = k - Len(read)
          BY <3>2, <5>2, <5>3, RunLen, SMTT(30)
        <5>5. k = Len(read) + Len(h.data) /\ k <= received
          BY <3>2, <5>1, <5>2, <5>3, <5>4, SMTT(30)
        <5>6. outcome = "none"
          BY <3>3, <3>5, Zenon DEF ReadInv
        <5>7. /\ read = Run(0, Len(read))
              /\ h.data = Run(Len(read), Len(read) + Len(h.data))
              /\ Len(read) + Len(h.data) <= received
          BY <5>2, <5>3, <5>5, ZenonT(40) DEF ReadInv
        <5>8. /\ Len(read) + Len(h.data) <= m /\ m <= received
              /\ Chain(t, Len(read) + Len(h.data), m)
              /\ reader # "failed" => m = received - InReader
          BY <5>1, <5>2, <5>5, Zenon
        <5>9. reader \in {"push", "lock"} =>
                /\ Len(frame.data) <= received
                /\ frame.data = Run(received - Len(frame.data), received)
          BY Zenon DEF ReadInv
        <5> QED BY <3>1, <4>1, <4>5, <5>6, <5>7, <5>8, <5>9, ZenonT(40) DEF ReadInv
      <4>9. NotifyInv'
        BY <4>1, Zenon DEF NotifyInv
      <4> QED BY <4>5, <4>7, <4>8, <4>9, ZenonT(40) DEF PInv
    <3> QED BY <3>4, <3>5, Zenon
  <2> RecvTypes /\ RecvCtl
    BY Zenon DEF PInv
  <2>1. /\ ReadCheck /\ woken' = FALSE
        /\ UNCHANGED <<resetError, recvClosed, recvTerminal, discarded, windows, reader, frame,
                       giving, permit, cleaner, read>>
    BY ZenonT(40) DEF CallRead, ReadAgain
  <2>2. buf = <<>> /\ app \in {"idle", "again", "wait"} /\ recvMode' \in 0..2
    BY SMTT(30) DEF CallRead, ReadAgain, SelectRecvMode, RecvTypes, RecvCtl
  <2> QED BY <2>1, <2>2, <2>ReadKeeps, Zenon
\* HandleFrame: the parts of the invariant that the application's handle and the
\* cleanup of a dropped one do not touch.
<1>HandleFrame.
    ASSUME PInv, UNCHANGED outVars, UNCHANGED <<wire, back>>,
           UNCHANGED <<resetError, finReceived, recvClosed, recvTerminal, received, grantedC,
                       grantedS, reader, frame>>,
           consumedC' \in Nat, consumedS' \in Nat, consumedC <= consumedC', consumedS <= consumedS'
    PROVE  SInv' /\ WireInv' /\ CreditInv' /\ InReader' = InReader
  <2> USE <1>HandleFrame
  <2> SInv /\ WireInv /\ CreditInv
    BY Zenon DEF PInv
  <2>1. SInv'
    BY SendSame, Zenon
  <2>2. RecvEnded' = RecvEnded
    BY Zenon DEF RecvEnded
  <2>3. WireInv'
    BY <2>2, ReceiverWire, Zenon
  <2>4. CreditInv'
    BY ReceiverCredit, Zenon
  <2>5. InReader' = InReader
    BY Zenon DEF InReader
  <2> QED BY <2>1, <2>3, <2>4, <2>5, Zenon
\* WaitsKeep: the wait for a notification, its cancellation and the flags of the
\* cleanup.
<1>WaitsKeep.
    ASSUME PInv, PollNotified \/ CancelRead \/ DiscardFlag \/ StopDone,
           UNCHANGED outVars, UNCHANGED <<wire, back>>
    PROVE  PInv'
  <2> USE <1>WaitsKeep
  <2> RecvTypes /\ RecvCtl /\ AccountInv /\ ReadInv /\ NotifyInv /\ CreditInv
    BY Zenon DEF PInv
  <2>1. /\ UNCHANGED <<chunks, resetError, finReceived, recvClosed, recvTerminal, received,
                       consumedC, consumedS, grantedC, grantedS>>
        /\ UNCHANGED <<permitsC, permitsS, reader, frame, recvMode, buf, giving, read, outcome>>
        /\ \/ /\ app = "poll" /\ app' = (IF permit \/ woken THEN "again" ELSE "wait")
              /\ permit' = (permit /\ woken) /\ UNCHANGED <<woken, cleaner, discarded>>
           \/ /\ app = "wait" /\ app' = "idle" /\ permit' = (permit \/ woken)
              /\ woken' = FALSE /\ UNCHANGED <<cleaner, discarded>>
           \/ /\ cleaner = "discard" /\ cleaner' = "clear" /\ discarded' = TRUE
              /\ UNCHANGED <<app, permit, woken>>
           \/ cleaner = "stop" /\ cleaner' = "done" /\ UNCHANGED <<app, permit, woken, discarded>>
    <3>1. CASE PollNotified
      BY <3>1, Zenon DEF PollNotified, inboundState, windows
    <3>2. CASE CancelRead
      BY <3>2, Zenon DEF CancelRead, inboundState, windows
    <3>3. CASE DiscardFlag
      BY <3>3, Zenon DEF DiscardFlag, inboundState, windows, application, notifier
    <3>4. CASE StopDone
      BY <3>4, ZenonT(40) DEF StopDone, inboundState, windows, application, notifier
    <3> QED BY <3>1, <3>2, <3>3, <3>4, ZenonT(40)
  <2>2. SInv' /\ WireInv' /\ CreditInv' /\ InReader' = InReader
    BY <2>1, <1>HandleFrame, SMTT(30) DEF CreditInv
  <2>3. RecvTypes'
    <3>1. /\ permit \in BOOLEAN /\ woken \in BOOLEAN /\ discarded \in BOOLEAN
          /\ app \in {"idle", "poll", "wait", "again", "give", "consume", "release", "gone"}
          /\ cleaner \in {"idle", "discard", "clear", "stop", "done"}
      BY Zenon DEF RecvTypes
    <3>2. permit' \in BOOLEAN /\ woken' \in BOOLEAN /\ discarded' \in BOOLEAN
      BY <2>1, <3>1, Zenon
    <3>3. /\ app' \in {"idle", "poll", "wait", "again", "give", "consume", "release", "gone"}
          /\ cleaner' \in {"idle", "discard", "clear", "stop", "done"}
      BY <2>1, <3>1, ZenonT(40)
    <3> QED BY <2>1, <3>2, <3>3, ZenonT(40) DEF RecvTypes
  <2>4. RecvCtl'
    BY <2>1, SMTT(30) DEF RecvCtl
  <2>5. discarded => discarded'
    BY <2>1, Zenon
  <2>6. cleaner' \in {"stop", "done"} => cleaner \in {"stop", "done"}
    BY <2>1, Zenon
  <2>7. AccountInv'
    BY <2>1, <2>2, <2>5, <2>6, Zenon DEF AccountInv
  <2>8. cleaner' = "idle" => cleaner = "idle"
    BY <2>1, Zenon
  <2>9. ReadInv'
    BY <2>1, <2>2, <2>8, Zenon DEF ReadInv
  <2>10. NotifyInv'
    BY <2>1, Zenon DEF NotifyInv
  <2> QED BY <2>2, <2>3, <2>4, <2>7, <2>9, <2>10, ZenonT(40) DEF PInv
\* DiscardKeeps: the cleanup of a dropped handle discards the chunks.
<1>DiscardKeeps.
    ASSUME PInv, DiscardChunks, UNCHANGED outVars, UNCHANGED <<wire, back>>
    PROVE  PInv'
  <2> USE <1>DiscardKeeps
  <2> RecvTypes /\ RecvCtl /\ AccountInv /\ ReadInv /\ NotifyInv /\ SInv /\ WireInv
    BY Zenon DEF PInv
  <2>1. /\ cleaner = "clear" /\ cleaner' = "stop" /\ ClearChunks
        /\ UNCHANGED <<resetError, finReceived, recvClosed, recvTerminal, discarded, reader, frame>>
        /\ UNCHANGED <<recvMode, app, buf, giving, permit, woken, read, outcome>>
    BY Zenon DEF DiscardChunks, application, notifier
  <2>2. InReader' = InReader
    BY <2>1, Zenon DEF InReader
  <2>3. /\ CreditInv' /\ AccountInv'
        /\ chunks' = <<>> /\ permitsC' \in Nat /\ permitsS' \in Nat
        /\ UNCHANGED <<received, grantedC, grantedS>>
    BY <2>1, <2>2, <1>ClearedKeeps, Zenon
  <2>4. SInv'
    BY SendSame, Zenon
  <2>5. RecvEnded' = RecvEnded
    BY <2>1, Zenon DEF RecvEnded
  <2>6. WireInv'
    BY <2>1, <2>3, <2>5, ReceiverWire, ZenonT(40)
  <2>7. chunks' \in Seq(Chunk)
    BY <2>3, SMTT(30)
  <2>8. RecvTypes'
    BY <2>1, <2>3, <2>7, SMTT(30) DEF RecvTypes
  <2>9. RecvCtl'
    BY <2>1, Zenon DEF RecvCtl
  <2>10. ReadInv'
    BY <2>1, <2>2, <2>3, Zenon DEF ReadInv
  <2>11. NotifyInv'
    BY <2>1, <2>3, Zenon DEF NotifyInv
  <2> QED BY <2>3, <2>4, <2>6, <2>8, <2>9, <2>10, <2>11, ZenonT(40) DEF PInv
\* ConsumeKeeps: the windows move by the bytes that were given.
<1>ConsumeKeeps.
    ASSUME PInv, Consume, UNCHANGED outVars, UNCHANGED <<wire, back>>
    PROVE  PInv'
  <2> USE <1>ConsumeKeeps
  <2> RecvTypes /\ RecvCtl /\ AccountInv /\ ReadInv /\ NotifyInv
    BY Zenon DEF PInv
  <2>1. /\ app \in {"consume", "release"} /\ app' = (IF app = "consume" THEN "idle" ELSE "gone")
        /\ consumedC' = consumedC + giving /\ consumedS' = consumedS + giving /\ giving' = 0
        /\ UNCHANGED <<chunks, resetError, finReceived, recvClosed, recvTerminal, discarded,
                       received, grantedC, grantedS, permitsC, permitsS, reader, frame>>
        /\ UNCHANGED <<recvMode, buf, permit, woken, cleaner, read, outcome>>
    BY Zenon DEF Consume, inboundState, notifier
  <2>2. /\ Bytes(chunks) \in Nat /\ Len(buf) \in Nat /\ giving \in Nat
        /\ consumedC \in Nat /\ consumedS \in Nat /\ received \in Nat
    BY Quantities, ZenonT(40)
  <2>3. /\ consumedC' \in Nat /\ consumedC <= consumedC'
        /\ consumedS' \in Nat /\ consumedS <= consumedS'
    BY <2>1, <2>2, SMTT(30)
  <2>4. SInv' /\ WireInv' /\ CreditInv' /\ InReader' = InReader
    BY <2>1, <2>3, <1>HandleFrame, ZenonT(40)
  <2>5. RecvTypes'
    <3>1. giving' \in Nat /\ app' \in {"idle", "gone"}
      BY <2>1, Zenon
    <3> QED BY <2>1, <3>1, SMTT(30) DEF RecvTypes
  <2>6. RecvCtl'
    BY <2>1, Zenon DEF RecvCtl
  <2>7. InReader \in Nat
    <3>1. CASE reader \in {"push", "lock"}
      BY <3>1, FrameAtHand, Zenon
    <3>2. CASE reader \notin {"push", "lock"}
      BY <3>2, ZenonT(40) DEF InReader
    <3> QED BY <3>1, <3>2, Zenon
  <2>8. /\ consumedC + Bytes(chunks) + Len(buf) + giving + InReader
             = (consumedC + giving) + Bytes(chunks) + Len(buf) + 0 + InReader
        /\ consumedS + Bytes(chunks) + Len(buf) + giving + InReader
             = (consumedS + giving) + Bytes(chunks) + Len(buf) + 0 + InReader
    BY <2>2, <2>7, SMTT(30)
  <2>9. AccountInv'
    BY <2>1, <2>4, <2>8, Zenon DEF AccountInv
  <2>10. ReadInv'
    BY <2>1, <2>4, ZenonT(40) DEF ReadInv
  <2>11. NotifyInv'
    BY <2>1, ZenonT(40) DEF NotifyInv
  <2> QED BY <2>4, <2>5, <2>6, <2>9, <2>10, <2>11, ZenonT(40) DEF PInv
\* HandedOver: n bytes leave read_buf; their permits go back, the windows move later.
<1>HandedOver.
    ASSUME NEW c \in Nat, NEW x \in Nat, NEW y \in Nat, NEW n \in Nat, NEW r \in Nat,
           NEW p \in Nat, NEW l \in Nat, n <= y
    PROVE  /\ c + x + y + 0 + r = c + x + (y - n) + n + r
           /\ p + (x + y + l) = (p + n) + (x + (y - n) + l)
  BY <1>HandedOver, SMTT(30)
\* GivenKeeps: the accounts when the application takes bytes or drops what is left of
\* them.
<1>GivenKeeps.
    ASSUME PInv, giving = 0, NEW n \in Nat, n <= Len(buf), Len(buf') = Len(buf) - n,
           permitsC' = permitsC + n, permitsS' = permitsS + n, giving' = n,
           UNCHANGED <<chunks, discarded, received, consumedC, consumedS, reader, frame, resetError>>,
           cleaner' \in {"stop", "done"} => cleaner \in {"stop", "done"}
    PROVE  AccountInv' /\ permitsC' \in Nat /\ permitsS' \in Nat
  <2> USE <1>GivenKeeps
  <2> DEFINE B == Bytes(chunks)
             b == Len(buf)
             l == IF reader = "lock" THEN Len(frame.data) ELSE 0
  <2>0. AccountInv
    BY Zenon DEF PInv
  <2>1. /\ B \in Nat /\ b \in Nat
        /\ consumedC \in Nat /\ consumedS \in Nat /\ received \in Nat
        /\ permitsC \in Nat /\ permitsS \in Nat
    BY Quantities, Zenon
  <2>2. InReader \in Nat /\ l \in Nat
    <3>1. CASE reader \in {"push", "lock"}
      BY <3>1, FrameAtHand, Zenon
    <3>2. CASE reader \notin {"push", "lock"}
      BY <3>2, Zenon DEF InReader
    <3> QED BY <3>1, <3>2, Zenon
  <2>3. /\ reader # "failed" =>
             /\ received = consumedC + B + b + 0 + InReader
             /\ ~discarded => received = consumedS + B + b + 0 + InReader
        /\ permitsC + (B + b + l) = ConnWindow /\ permitsS + (B + b + l) = StreamWindow
    BY <2>0, Zenon DEF AccountInv
  <2>4. Bytes(chunks') = B /\ Len(buf') = b - n /\ InReader' = InReader
    BY Zenon DEF InReader
  <2>5. l = IF reader' = "lock" THEN Len(frame'.data) ELSE 0
    BY Zenon
  <2> HIDE DEF B, b, l
  <2>6. n <= b
    BY ZenonT(40) DEF b
  <2>7. /\ consumedC + B + b + 0 + InReader = consumedC + B + (b - n) + n + InReader
        /\ consumedS + B + b + 0 + InReader = consumedS + B + (b - n) + n + InReader
    BY <2>1, <2>2, <2>6, <1>HandedOver, SMTT(30)
  <2>8. /\ permitsC + (B + b + l) = (permitsC + n) + (B + (b - n) + l)
        /\ permitsS + (B + b + l) = (permitsS + n) + (B + (b - n) + l)
    BY <2>1, <2>2, <2>6, <1>HandedOver, SMTT(30)
  <2>9. AccountInv'
    BY <2>0, <2>3, <2>4, <2>5, <2>7, <2>8, ZenonT(40) DEF AccountInv
  <2> QED BY <2>1, <2>9, SMTT(30)
\* GiveKeeps: poll_read and read_chunk give bytes to the application.
<1>GiveKeeps.
    ASSUME PInv, NEW n \in 1..Len(buf), GiveBytes(n), UNCHANGED outVars, UNCHANGED <<wire, back>>
    PROVE  PInv'
  <2> USE <1>GiveKeeps
  <2> RecvTypes /\ RecvCtl /\ AccountInv /\ ReadInv /\ NotifyInv /\ CreditInv
    BY Zenon DEF PInv
  <2> DEFINE r == Len(read)
             b == Len(buf)
  <2>1. /\ app \in {"give", "idle"} /\ app' = "consume"
        /\ read' = read \o SubSeq(buf, 1, n) /\ buf' = SubSeq(buf, n + 1, b)
        /\ permitsC' = permitsC + n /\ permitsS' = permitsS + n /\ giving' = n
        /\ UNCHANGED <<chunks, resetError, finReceived, recvClosed, recvTerminal, discarded,
                       received, consumedC, consumedS, grantedC, grantedS, reader, frame>>
        /\ UNCHANGED <<recvMode, permit, woken, cleaner, outcome>>
    BY Zenon DEF GiveBytes, inboundState, notifier
  <2>2. b \in Nat /\ r \in Nat /\ buf \in Seq(Nat) /\ read \in Seq(Nat) /\ received \in Nat
    BY Quantities, ZenonT(40)
  <2>3. n \in Nat /\ n <= b /\ n # 0 /\ n \in 1..b
    BY <2>2, SMTT(30)
  <2>4. giving = 0 /\ cleaner = "idle"
    BY <2>1, Zenon DEF RecvCtl
  <2>5. read = Run(0, r) /\ buf = Run(r, r + b) /\ r + b <= received
    BY Zenon DEF ReadInv
  <2>6. buf # <<>>
    BY <2>2, <2>3, SMTT(30)
  <2> HIDE DEF r, b
  <2>7. /\ r + n \in Nat /\ r + b \in Nat /\ r <= r + n /\ r + n <= r + b
        /\ (r + n) - r = n /\ (r + b) - r = b
        /\ 0 \in Nat /\ 0 <= r /\ 0 <= r + n
    BY <2>2, <2>3, SMTT(30)
  <2>8. SubSeq(buf, 1, n) = Run(r, r + n)
    <3>1. SubSeq(Run(r, r + b), 1, (r + n) - r) = Run(r, r + n)
      BY <2>2, <2>7, RunPrefix, ZenonT(40)
    <3> QED BY <2>5, <2>7, <3>1, ZenonT(40)
  <2>9. buf' = Run(r + n, r + b)
    <3>1. SubSeq(Run(r, r + b), (r + n) - r + 1, (r + b) - r) = Run(r + n, r + b)
      BY <2>2, <2>7, RunSuffix, ZenonT(40)
    <3> QED BY <2>1, <2>5, <2>7, <3>1, Zenon
  <2>10. read' = Run(0, r + n)
    <3>1. Run(0, r) \o Run(r, r + n) = Run(0, r + n)
      BY <2>2, <2>7, RunJoin, ZenonT(40)
    <3> QED BY <2>1, <2>5, <2>8, <3>1, Zenon
  <2>11. read' \in Seq(Nat) /\ Len(read') = r + n
    <3>1. Run(0, r + n) \in Seq(Nat) /\ Len(Run(0, r + n)) = (r + n) - 0
      BY <2>2, <2>7, RunLen, ZenonT(40)
    <3> QED BY <2>7, <2>10, <3>1, SMTT(30)
  <2>12. buf' \in Seq(Nat) /\ Len(buf') = b - n /\ (r + n) + (b - n) = r + b
    <3>1. Run(r + n, r + b) \in Seq(Nat) /\ Len(Run(r + n, r + b)) = (r + b) - (r + n)
      BY <2>7, RunLen, ZenonT(40)
    <3>2. (r + b) - (r + n) = b - n /\ (r + n) + (b - n) = r + b
      BY <2>2, <2>3, SMTT(30)
    <3> QED BY <2>9, <3>1, <3>2, ZenonT(40)
  <2>13. AccountInv' /\ permitsC' \in Nat /\ permitsS' \in Nat
    BY <2>1, <2>3, <2>4, <2>12, <1>GivenKeeps, ZenonT(40) DEF b
  <2>14. SInv' /\ WireInv' /\ CreditInv' /\ InReader' = InReader
    BY <2>1, <1>HandleFrame, SMTT(30) DEF CreditInv
  <2>15. RecvTypes'
    <3>1. giving' \in Nat /\ app' \in {"consume"}
      BY <2>1, <2>3, Zenon
    <3>2. app' \in {"idle", "poll", "wait", "again", "give", "consume", "release", "gone"}
      BY <3>1, Zenon
    <3>3. /\ recvMode' \in 0..2
          /\ resetError' \in BOOLEAN /\ finReceived' \in BOOLEAN /\ recvClosed' \in BOOLEAN
          /\ recvTerminal' \in BOOLEAN /\ discarded' \in BOOLEAN
      BY <2>1, Zenon DEF RecvTypes
    <3>4. /\ permit' \in BOOLEAN /\ woken' \in BOOLEAN
          /\ reader' \in {"idle", "push", "lock", "fin", "terminal", "reset", "failed"}
          /\ cleaner' \in {"idle", "discard", "clear", "stop", "done"}
          /\ chunks' \in Seq(Chunk) /\ outcome' \in {"none", "eof", "reset"}
      BY <2>1, ZenonT(40) DEF RecvTypes
    <3> QED BY <2>11, <2>12, <2>13, <3>1, <3>2, <3>3, <3>4, ZenonT(40) DEF RecvTypes
  <2>16. RecvCtl'
    BY <2>1, <2>4, Zenon DEF RecvCtl
  <2>17. ReadInv'
    <3>1. Len(read') + Len(buf') = Len(read) + Len(buf) /\ Len(read') + Len(buf') = r + b
      BY <2>11, <2>12, ZenonT(40) DEF r, b
    <3>2. outcome = "none"
      BY <2>6, ZenonT(40) DEF ReadInv
    <3>3. read' = Run(0, Len(read')) /\ buf' = Run(Len(read'), Len(read') + Len(buf'))
      BY <2>9, <2>10, <2>11, <3>1, ZenonT(40)
    <3>4. Len(read') + Len(buf') <= received
      BY <2>5, <3>1, ZenonT(40)
    <3>5. cleaner = "idle" /\ ~resetError =>
            \E m \in Nat :
              /\ Len(read) + Len(buf) <= m /\ m <= received
              /\ Chain(chunks, Len(read) + Len(buf), m)
              /\ reader # "failed" => m = received - InReader
      BY ZenonT(40) DEF ReadInv
    <3>6. cleaner' = "idle" /\ ~resetError' =>
            \E m \in Nat :
              /\ Len(read') + Len(buf') <= m /\ m <= received'
              /\ Chain(chunks', Len(read') + Len(buf'), m)
              /\ reader' # "failed" => m = received' - InReader'
      BY <2>1, <2>14, <3>1, <3>5, ZenonT(40)
    <3>7. reader \in {"push", "lock"} =>
            /\ Len(frame.data) <= received
            /\ frame.data = Run(received - Len(frame.data), received)
      BY Zenon DEF ReadInv
    <3> QED BY <2>1, <3>2, <3>3, <3>4, <3>6, <3>7, ZenonT(40) DEF ReadInv
  <2>18. NotifyInv'
    BY <2>1, Zenon DEF NotifyInv
  <2> QED BY <2>13, <2>14, <2>15, <2>16, <2>17, <2>18, Zenon DEF PInv
\* DropRecvKeeps: the handle is dropped, and read_buf with it.
<1>DropRecvKeeps.
    ASSUME PInv, DropRecv, UNCHANGED outVars, UNCHANGED <<wire, back>>
    PROVE  PInv'
  <2> USE <1>DropRecvKeeps
  <2> RecvTypes /\ RecvCtl /\ AccountInv /\ ReadInv /\ NotifyInv /\ CreditInv
    BY Zenon DEF PInv
  <2>1. /\ app \in {"idle", "wait"} /\ app' = "release" /\ cleaner = "idle" /\ cleaner' = "discard"
        /\ permitsC' = permitsC + Len(buf) /\ permitsS' = permitsS + Len(buf)
        /\ giving' = Len(buf) /\ buf' = <<>> /\ woken' = FALSE
        /\ UNCHANGED <<chunks, resetError, finReceived, recvClosed, recvTerminal, discarded,
                       received, consumedC, consumedS, grantedC, grantedS, reader, frame>>
        /\ UNCHANGED <<recvMode, permit, read, outcome>>
    BY Zenon DEF DropRecv, inboundState
  <2>2. Len(buf) \in Nat /\ Len(read) \in Nat /\ received \in Nat
    BY Quantities, Zenon
  <2>3. giving = 0
    BY <2>1, ZenonT(40) DEF RecvCtl
  <2>4. /\ Len(buf) <= Len(buf) /\ Len(buf) - Len(buf) = 0 /\ Len(buf') = 0
        /\ Len(read) + Len(buf') = Len(read)
    BY <2>1, <2>2, SMTT(30)
  <2>5. PICK n \in Nat : n = Len(buf)
    BY <2>2, Zenon
  <2>6. AccountInv' /\ permitsC' \in Nat /\ permitsS' \in Nat
    BY <2>1, <2>3, <2>4, <2>5, <1>GivenKeeps, ZenonT(40)
  <2>7. SInv' /\ WireInv' /\ CreditInv' /\ InReader' = InReader
    BY <2>1, <1>HandleFrame, SMTT(30) DEF CreditInv
  <2>8. RecvTypes'
    <3>1. giving' \in Nat /\ app' \in {"release"} /\ woken' \in BOOLEAN
      BY <2>1, <2>2, ZenonT(40)
    <3>2. buf' \in Seq(Nat)
      BY <2>1, SMTT(30)
    <3> QED BY <2>1, <2>6, <3>1, <3>2, SMTT(30) DEF RecvTypes
  <2>9. RecvCtl'
    BY <2>1, Zenon DEF RecvCtl
  <2>10. ReadInv'
    <3>1. buf' = Run(Len(read), Len(read) + Len(buf'))
      BY <2>1, <2>2, <2>4, RunNone, ZenonT(40)
    <3>2. Len(read) + Len(buf) <= received
      BY ZenonT(40) DEF ReadInv
    <3>3. Len(read) + Len(buf') <= received
      BY <2>2, <2>4, <3>2, SMTT(30)
    <3> QED BY <2>1, <3>1, <3>3, Zenon DEF ReadInv
  <2>11. NotifyInv'
    BY <2>1, Zenon DEF NotifyInv
  <2> QED BY <2>6, <2>7, <2>8, <2>9, <2>10, <2>11, ZenonT(40) DEF PInv
<1>1. UNCHANGED outVars /\ UNCHANGED <<wire, back>>
  BY Zenon DEF Receiver
<1>2. \/ PushAcquire \/ PushLocked \/ MarkReset \/ MarkFin \/ MarkTerminal
      \/ MarkConnectionClosed \/ CallRead(1) \/ CallRead(2) \/ ReadAgain
      \/ PollNotified \/ CancelRead \/ DiscardFlag \/ StopDone
      \/ (\E n \in 1..Len(buf) : GiveBytes(n))
      \/ Consume \/ DropRecv \/ DiscardChunks
  BY Zenon DEF Receiver
<1>3. ASSUME \E n \in 1..Len(buf) : GiveBytes(n) PROVE PInv'
  BY <1>1, <1>3, <1>GiveKeeps, Zenon
<1> QED BY <1>1, <1>2, <1>3, <1>PushAcquireKeeps, <1>PushLockedKeeps, <1>MarkResetKeeps, <1>MarkEndKeeps,
           <1>ClosedKeeps, <1>ReadsKeep, <1>WaitsKeep, <1>ConsumeKeeps, <1>DropRecvKeeps, <1>DiscardKeeps, ZenonT(40)

-----------------------------------------------------------------------------
(* The invariant is inductive. *)

\* PInvInit: a stream that was just opened satisfies the invariant.
LEMMA PInvInit == ASSUME BytesLaws, Init PROVE PInv
<1>0. ConnWindow \in Nat /\ StreamWindow \in Nat /\ MaxBytes \in Nat /\ QueueSlots \in Nat
  BY InboundAssumption, OutboundAssumption, Zenon
<1>1. /\ sendMode = 0 /\ writeFut = <<>> /\ sendGone = "no"
      /\ finFut = FALSE /\ shut = FALSE /\ accepting = FALSE /\ storing = FALSE
      /\ queue = <<>> /\ resetOut = FALSE /\ finQueued = FALSE
      /\ sendTerminal = FALSE /\ dispatched = FALSE /\ resetQueued = FALSE
      /\ sent = 0 /\ connLimit = ConnWindow /\ streamLimit = StreamWindow
      /\ sendConn = "open" /\ accepted = 0 /\ wire = <<>> /\ back = <<>>
  BY Zenon DEF Init, OutInit
<1>2. /\ chunks = <<>> /\ resetError = FALSE /\ finReceived = FALSE
      /\ recvClosed = FALSE /\ recvTerminal = FALSE /\ discarded = FALSE
      /\ received = 0 /\ consumedC = 0 /\ consumedS = 0
      /\ grantedC = ConnWindow /\ grantedS = StreamWindow
      /\ permitsC = ConnWindow /\ permitsS = StreamWindow
      /\ reader = "idle" /\ frame = NoFrame
      /\ recvMode = 0 /\ app = "idle" /\ buf = <<>> /\ giving = 0
      /\ permit = FALSE /\ woken = FALSE /\ cleaner = "idle"
      /\ read = <<>> /\ outcome = "none"
  BY ZenonT(40) DEF Init, InInit
<1>3. Chain(<<>>, 0, 0) /\ Run(0, 0) = <<>> /\ Bytes(<<>>) = 0 /\ InReader = 0 /\ Len(<<>>) = 0
  BY <1>2, ChainNone, RunNone, SMTT(30) DEF InReader, BytesLaws
<1>4. SInv
  <2>1. SendTypes
    <3>1. writeFut \in Seq(Nat) /\ queue \in Seq(Item)
      BY <1>1, SMTT(30)
    <3>2. /\ sendMode \in 0..2 /\ Len(queue) <= QueueSlots
          /\ accepted \in Nat /\ sent \in Nat /\ connLimit \in Nat /\ streamLimit \in Nat
      BY <1>0, <1>1, <1>3, SMTT(30)
    <3>3. /\ finFut \in BOOLEAN /\ shut \in BOOLEAN /\ accepting \in BOOLEAN
          /\ storing \in BOOLEAN /\ resetOut \in BOOLEAN /\ finQueued \in BOOLEAN
          /\ sendTerminal \in BOOLEAN /\ dispatched \in BOOLEAN /\ resetQueued \in BOOLEAN
          /\ sendConn \in {"open", "closing", "ended"}
          /\ sendGone \in {"no", "dropped", "cleaned"}
      BY <1>1, Zenon
    <3> QED BY <3>1, <3>2, <3>3, ZenonT(40) DEF SendTypes
  <2>2. SendCtl
    BY <1>1, ZenonT(40) DEF SendCtl
  <2>3. QueueForm
    BY <1>1, SMTT(30) DEF QueueForm
  <2>4. Tip = 0
    BY <1>1, SMTT(30) DEF Tip
  <2>5. SendArith
    BY <1>0, <1>1, <1>3, <2>4, SMTT(30) DEF SendArith
  <2>6. SendChain(0)
    BY <1>1, <1>3, <2>4, SMTT(30) DEF SendChain
  <2> QED BY <2>1, <2>2, <2>3, <2>5, <2>6, Zenon DEF SInv
<1>5. ~RecvEnded
  BY <1>2, ZenonT(40) DEF RecvEnded
<1>6. WireInv
  <2>1. wire \in Seq(Frames) /\ 1..Len(wire) = {}
    BY <1>1, SMTT(30)
  <2> QED BY <1>1, <1>2, <1>3, <1>5, <2>1, SMTT(30) DEF WireInv
<1>7. CreditInv
  <2>1. back \in Seq([type : {"data", "stream", "stop"}, max : Nat]) /\ 1..Len(back) = {}
    BY <1>1, SMTT(30)
  <2> QED BY <1>0, <1>1, <1>2, <2>1, SMTT(30) DEF CreditInv
<1>8. RecvTypes
  <2>1. chunks \in Seq(Chunk) /\ buf \in Seq(Nat) /\ read \in Seq(Nat)
    BY <1>2, SMTT(30)
  <2>2. recvMode \in 0..2 /\ giving \in Nat /\ permitsC \in Nat /\ permitsS \in Nat
    BY <1>0, <1>2, SMTT(30)
  <2>3. /\ resetError \in BOOLEAN /\ finReceived \in BOOLEAN /\ recvClosed \in BOOLEAN
        /\ recvTerminal \in BOOLEAN /\ discarded \in BOOLEAN
        /\ permit \in BOOLEAN /\ woken \in BOOLEAN
    BY <1>2, Zenon
  <2> QED BY <1>2, <2>1, <2>2, <2>3, ZenonT(40) DEF RecvTypes
<1>9. RecvCtl
  BY <1>2, ZenonT(40) DEF RecvCtl
<1>10. AccountInv
  BY <1>0, <1>2, <1>3, SMTT(30) DEF AccountInv
<1>11. ReadInv
  BY <1>2, <1>3, SMTT(30) DEF ReadInv
<1>12. NotifyInv
  BY <1>2, Zenon DEF NotifyInv
<1> QED BY <1>4, <1>6, <1>7, <1>8, <1>9, <1>10, <1>11, <1>12, ZenonT(40) DEF PInv

\* PInvSame: the invariant speaks of the variables only.
LEMMA PInvSame == ASSUME PInv, UNCHANGED vars PROVE PInv'
<1>1. UNCHANGED outVars /\ UNCHANGED <<wire, back>> /\ UNCHANGED inVars
  BY Zenon DEF vars
<1>2. SInv'
  BY <1>1, SendSame, Zenon DEF PInv
<1>3. Grows /\ sent' = sent
  BY <1>1, Zenon DEF Grows, outVars, flow
<1>4. WireInv' /\ CreditInv'
  BY <1>1, <1>3, WireKeeps, CreditSame, Zenon DEF PInv, Grows
<1> QED BY <1>1, <1>2, <1>4, InSame, Zenon DEF PInv

\* PInvStep: every step of both endpoints keeps the invariant.
LEMMA PInvStep == ASSUME BytesLaws, PInv, [Next]_vars PROVE PInv'
BY SenderKeeps, ReceiverKeeps, TransmitKeeps, CloseKeeps, DeliverKeeps, AnswerKeeps,
   ReturnKeeps, PInvSame, ZenonT(40) DEF Next

\* Order: what is received was sent, and what is sent was accepted.
LEMMA Order ==
  ASSUME BytesLaws, PInv
  PROVE  /\ received \in Nat /\ sent \in Nat /\ accepted \in Nat /\ MaxBytes \in Nat
         /\ Len(read) \in Nat /\ Len(buf) \in Nat
         /\ Len(read) + Len(buf) <= received /\ received <= sent
         /\ sent <= accepted /\ accepted <= MaxBytes
<1>1. PICK x \in Nat : SendChain(x)
  BY Zenon DEF PInv, SInv
<1>2. sent \in Nat /\ accepted \in Nat /\ sent <= x /\ x <= accepted /\ accepted <= MaxBytes
  BY <1>1, Zenon DEF PInv, SInv, SendTypes, SendChain, SendArith
<1>3. Len(read) + Len(buf) <= received /\ received <= sent
  BY Zenon DEF PInv, ReadInv, WireInv
<1>4. sent <= accepted
  BY <1>2, SMTT(30)
<1> QED BY <1>2, <1>3, <1>4, Quantities, OutboundAssumption, Zenon

-----------------------------------------------------------------------------
(* What follows from it. *)

\* TypesFollow: the invariant implies the types, the lengths of queue and budgets among
\* them.
LEMMA TypesFollow == ASSUME BytesLaws, PInv PROVE TypeOK
\* RunBytes: the bytes a run holds are its numbers.
<1>RunBytes.
    ASSUME NEW a \in Nat, NEW b \in Nat, a <= b, b <= MaxBytes
    PROVE  Run(a, b) \in ByteSeqs
  <2> USE <1>RunBytes
  <2>1. MaxBytes \in Nat
    BY OutboundAssumption, Zenon
  <2>2. b - a \in Nat /\ \A k \in 1..(b - a) : a + k \in 1..MaxBytes
    BY <2>1, SMTT(30)
  <2> QED BY <2>2, SMTT(30) DEF Run, ByteSeqs
<1>0. /\ SInv /\ SendTypes /\ SendArith /\ RecvTypes /\ RecvCtl /\ AccountInv /\ ReadInv
  BY Zenon DEF PInv, SInv
<1>1. /\ received \in Nat /\ sent \in Nat /\ accepted \in Nat /\ MaxBytes \in Nat
      /\ Len(read) \in Nat /\ Len(buf) \in Nat
      /\ Len(read) + Len(buf) <= received /\ received <= sent
      /\ sent <= accepted /\ accepted <= MaxBytes
  BY Order, Zenon
<1>2. writeFut \in ByteSeqs
  <2>1. /\ Tip \in Nat /\ Tip + Len(writeFut) <= MaxBytes /\ writeFut \in Seq(Nat)
        /\ writeFut = Run(Tip, Tip + Len(writeFut))
    BY <1>0, Zenon DEF SendArith, SendTypes
  <2>2. Len(writeFut) \in Nat
    BY <2>1, SMTT(30)
  <2>3. Tip + Len(writeFut) \in Nat /\ Tip <= Tip + Len(writeFut)
    BY <2>1, <2>2, SMTT(30)
  <2>4. Run(Tip, Tip + Len(writeFut)) \in ByteSeqs
    BY <2>1, <2>3, <1>RunBytes, Zenon
  <2> QED BY <2>1, <2>4, Zenon
<1>3. buf \in ByteSeqs
  <2>1. buf = Run(Len(read), Len(read) + Len(buf))
    BY <1>0, Zenon DEF ReadInv
  <2>2. /\ Len(read) + Len(buf) \in Nat /\ Len(read) <= Len(read) + Len(buf)
        /\ Len(read) + Len(buf) <= MaxBytes
    BY <1>1, SMTT(30)
  <2>3. Run(Len(read), Len(read) + Len(buf)) \in ByteSeqs
    BY <1>1, <2>2, <1>RunBytes, Zenon
  <2> QED BY <2>1, <2>3, Zenon
<1>4. frame.data \in ByteSeqs
  <2>1. CASE reader \in {"push", "lock"}
    <3>1. /\ Len(frame.data) \in Nat /\ Len(frame.data) <= received
          /\ frame.data = Run(received - Len(frame.data), received)
      BY <2>1, FrameAtHand, Zenon
    <3>2. /\ received - Len(frame.data) \in Nat /\ received - Len(frame.data) <= received
          /\ received <= MaxBytes
      BY <1>1, <3>1, SMTT(30)
    <3>3. Run(received - Len(frame.data), received) \in ByteSeqs
      BY <1>1, <3>2, <1>RunBytes, ZenonT(40)
    <3> QED BY <3>1, <3>3, Zenon
  <2>2. CASE reader \notin {"push", "lock"}
    <3>1. frame.data = <<>>
      BY <1>0, <2>2, SMTT(30) DEF RecvCtl, NoFrame
    <3> QED BY <3>1, SMTT(30) DEF ByteSeqs
  <2> QED BY <2>1, <2>2, Zenon
<1>5. /\ Bytes(chunks) <= StreamWindow
      /\ permitsC \in 0..ConnWindow /\ permitsS \in 0..StreamWindow
  <2> DEFINE l == IF reader = "lock" THEN Len(frame.data) ELSE 0
  <2>1. l \in Nat
    BY FrameAtHand, Zenon
  <2>2. permitsC + (Bytes(chunks) + Len(buf) + l) = ConnWindow
    BY <1>0, Zenon DEF AccountInv
  <2>3. permitsS + (Bytes(chunks) + Len(buf) + l) = StreamWindow
    BY <1>0, Zenon DEF AccountInv
  <2>4. /\ Bytes(chunks) \in Nat /\ permitsC \in Nat /\ permitsS \in Nat
        /\ ConnWindow \in Nat /\ StreamWindow \in Nat
    BY Quantities, Zenon
  <2> HIDE DEF l
  <2> QED BY <1>1, <2>1, <2>2, <2>3, <2>4, SMTT(30)
<1>6. /\ accepted \in 0..MaxBytes /\ sent \in 0..MaxBytes
  BY <1>1, SMTT(30)
<1>7. /\ sendMode \in 0..2 /\ recvMode \in 0..2
      /\ sendConn \in {"open", "closing", "ended"}
      /\ sendGone \in {"no", "dropped", "cleaned"} /\ Len(queue) <= QueueSlots
      /\ reader \in {"idle", "push", "lock", "fin", "terminal", "reset", "failed"}
      /\ app \in {"idle", "poll", "wait", "again", "give", "consume", "release", "gone"}
      /\ cleaner \in {"idle", "discard", "clear", "stop", "done"}
  BY <1>0, Zenon DEF SendTypes, RecvTypes
<1>8. {finFut, shut, accepting, storing, resetOut, finQueued, sendTerminal,
       dispatched, resetQueued, resetError, finReceived, recvClosed,
       recvTerminal, discarded, permit, woken} \subseteq BOOLEAN
  BY <1>0, Zenon DEF SendTypes, RecvTypes
<1> QED BY <1>2, <1>3, <1>4, <1>5, <1>6, <1>7, <1>8, ZenonT(40) DEF TypeOK

-----------------------------------------------------------------------------
(* Pipe implements ByteStream. *)

\* EndMeans: what the receiver knows of the end is what the sender did.
LEMMA EndMeans ==
  ASSUME PInv
  PROVE  /\ resetError => resetQueued
         /\ finReceived /\ ~resetError => dispatched /\ finQueued /\ ~resetQueued
         /\ outcome # "none" => resetQueued \/ dispatched
<1> /\ WireInv /\ RecvCtl /\ SendCtl /\ ReadInv /\ RecvTypes
  BY Zenon DEF PInv, SInv
<1>1. resetError => resetQueued
  BY Zenon DEF WireInv, RecvEnded
<1>2. finReceived => RecvEnded /\ reader # "reset"
  BY Zenon DEF RecvCtl, RecvEnded
<1>3. finReceived /\ ~resetError => dispatched
  BY <1>2, Zenon DEF WireInv
<1>4. dispatched => finQueued /\ ~resetQueued
  BY Zenon DEF SendCtl
<1>5. outcome # "none" => resetQueued \/ dispatched
  BY <1>1, <1>3, Zenon DEF ReadInv, RecvTypes
<1> QED BY <1>1, <1>3, <1>4, <1>5, Zenon

\* EndOfFile: a read that finds the end has returned every accepted byte.
LEMMA EndOfFile ==
  ASSUME BytesLaws, PInv, finReceived, ~resetError, chunks = <<>>, buf = <<>>, cleaner = "idle"
  PROVE  Len(read) = accepted
\* NothingFollowsTheEnd: once the receiver has the end of the direction, it has every
\* byte that was sent.
<1>NothingFollowsTheEnd.
    ASSUME PInv, RecvEnded, reader # "failed"
    PROVE  received = sent
  <2> USE <1>NothingFollowsTheEnd
  <2>1. wire \in Seq(Frames) /\ Chain(wire, received, sent) /\ received \in Nat /\ sent \in Nat
    BY Order, Zenon DEF PInv, WireInv
  <2>2. CASE wire = <<>>
    BY <2>1, <2>2, ChainNoneEnds, ZenonT(40)
  <2>3. CASE wire # <<>>
    <3>1. /\ Len(wire) \in Nat \ {0} /\ Head(wire) = wire[1] /\ Tail(wire) \in Seq(Frames)
          /\ Len(Tail(wire)) = Len(wire) - 1
      BY <2>1, <2>3, HeadAndTail, Zenon
    <3>2. 1 \in 1..Len(wire)
      BY <3>1, SMTT(30)
    <3>3. Head(wire).data = <<>> /\ Len(wire) = 1
      BY <3>1, <3>2, Zenon DEF PInv, WireInv
    <3>4. Tail(wire) = <<>>
      <4>1. Len(Tail(wire)) = 0
        BY <3>1, <3>3, SMTT(30)
      <4> QED BY <3>1, <4>1, EmptyLen, ZenonT(40)
    <3>5. PICK m \in Nat : /\ received <= m /\ m <= sent /\ Head(wire).data = Run(received, m)
                           /\ Chain(Tail(wire), m, sent)
      BY <2>1, <2>3, ChainTake, Zenon
    <3>6. m = sent
      BY <3>4, <3>5, ChainNoneEnds, Zenon
    <3>7. Len(Run(received, m)) = m - received /\ Len(<<>>) = 0
      BY <2>1, <3>5, RunLen, Zenon
    <3> QED BY <2>1, <3>3, <3>5, <3>6, <3>7, SMTT(30)
  <2> QED BY <2>2, <2>3, Zenon
<1> /\ WireInv /\ RecvCtl /\ SendCtl /\ ReadInv
  BY Zenon DEF PInv, SInv
<1>1. RecvEnded /\ reader \in {"terminal", "idle"}
  BY Zenon DEF RecvCtl, RecvEnded
<1>2. received = sent
  BY <1>1, <1>NothingFollowsTheEnd, Zenon
<1>3. /\ received \in Nat /\ sent \in Nat /\ accepted \in Nat /\ Len(read) \in Nat
  BY Order, Zenon
<1>4. Len(buf) = 0 /\ InReader = 0
  BY <1>1, Zenon DEF InReader
<1>5. PICK m \in Nat : /\ Chain(chunks, Len(read) + Len(buf), m)
                       /\ m = received - InReader
  BY <1>1, Zenon DEF ReadInv
<1>6. Len(read) + Len(buf) = m
  BY <1>5, ChainNoneEnds, Zenon
<1>7. Len(read) = received
  BY <1>3, <1>4, <1>5, <1>6, SMTT(30)
<1>8. dispatched /\ queue = <<>>
  BY EndMeans, Zenon DEF SendCtl
<1>9. PICK x \in Nat : SendChain(x)
  BY Zenon DEF PInv, SInv
<1>10. x = accepted /\ Chain(<<>>, sent, x)
  BY <1>8, <1>9, Zenon DEF SendChain
<1>11. sent = accepted
  BY <1>10, ChainNoneEnds, Zenon
<1> QED BY <1>2, <1>7, <1>11, Zenon

\* EndingSame: how the abstract stream ends depends on the RESET and the FIN.
LEMMA EndingSame ==
  ASSUME UNCHANGED <<resetQueued, finQueued>> PROVE Ending' = Ending
BY Zenon DEF Ending

\* ResetRefines: reset_stream is the abstract reset.
LEMMA ResetRefines ==
  ASSUME PInv, ResetStream, UNCHANGED <<accepted, finQueued>>, UNCHANGED inVars
  PROVE  Stream!Next
<1>1. ~resetQueued /\ ~dispatched /\ resetQueued' = TRUE
  BY Zenon DEF ResetStream
<1>2. outcome = "none"
  BY <1>1, EndMeans, Zenon
<1>3. Ending # "reset" /\ Ending' = "reset"
  BY <1>1, Zenon DEF Ending
<1>4. UNCHANGED <<read, outcome>>
  BY InSame, Zenon
<1>5. Stream!Reset
  BY <1>2, <1>3, <1>4, Zenon DEF Stream!Reset
<1> QED BY <1>5, Zenon DEF Stream!Next

\* SenderRefines: a step of the sending side accepts bytes, ends the stream or is not
\* seen.
LEMMA SenderRefines ==
  ASSUME PInv, Sender PROVE Stream!Next \/ UNCHANGED Stream!vars
<1> SendTypes /\ SendCtl /\ SendArith
  BY Zenon DEF PInv, SInv
<1>1. UNCHANGED inVars /\ UNCHANGED <<read, outcome>>
  BY InSame, Zenon DEF Sender
<1>2. ASSUME UNCHANGED <<accepted, resetQueued, finQueued>> PROVE UNCHANGED Stream!vars
  BY <1>1, <1>2, EndingSame, Zenon DEF Stream!vars
<1>3. ASSUME Ending # "fin", UNCHANGED <<resetQueued, finQueued>>,
             NEW n \in Nat \ {0}, accepted' = accepted + n
      PROVE  Stream!Next
  <2>1. accepted \in Nat
    BY Zenon DEF SendTypes
  <2>2. n \in 1..(accepted' - accepted)
    BY <1>3, <2>1, SMTT(30)
  <2>3. Ending' = Ending
    BY <1>3, EndingSame, Zenon
  <2>4. Stream!Accept
    BY <1>1, <1>3, <2>2, <2>3, ZenonT(40) DEF Stream!Accept
  <2> QED BY <2>4, Zenon DEF Stream!Next
<1>4. ASSUME NEW n \in Sizes, AcceptBytes(n) PROVE Stream!Next
  <2>1. n \in Nat \ {0} /\ accepted' = accepted + n /\ UNCHANGED <<resetQueued, finQueued>>
    BY <1>4, SMTT(30) DEF Sizes, AcceptBytes
  <2>2. ~finQueued
    BY <1>4, Zenon DEF SendCtl, AcceptBytes
  <2> QED BY <1>3, <2>1, <2>2, ZenonT(40) DEF Ending
<1>5. CASE QueueChunk
  <2>1. /\ UNCHANGED <<resetQueued, finQueued>> /\ writeFut # <<>> /\ ~sendTerminal
        /\ accepted' = IF sendMode = 1 THEN accepted + Len(writeFut) ELSE accepted
    BY <1>5, Zenon DEF QueueChunk, CanQueue
  <2>2. ~finQueued
    BY <2>1, Zenon DEF SendCtl
  <2>3. Len(writeFut) \in Nat \ {0}
    BY <2>1, SMTT(30) DEF SendTypes
  <2>4. CASE sendMode = 1
    <3>1. Ending # "fin" /\ accepted' = accepted + Len(writeFut)
      BY <2>1, <2>2, <2>4, Zenon DEF Ending
    <3> QED BY <1>3, <2>1, <2>3, <3>1, Zenon
  <2>5. CASE sendMode # 1
    BY <1>2, <2>1, <2>5, Zenon
  <2> QED BY <2>4, <2>5, Zenon
<1>6. CASE QueueFin
  <2>1. /\ ~storing /\ ~sendTerminal /\ finQueued' = TRUE /\ UNCHANGED <<resetQueued, accepted>>
    BY <1>6, Zenon DEF QueueFin, CanQueue
  <2>2. ~finQueued /\ ~resetQueued
    BY <2>1, Zenon DEF SendCtl
  <2>3. Ending = "open" /\ Ending' = "fin"
    BY <2>1, <2>2, Zenon DEF Ending
  <2>4. Stream!Finish
    BY <1>1, <2>1, <2>3, Zenon DEF Stream!Finish
  <2> QED BY <2>4, Zenon DEF Stream!Next
<1>7. CASE ResetApi \/ CleanSend
  <2>1. UNCHANGED <<accepted, finQueued>> /\ (ResetStream \/ UNCHANGED resetQueued)
    BY <1>7, Zenon DEF ResetApi, CleanSend
  <2> QED BY <1>1, <1>2, <2>1, ResetRefines, Zenon
<1>8. CASE \/ \E n \in Sizes : WriteChunk(n)
           \/ Finish \/ CancelCall \/ PollWrite \/ AcceptLater \/ PollShutdown
  <2>1. UNCHANGED <<accepted, resetQueued, finQueued>>
    BY <1>8, Zenon DEF WriteChunk, Finish, CancelCall, PollWrite, AcceptLater, PollShutdown
  <2> QED BY <1>2, <2>1, Zenon
<1>9. CASE FinStored \/ QueueFails \/ DropSend \/ CloseGracefully
  <2>1. UNCHANGED <<accepted, resetQueued, finQueued>>
    BY <1>9, Zenon DEF FinStored, QueueFails, DropSend, CloseGracefully
  <2> QED BY <1>2, <2>1, Zenon
<1> QED BY <1>4, <1>5, <1>6, <1>7, <1>8, <1>9, ZenonT(40) DEF Sender

\* ReceiverRefines: a step of the receiving side returns the next bytes, returns the
\* end or is not seen.
LEMMA ReceiverRefines ==
  ASSUME BytesLaws, PInv, Receiver PROVE Stream!Next \/ UNCHANGED Stream!vars
<1> RecvTypes /\ RecvCtl /\ ReadInv
  BY Zenon DEF PInv
<1>1. UNCHANGED <<accepted, resetQueued, finQueued>> /\ Ending' = Ending
  BY EndingSame, Zenon DEF Receiver, outVars
<1>2. ASSUME UNCHANGED <<read, outcome>> PROVE UNCHANGED Stream!vars
  BY <1>1, <1>2, Zenon DEF Stream!vars
<1>3. ASSUME ReadCheck, buf = <<>>, app \in {"idle", "again", "wait"}, read' = read
      PROVE  Stream!Next \/ UNCHANGED Stream!vars
  <2>1. \/ resetError /\ outcome' = "reset"
        \/ /\ ~resetError /\ chunks = <<>> /\ (finReceived \/ recvTerminal)
           /\ outcome' = "eof"
        \/ outcome' = outcome
    BY <1>3, Zenon DEF ReadCheck
  <2>2. CASE resetError /\ outcome' = "reset"
    <3>1. Ending = "reset"
      BY <2>2, EndMeans, Zenon DEF Ending
    <3>2. outcome \in {"none", "reset"}
      BY <2>2, Zenon DEF RecvTypes, ReadInv
    <3>3. CASE outcome = "none"
      <4>1. Stream!ReadReset
        BY <1>1, <1>3, <2>2, <3>1, <3>3, ZenonT(40) DEF Stream!ReadReset
      <4> QED BY <4>1, Zenon DEF Stream!Next
    <3>4. CASE outcome = "reset"
      BY <1>2, <1>3, <2>2, <3>4, ZenonT(40)
    <3> QED BY <3>2, <3>3, <3>4, Zenon
  <2>3. CASE /\ ~resetError /\ chunks = <<>> /\ (finReceived \/ recvTerminal)
             /\ outcome' = "eof"
    <3>1. finReceived /\ cleaner = "idle"
      BY <1>3, <2>3, Zenon DEF RecvCtl
    <3>2. Len(read) = accepted
      BY <1>3, <2>3, <3>1, EndOfFile, Zenon
    <3>3. Ending = "fin"
      BY <2>3, <3>1, EndMeans, Zenon DEF Ending
    <3>4. outcome \in {"none", "eof"}
      BY <2>3, Zenon DEF RecvTypes, ReadInv
    <3>5. CASE outcome = "none"
      <4>1. Stream!ReadEnd
        BY <1>1, <1>3, <2>3, <3>2, <3>3, <3>5, ZenonT(40) DEF Stream!ReadEnd
      <4> QED BY <4>1, Zenon DEF Stream!Next
    <3>6. CASE outcome = "eof"
      BY <1>2, <1>3, <2>3, <3>6, Zenon
    <3> QED BY <3>4, <3>5, <3>6, Zenon
  <2>4. CASE outcome' = outcome
    BY <1>2, <1>3, <2>4, Zenon
  <2> QED BY <2>1, <2>2, <2>3, <2>4, Zenon
<1>4. CASE CallRead(1) \/ CallRead(2)
  <2>1. ReadCheck /\ buf = <<>> /\ app \in {"idle", "again", "wait"} /\ read' = read
    BY <1>4, Zenon DEF CallRead
  <2> QED BY <1>3, <2>1, Zenon
<1>5. CASE ReadAgain
  <2>1. ReadCheck /\ buf = <<>> /\ app \in {"idle", "again", "wait"} /\ read' = read
    BY <1>5, Zenon DEF ReadAgain, RecvCtl
  <2> QED BY <1>3, <2>1, Zenon
<1>6. ASSUME NEW n \in 1..Len(buf), GiveBytes(n) PROVE Stream!Next
  <2>1. read' = read \o SubSeq(buf, 1, n) /\ outcome' = outcome
    BY <1>6, Zenon DEF GiveBytes
  <2>2. /\ received \in Nat /\ sent \in Nat /\ accepted \in Nat
        /\ Len(read) \in Nat /\ Len(buf) \in Nat
        /\ Len(read) + Len(buf) <= received /\ received <= sent /\ sent <= accepted
    BY Order, Zenon
  <2>3. buf \in Seq(Nat) /\ buf = Run(Len(read), Len(read) + Len(buf))
    BY Zenon DEF RecvTypes, ReadInv
  <2>4. n \in Nat /\ n <= Len(buf) /\ n # 0
    BY <2>2, SMTT(30)
  <2>5. buf # <<>>
    BY <2>3, <2>4, SMTT(30)
  <2>6. outcome = "none"
    BY <2>5, Zenon DEF ReadInv
  <2>7. n \in 1..(accepted - Len(read))
    BY <2>2, <2>4, SMTT(30)
  <2>8. SubSeq(buf, 1, n) = [i \in 1..n |-> Len(read) + i]
    <3>1. /\ Len(read) + n \in Nat /\ Len(read) + Len(buf) \in Nat
          /\ Len(read) <= Len(read) + n /\ Len(read) + n <= Len(read) + Len(buf)
          /\ (Len(read) + n) - Len(read) = n
      BY <2>2, <2>4, SMTT(30)
    <3>2. SubSeq(Run(Len(read), Len(read) + Len(buf)), 1, (Len(read) + n) - Len(read))
            = Run(Len(read), Len(read) + n)
      BY <2>2, <3>1, RunPrefix, Zenon
    <3>3. SubSeq(buf, 1, n) = Run(Len(read), Len(read) + n)
      BY <2>3, <3>1, <3>2, Zenon
    <3> QED BY <3>1, <3>3, ZenonT(40) DEF Run
  <2>9. Stream!Read
    BY <1>1, <2>1, <2>6, <2>7, <2>8, ZenonT(40) DEF Stream!Read
  <2> QED BY <2>9, Zenon DEF Stream!Next
<1>7. CASE PushAcquire \/ PushLocked \/ MarkReset \/ MarkFin \/ MarkTerminal \/ MarkConnectionClosed
  <2>1. UNCHANGED <<read, outcome>>
    BY <1>7, ZenonT(40) DEF PushAcquire, PushLocked, MarkReset, MarkFin, MarkTerminal,
                MarkConnectionClosed, application
  <2> QED BY <1>2, <2>1, Zenon
<1>8. CASE PollNotified \/ CancelRead \/ Consume \/ DropRecv \/ DiscardFlag \/ DiscardChunks \/ StopDone
  <2>1. UNCHANGED <<read, outcome>>
    BY <1>8, Zenon DEF PollNotified, CancelRead, Consume, DropRecv, DiscardFlag, DiscardChunks,
                StopDone, application
  <2> QED BY <1>2, <2>1, Zenon
<1> QED BY <1>4, <1>5, <1>6, <1>7, <1>8, Zenon DEF Receiver

\* TransportRefines: frames and credit on their way are not seen, a reset by
\* STOP_SENDING is.
LEMMA TransportRefines ==
  ASSUME PInv, Transmit \/ TransmitClose \/ SenderLost \/ Deliver \/ Answer \/ Return
  PROVE  Stream!Next \/ UNCHANGED Stream!vars
<1>1. ASSUME UNCHANGED <<accepted, resetQueued, finQueued>>, UNCHANGED <<read, outcome>>
      PROVE  UNCHANGED Stream!vars
  BY <1>1, EndingSame, Zenon DEF Stream!vars
<1>2. CASE Transmit \/ TransmitClose \/ SenderLost
  <2>1. UNCHANGED <<read, outcome>>
    BY <1>2, InSame, Zenon DEF Transmit, TransmitClose, SenderLost, Put
  <2>2. UNCHANGED <<accepted, resetQueued, finQueued>>
    BY <1>2, Zenon DEF Transmit, TransmitClose, SenderLost, SendData, SendReset, ConnectionEnds
  <2> QED BY <1>1, <2>1, <2>2, Zenon
<1>3. CASE Deliver
  <2>1. UNCHANGED <<accepted, resetQueued, finQueued>>
    BY <1>3, Zenon DEF Deliver, outVars
  <2>2. UNCHANGED <<read, outcome>>
    BY <1>3, ZenonT(40) DEF Deliver, TakeFrame, MarkConnectionClosed, application
  <2> QED BY <1>1, <2>1, <2>2, Zenon
<1>4. CASE Answer
  <2>1. UNCHANGED <<accepted, resetQueued, finQueued>>
    BY <1>4, Zenon DEF Answer, Reply, outVars
  <2>2. UNCHANGED <<read, outcome>>
    BY <1>4, Zenon DEF Answer, GrantConn, GrantStream, StopDone, application
  <2> QED BY <1>1, <2>1, <2>2, Zenon
<1>5. CASE Return
  <2>1. UNCHANGED inVars /\ UNCHANGED <<read, outcome>>
    BY <1>5, InSame, Zenon DEF Return
  <2>2. \/ UNCHANGED outVars \/ RecvStop
        \/ \E m : RecvMaxData(m) \/ RecvMaxStreamData(m)
    BY <1>5, Zenon DEF Return
  <2>3. CASE RecvStop
    <3>1. UNCHANGED <<accepted, finQueued>> /\ (ResetStream \/ UNCHANGED resetQueued)
      BY <2>3, Zenon DEF RecvStop, ConnectionEnds
    <3> QED BY <1>1, <2>1, <3>1, ResetRefines, Zenon
  <2>4. CASE UNCHANGED outVars \/ \E m : RecvMaxData(m) \/ RecvMaxStreamData(m)
    <3>1. UNCHANGED <<accepted, resetQueued, finQueued>>
      BY <2>4, Zenon DEF outVars, RecvMaxData, RecvMaxStreamData
    <3> QED BY <1>1, <2>1, <3>1, Zenon
  <2> QED BY <2>2, <2>3, <2>4, Zenon
<1> QED BY <1>2, <1>3, <1>4, <1>5, Zenon

\* InitRefines: a stream that was just opened is an abstract stream that was just
\* opened.
LEMMA InitRefines == ASSUME Init PROVE Stream!Init
BY Zenon DEF Init, OutInit, InInit, Stream!Init, Ending

\* StepRefines: every step of both endpoints is a step of ByteStream or changes nothing
\* it sees.
LEMMA StepRefines ==
  ASSUME BytesLaws, PInv, [Next]_vars PROVE [Stream!Next]_(Stream!vars)
<1>1. ASSUME UNCHANGED vars PROVE UNCHANGED Stream!vars
  <2>1. UNCHANGED outVars /\ UNCHANGED inVars
    BY <1>1, Zenon DEF vars
  <2>2. UNCHANGED <<accepted, resetQueued, finQueued>> /\ Ending' = Ending
    BY <2>1, EndingSame, Zenon DEF outVars
  <2> QED BY <2>1, <2>2, InSame, Zenon DEF Stream!vars
<1> QED BY <1>1, SenderRefines, ReceiverRefines, TransportRefines, ZenonT(40) DEF Next

-----------------------------------------------------------------------------
(* The laws of Bytes, and the theorems. *)

INSTANCE DataLemmas

\* BytesEmpty: no chunk, no byte.
LEMMA BytesEmpty == Bytes(<<>>) = 0
<1>1. DOMAIN [i \in DOMAIN <<>> |-> Len(<<>>[i].data)] = {}
  BY SMTT(30)
<1> QED BY <1>1, SumEmpty, ZenonT(40) DEF Bytes, SumFunction

\* BytesNat: the bytes of chunks are a number.
LEMMA BytesNat == ASSUME NEW cs \in Seq(Chunk) PROVE Bytes(cs) \in Nat
<1> DEFINE f == [i \in DOMAIN cs |-> Len(cs[i].data)]
<1>1. Len(cs) \in Nat /\ DOMAIN cs = 1..Len(cs) /\ \A i \in 1..Len(cs) : cs[i] \in Chunk
  BY SMTT(30)
<1>2. IsFiniteSet(1..Len(cs)) /\ DOMAIN f = 1..Len(cs) /\ \A i \in 1..Len(cs) : f[i] \in Nat
  BY <1>1, FS_Interval, SMTT(30) DEF Chunk
<1>3. SumFunctionOnSet(f, 1..Len(cs)) \in Nat
  BY <1>2, SumNat, Zenon
<1> QED BY <1>2, <1>3, ZenonT(40) DEF Bytes, SumFunction

\* BytesAppend: a chunk that push_inbound files adds its bytes.
LEMMA BytesAppend ==
  ASSUME NEW cs \in Seq(Chunk), NEW c \in Chunk
  PROVE  Bytes(Append(cs, c)) = Bytes(cs) + Len(c.data)
<1> DEFINE f == [i \in DOMAIN cs |-> Len(cs[i].data)]
           a == Append(cs, c)
           h == [i \in DOMAIN a |-> Len(a[i].data)]
           n == Len(cs)
<1>1. n \in Nat /\ DOMAIN cs = 1..n /\ \A i \in 1..n : cs[i] \in Chunk
  BY SMTT(30)
<1>2. DOMAIN a = 1..(n + 1) /\ a[n + 1] = c /\ \A i \in 1..n : a[i] = cs[i]
  BY SMTT(30)
<1>3. DOMAIN f = 1..n /\ \A i \in 1..n : f[i] \in Nat
  BY <1>1, SMTT(30) DEF Chunk
<1> HIDE DEF a, n
<1>4. DOMAIN h = 1..(n + 1) /\ h[n + 1] = Len(c.data) /\ \A i \in 1..n : h[i] = f[i]
  BY <1>1, <1>2, SMTT(30)
<1>5. Len(c.data) \in Nat
  BY SMTT(30) DEF Chunk
<1> HIDE DEF f, h
<1>6. SumFunctionOnSet(h, 1..(n + 1)) = SumFunctionOnSet(f, 1..n) + h[n + 1]
  BY <1>1, <1>3, <1>4, <1>5, SumAppend, ZenonT(40)
<1> QED BY <1>3, <1>4, <1>6, Zenon DEF Bytes, SumFunction, f, h, a

\* BytesTail: pop_front takes the bytes of the first chunk.
LEMMA BytesTail ==
  ASSUME NEW cs \in Seq(Chunk), cs # <<>>
  PROVE  Bytes(cs) = Len(Head(cs).data) + Bytes(Tail(cs))
<1> DEFINE f == [i \in DOMAIN cs |-> Len(cs[i].data)]
           t == Tail(cs)
           h == [i \in DOMAIN t |-> Len(t[i].data)]
           n == Len(cs) - 1
<1>1. /\ n \in Nat /\ DOMAIN cs = 1..(n + 1) /\ Head(cs) = cs[1]
      /\ \A i \in 1..(n + 1) : cs[i] \in Chunk
  BY SMTT(30)
<1>2. DOMAIN t = 1..n /\ \A i \in 1..n : t[i] = cs[i + 1]
  BY SMTT(30)
<1>3. DOMAIN f = 1..(n + 1) /\ f[1] = Len(Head(cs).data) /\ \A i \in 1..(n + 1) : f[i] \in Nat
  BY <1>1, SMTT(30) DEF Chunk
<1>4. DOMAIN h = 1..n /\ \A i \in 1..n : h[i] = f[i + 1]
  <2> HIDE DEF t, n
  <2> QED BY <1>1, <1>2, SMTT(30)
<1> HIDE DEF f, h, t, n
<1>5. SumFunctionOnSet(f, 1..(n + 1)) = f[1] + SumFunctionOnSet(h, 1..n)
  BY <1>1, <1>3, <1>4, SumShift, ZenonT(40)
<1> QED BY <1>3, <1>4, <1>5, ZenonT(40) DEF Bytes, SumFunction, f, h, t

\* BytesJoin: the last chunk grows by the bytes that join it.
LEMMA BytesJoin ==
  ASSUME NEW cs \in Seq(Chunk), cs # <<>>, NEW c \in Chunk,
         NEW k \in Nat, Len(c.data) = Len(cs[Len(cs)].data) + k
  PROVE  Bytes([cs EXCEPT ![Len(cs)] = c]) = Bytes(cs) + k
<1> DEFINE f == [i \in DOMAIN cs |-> Len(cs[i].data)]
           n == Len(cs)
           a == [cs EXCEPT ![n] = c]
           h == [i \in DOMAIN a |-> Len(a[i].data)]
<1>1. n \in 1..n /\ DOMAIN cs = 1..n /\ n \in Nat /\ \A i \in 1..n : cs[i] \in Chunk
  BY SMTT(30)
<1>2. DOMAIN a = 1..n /\ a[n] = c /\ \A i \in (1..n) \ {n} : a[i] = cs[i]
  BY SMTT(30)
<1>3. DOMAIN f = 1..n /\ f[n] = Len(cs[n].data) /\ \A i \in 1..n : f[i] \in Nat
  BY <1>1, SMTT(30) DEF Chunk
<1>0. Len(c.data) = Len(cs[n].data) + k
  BY Zenon
<1> HIDE DEF a, n
<1>4. DOMAIN h = 1..n /\ h[n] = Len(c.data) /\ \A i \in (1..n) \ {n} : h[i] = f[i]
  BY <1>1, <1>2, ZenonT(40)
<1>5. Len(c.data) \in Nat
  BY SMTT(30) DEF Chunk
<1> HIDE DEF f, h
<1>6. \A i \in 1..n : h[i] \in Nat
  BY <1>1, <1>3, <1>4, <1>5, ZenonT(40)
<1>7. IsFiniteSet(1..n)
  BY <1>1, FS_Interval, SMTT(30)
<1>8. SumFunctionOnSet(h, 1..n) + f[n] = SumFunctionOnSet(f, 1..n) + h[n]
  <2> DEFINE S == 1..n
  <2>1. n \in S /\ IsFiniteSet(S) /\ (\A i \in S : f[i] \in Nat) /\ (\A i \in S : h[i] \in Nat)
        /\ \A i \in S \ {n} : h[i] = f[i]
    BY <1>1, <1>3, <1>4, <1>6, <1>7, ZenonT(40)
  <2> HIDE DEF S
  <2>2. SumFunctionOnSet(h, S) + f[n] = SumFunctionOnSet(f, S) + h[n]
    BY <2>1, SumChange, SMTT(30)
  <2> QED BY <2>2, ZenonT(40) DEF S
<1>9. SumFunctionOnSet(h, 1..n) \in Nat /\ SumFunctionOnSet(f, 1..n) \in Nat
  BY <1>3, <1>6, <1>7, SumNat, ZenonT(40)
<1>10. f[n] \in Nat /\ h[n] = f[n] + k
  BY <1>0, <1>1, <1>3, <1>4, ZenonT(40)
<1>11. SumFunctionOnSet(h, 1..n) = SumFunctionOnSet(f, 1..n) + k
  <2> DEFINE H == SumFunctionOnSet(h, 1..n)
             F == SumFunctionOnSet(f, 1..n)
  <2>1. H \in Nat /\ F \in Nat /\ H + f[n] = F + h[n]
    BY <1>8, <1>9, ZenonT(40)
  <2> HIDE DEF H, F
  <2>2. H = F + k
    BY <1>10, <2>1, SMTT(30)
  <2> QED BY <2>2, ZenonT(40) DEF H, F
<1> QED BY <1>3, <1>4, <1>11, ZenonT(40) DEF Bytes, SumFunction, f, h, a, n

\* SumsOfBytes: these are the laws that PipeSteps uses.
LEMMA SumsOfBytes == BytesLaws
<1>1. ASSUME NEW cs \in Seq(Chunk), cs # <<>>, NEW c \in Chunk, NEW k \in Nat,
             Len(c.data) = Len(cs[Len(cs)].data) + k
      PROVE  Bytes([cs EXCEPT ![Len(cs)] = c]) = Bytes(cs) + k
  BY <1>1, BytesJoin, ZenonT(40)
<1> QED BY <1>1, BytesEmpty, BytesNat, BytesAppend, BytesTail, ZenonT(40) DEF BytesLaws

\* PInvHolds: the invariant holds in every state, for every window, frame, page and
\* queue size.
LEMMA PInvHolds == Spec => []PInv
<1>1. Init => PInv
  BY SumsOfBytes, PInvInit, ZenonT(40)
<1>2. PInv /\ [Next]_vars => PInv'
  BY SumsOfBytes, PInvStep, ZenonT(40)
<1> QED BY <1>1, <1>2, PTL DEF Spec

\* BytesReturnedOnce: every byte that the connection window counted as received is
\* given back to it once, or is in exactly one place: a chunk, read_buf, a chunk being
\* dropped, or the hands of push_inbound; the permits of both budgets balance what is
\* held; and no chunk stays behind the cleanup, whatever cancellations, resets, drops
\* and closes happen in between.  (The order of the bytes is PipeImplementsByteStream's.)
THEOREM BytesReturnedOnce == Spec => []ReturnedOnce
<1>1. PInv => ReturnedOnce
  BY ZenonT(40) DEF PInv, AccountInv, ReturnedOnce
<1> QED BY <1>1, PInvHolds, PTL

\* ConformingPeerNeverFails: a peer that keeps to the credit it was granted never makes
\* handle_frame or push_inbound fail the connection: the permits of the inbound budgets
\* suffice.
THEOREM ConformingPeerNeverFails == Spec => []PeerNeverFails
<1>1. PInv => PeerNeverFails
  BY ZenonT(40) DEF PInv, RecvCtl, PeerNeverFails
<1> QED BY <1>1, PInvHolds, PTL

\* ReaderIsAwake: no notification is lost: a read that waits in read_chunk has nothing
\* to return yet.
THEOREM ReaderIsAwake == Spec => []ReaderAwake
<1>1. PInv => ReaderAwake
  BY ZenonT(40) DEF PInv, NotifyInv, ReaderAwake
<1> QED BY <1>1, PInvHolds, PTL

\* TypeCorrect: the types of the variables, the lengths of queue and budgets among
\* them.
THEOREM TypeCorrect == Spec => []TypeOK
<1>1. PInv => TypeOK
  BY SumsOfBytes, TypesFollow, ZenonT(40)
<1> QED BY <1>1, PInvHolds, PTL

\* PipeImplementsByteStream: the queues, credit windows, budgets and handles of both
\* endpoints implement a reliable byte stream: bytes are returned in order, end of file
\* comes after all of them, an error only after a reset (SendStream and RecvStream as
\* the documentation describes them).
THEOREM PipeImplementsByteStream == Spec => ImplementsByteStream
<1>1. Init => Stream!Init
  BY InitRefines, ZenonT(40)
<1>2. PInv /\ [Next]_vars => [Stream!Next]_(Stream!vars)
  BY SumsOfBytes, StepRefines, ZenonT(40)
<1> QED BY <1>1, <1>2, PInvHolds, PTL DEF Spec, ImplementsByteStream, Stream!Spec
=============================================================================
