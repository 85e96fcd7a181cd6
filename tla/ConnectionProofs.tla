--------------------------- MODULE ConnectionProofs --------------------------
(***************************************************************************)
(* Proofs about three parts of a connection: its receive windows              *)
(* (ReceiveWindow), the sizes of its frames (Framing) and its end (Shutdown). *)
(***************************************************************************)
EXTENDS ReceiveWindow, Framing, Shutdown, TLAPS

-----------------------------------------------------------------------------
(* ReceiveWindow, for every window size, every saturation point, every payload
   bound and every set of consumer tasks. *)

USE DEF WindowTasks, Wakers, locals, held, credit

(* Every step of every task keeps the counters natural numbers and the
   program counters and locals of their types (flow.rs uses u64 throughout). *)
LEMMA TypeStep == WindowTypeOK /\ [WindowNext]_windowVars => WindowTypeOK'
<1> SUFFICES ASSUME WindowTypeOK, [WindowNext]_windowVars PROVE WindowTypeOK'
  BY Zenon
<1> USE WindowAssumption, TaskAssumption DEF WindowTypeOK
<1>0. /\ Limit(consumed) \in Nat
      /\ Half \in Nat
  BY SMTT(30) DEF Limit, Half
<1>1. ASSUME NEW n \in 0..MaxPayload, ReceiveLoad(n) PROVE WindowTypeOK'
  BY <1>1, SMTT(30) DEF ReceiveLoad, Admits, Proceed
<1>2. ASSUME NEW t \in WindowTasks, NeedsUpdate(t) PROVE WindowTypeOK'
  BY <1>0, <1>2, SMTT(30) DEF NeedsUpdate, LoadConsumed, LoadAdvertised, Proceed
<1>3. ASSUME NEW t \in Wakers, DecideWake(t) PROVE WindowTypeOK'
  <2>1. permit' \in BOOLEAN
    BY <1>3, Zenon DEF DecideWake, Due
  <2> QED
    BY <1>3, <2>1, Zenon DEF DecideWake, EndNeedsUpdate, Proceed
<1>4. CASE ReceiveCommit BY <1>4, SMTT(30) DEF ReceiveCommit, Proceed
<1>5. CASE Deliver BY <1>5, SMTT(30) DEF Deliver, Proceed
<1>6. CASE Discard BY <1>6, SMTT(30) DEF Discard, Proceed
<1>7. CASE DiscardNotify BY <1>7, Zenon DEF DiscardNotify, Proceed
<1>8. ASSUME NEW t \in Consumers, NEW n \in 1..buffered, Consume(t, n)
      PROVE WindowTypeOK'
  BY <1>8, SMTT(30) DEF Consume, Proceed
<1>9. CASE UpdateLoad BY <1>0, <1>9, Zenon DEF UpdateLoad, Proceed
<1>10. CASE UpdateDecide BY <1>10, Zenon DEF UpdateDecide, EndNeedsUpdate, Proceed
<1>11. CASE UpdateStore BY <1>11, Zenon DEF UpdateStore, Proceed
<1>12. CASE Emit BY <1>12, Zenon DEF Emit, Proceed
<1>13. CASE Wake BY <1>13, Zenon DEF Wake, Proceed
<1>14. CASE OtherNotify BY <1>14, Zenon DEF OtherNotify
<1>15. CASE UNCHANGED windowVars BY <1>15, Zenon DEF windowVars
<1> QED
  BY <1>1, <1>2, <1>3, <1>4, <1>5, <1>6, <1>7, <1>8, <1>9, <1>10, <1>11,
     <1>12, <1>13, <1>14, <1>15, Zenon
  DEF WindowNext, ReaderStep, ConsumerStep, WriterStep

(* The counters of a receive window keep their types in every behaviour of
   the reader, the consumers and the writer. *)
THEOREM WindowTypeCorrect == WindowSpec => []WindowTypeOK
<1>1. ASSUME WindowInit PROVE WindowTypeOK
  <2>1. permit \in BOOLEAN /\ conforming \in BOOLEAN
    BY <1>1, Zenon DEF WindowInit
  <2>2. at \in [WindowTasks -> {"idle", "loadNext"}]
    BY <1>1, Zenon DEF WindowInit
  <2>3. /\ next \in [WindowTasks -> Nat]
        /\ old \in [WindowTasks -> Nat]
    BY <1>1, Zenon DEF WindowInit
  <2> QED
    BY <1>1, <2>1, <2>2, <2>3, WindowAssumption, Zenon DEF WindowInit, WindowTypeOK
<1> QED
  BY <1>1, TypeStep, PTL DEF WindowSpec

-----------------------------------------------------------------------------
(* Consumption only raises the limit that update may advertise. *)
LEMMA LimitMonotone ==
  ASSUME NEW a \in Nat, NEW b \in Nat, a <= b
  PROVE  /\ Limit(a) \in Nat
         /\ Limit(a) <= Limit(b)
         /\ Limit(a) <= a + Window
         /\ Limit(a) <= MaxCredit
BY WindowAssumption, SMTT(30) DEF Limit

(* A new window (ReceiveWindow::new) has advertised exactly one window. *)
LEMMA CreditInit == WindowInit => CreditInv
BY WindowAssumption, TaskAssumption, SMTT(30)
DEF WindowInit, CreditInv, PcOK, Conserved, GrantOK, NoFalseRejection, Checking,
    Limit

(* No step of reader, consumer or writer lets the advertised limit run ahead
   of consumption, or receive run ahead of the advertised limit. *)
LEMMA CreditStep == WindowTypeOK /\ CreditInv /\ [WindowNext]_windowVars => CreditInv'
<1> SUFFICES ASSUME WindowTypeOK, CreditInv, [WindowNext]_windowVars PROVE CreditInv'
  BY Zenon
<1> USE WindowAssumption, TaskAssumption
    DEF WindowTypeOK, CreditInv, PcOK, Conserved, GrantOK, NoFalseRejection,
        Checking
<1>0. Limit(consumed) \in Nat
  BY LimitMonotone, SMTT(30)
<1>1. ASSUME NEW n \in 0..MaxPayload, ReceiveLoad(n) PROVE CreditInv'
  <2>1. at'[Reader] = "failed" => ~conforming'
    <3>1. CASE received + n <= advertised
      BY <1>1, <3>1, Zenon DEF ReceiveLoad, Admits, Proceed
    <3>2. CASE ~(received + n <= advertised)
      <4>1. ~(received + n <= announced)
        BY <3>2, SMTT(30)
      <4> QED
        BY <1>1, <4>1, Zenon DEF ReceiveLoad, Admits
    <3> QED
      BY <3>1, <3>2, Zenon
  <2>2. at'[Writer] = at[Writer] /\ \A t \in Consumers : at'[t] = at[t]
    BY <1>1, Zenon DEF ReceiveLoad, Admits, Proceed
  <2>3. at'[Reader] \in {"commit", "failed"}
    BY <1>1, Zenon DEF ReceiveLoad, Admits, Proceed
  <2>4. at'[Reader] = "commit" => received + n <= advertised
    BY <1>1, Zenon DEF ReceiveLoad, Admits, Proceed
  <2> QED
    BY <1>0, <1>1, <2>1, <2>2, <2>3, <2>4, Zenon DEF ReceiveLoad, Admits
<1>2. ASSUME NEW t \in WindowTasks, NeedsUpdate(t) PROVE CreditInv'
  <2>1. CASE LoadConsumed(t)
    BY <1>0, <2>1, Zenon DEF LoadConsumed, Proceed
  <2>2. CASE LoadAdvertised(t)
    BY <1>0, <2>2, ZenonT(40) DEF LoadAdvertised, Proceed
  <2> QED
    BY <1>2, <2>1, <2>2, Zenon DEF NeedsUpdate
<1>3. ASSUME NEW t \in Wakers, DecideWake(t) PROVE CreditInv'
  BY <1>0, <1>3, SMTT(30) DEF DecideWake, EndNeedsUpdate, Proceed
<1>4. CASE ReceiveCommit BY <1>0, <1>4, SMTT(30) DEF ReceiveCommit, Proceed
<1>5. CASE Deliver BY <1>0, <1>5, SMTT(30) DEF Deliver, Proceed
<1>6. CASE Discard
  <2>1. Limit(consumed) <= Limit(consumed + size)
    BY LimitMonotone, SMTT(30)
  <2>2. Limit(consumed + size) \in Nat
    BY LimitMonotone, SMTT(30)
  <2> QED
    BY <1>0, <1>6, <2>1, <2>2, SMTT(30) DEF Discard, Proceed
<1>7. CASE DiscardNotify BY <1>0, <1>7, ZenonT(40) DEF DiscardNotify, Proceed
<1>8. ASSUME NEW t \in Consumers, NEW n \in 1..buffered, Consume(t, n)
      PROVE CreditInv'
  <2>1. Limit(consumed) <= Limit(consumed + n)
    BY LimitMonotone, SMTT(30)
  <2>2. Limit(consumed + n) \in Nat
    BY LimitMonotone, SMTT(30)
  <2> QED
    BY <1>0, <1>8, <2>1, <2>2, SMTT(30) DEF Consume, Proceed
<1>9. CASE UpdateLoad BY <1>0, <1>9, SMTT(30) DEF UpdateLoad, Proceed
<1>10. CASE UpdateDecide BY <1>0, <1>10, ZenonT(40) DEF UpdateDecide, EndNeedsUpdate,
   Proceed
<1>11. CASE UpdateStore BY <1>0, <1>11, SMTT(30) DEF UpdateStore, Proceed
<1>12. CASE Emit BY <1>0, <1>12, Zenon DEF Emit, Proceed
<1>13. CASE Wake BY <1>0, <1>13, Zenon DEF Wake, Proceed
<1>14. CASE OtherNotify BY <1>14, Zenon DEF OtherNotify
<1>15. CASE UNCHANGED windowVars BY <1>15, Zenon DEF windowVars
<1> QED
  BY <1>1, <1>2, <1>3, <1>4, <1>5, <1>6, <1>7, <1>8, <1>9, <1>10, <1>11,
     <1>12, <1>13, <1>14, <1>15, ZenonT(40)
  DEF WindowNext, ReaderStep, ConsumerStep, WriterStep

(* The relations between received, consumed, advertised and the value update
   has loaded hold in every behaviour. *)
LEMMA CreditAlways == WindowSpec => []CreditInv
BY WindowTypeCorrect, CreditInit, CreditStep, PTL DEF WindowSpec

(* Those relations bound what receive admits beyond what was consumed. *)
LEMMA CreditBounds == WindowTypeOK /\ CreditInv => BoundedBuffer
<1> SUFFICES ASSUME WindowTypeOK, CreditInv PROVE BoundedBuffer
  BY Zenon
<1>1. /\ Limit(consumed) \in Nat
      /\ Limit(consumed) <= consumed + Window
      /\ Limit(consumed) <= MaxCredit
  BY LimitMonotone, SMTT(30) DEF WindowTypeOK
<1> QED
  BY <1>1, WindowAssumption, SMTT(30) DEF WindowTypeOK, CreditInv, BoundedBuffer

(* receive never admits more than one window beyond what the application has
   released, whatever the peer sends and however consume races update. *)
THEOREM BufferIsBounded == WindowSpec => []BoundedBuffer
BY WindowTypeCorrect, CreditAlways, CreditBounds, PTL

(* receive never rejects a frame within the credit that update has let out. *)
THEOREM ConformingPeerAccepted == WindowSpec => []NoFalseRejection
<1>1. CreditInv => NoFalseRejection
  BY Zenon DEF CreditInv
<1> QED
  BY <1>1, CreditAlways, PTL

(* update never takes credit back, although the value it stores was computed
   before the decision to store it. *)
THEOREM CreditMonotone == WindowSpec => CreditNeverShrinks
<1>1. WindowTypeOK /\ CreditInv /\ [WindowNext]_windowVars
        => [advertised' >= advertised /\ announced' >= announced]_<<advertised, announced>>
  <2> SUFFICES ASSUME WindowTypeOK, CreditInv, [WindowNext]_windowVars
               PROVE  advertised' >= advertised /\ announced' >= announced
    BY Zenon
  <2> USE DEF WindowTypeOK, CreditInv, GrantOK
  <2>1. CASE UpdateStore
    BY <2>1, SMTT(30) DEF UpdateStore
  <2>2. CASE Emit
    BY <2>2, SMTT(30) DEF Emit
  <2>3. CASE UNCHANGED <<advertised, announced>>
    BY <2>3, SMTT(30)
  <2> QED
    BY <2>1, <2>2, <2>3, Zenon
    DEF WindowNext, ReaderStep, ConsumerStep, WriterStep, NeedsUpdate, windowVars,
        ReceiveLoad, LoadConsumed, LoadAdvertised, DecideWake, ReceiveCommit,
        Deliver, Discard, DiscardNotify, Consume, UpdateLoad, UpdateDecide,
        Wake, OtherNotify
<1> QED
  BY <1>1, WindowTypeCorrect, CreditAlways, PTL DEF WindowSpec, CreditNeverShrinks

-----------------------------------------------------------------------------
(* While the writer holds the advertised limit still, a due update stays
   known to a task that will act on it: the task that made it due checks after
   making it due. *)
LEMMA CoverStep ==
  WindowTypeOK /\ CreditInv /\ UpdateCovered /\ [WindowNext]_windowVars => UpdateCovered'
<1> SUFFICES ASSUME WindowTypeOK, CreditInv, UpdateCovered, [WindowNext]_windowVars,
                    Due(Limit(consumed), advertised, received)'
             PROVE  \/ permit'
                    \/ at'[Writer] \in {"loadNext", "store", "emit"}
                    \/ at'[Reader] = "notify"
                    \/ \E u \in WindowTasks : WillAnswerDue(u)'
  BY Zenon DEF UpdateCovered
<1> DEFINE Covered ==
      \/ permit
      \/ at[Writer] \in {"loadNext", "store", "emit"}
      \/ at[Reader] = "notify"
      \/ \E u \in WindowTasks : WillAnswerDue(u)
<1> USE TaskAssumption
<1>a. at \in [WindowTasks -> {"idle", "commit", "failed", "loadConsumed",
                       "loadAdvertised", "decide", "deliver", "notify",
                       "loadNext", "store", "emit", "wait"}]
  BY Zenon DEF WindowTypeOK
<1>b. UNCHANGED <<received, consumed, advertised>> => Covered
  BY Zenon DEF UpdateCovered, Due, Limit
<1>1. ASSUME NEW n \in 0..MaxPayload, ReceiveLoad(n) PROVE Covered'
  BY <1>1, <1>a, <1>b, Zenon DEF ReceiveLoad, Admits, Proceed, WillAnswerDue, Due
<1>2. ASSUME NEW t \in WindowTasks, LoadConsumed(t) PROVE Covered'
  <2>1. WillAnswerDue(t)'
    BY <1>2, <1>a, Zenon DEF LoadConsumed, Proceed, WillAnswerDue, WindowTypeOK, Due, Limit
  <2> QED
    BY <2>1, Zenon
<1>3. ASSUME NEW t \in WindowTasks, LoadAdvertised(t) PROVE Covered'
  BY <1>3, <1>a, <1>b, Zenon DEF LoadAdvertised, Proceed, WillAnswerDue, Due, WindowTypeOK
<1>4. ASSUME NEW t \in Wakers, DecideWake(t) PROVE Covered'
  <2>1. CASE Due(next[t], old[t], received)
    BY <1>4, <2>1, Zenon DEF DecideWake
  <2>2. CASE ~Due(next[t], old[t], received)
    <3>1. ~WillAnswerDue(t)
      BY <1>4, <2>2, Zenon DEF DecideWake, WillAnswerDue
    <3>2. \A u \in WindowTasks : u # t => (WillAnswerDue(u) => WillAnswerDue(u)')
      BY <1>4, <1>a, Zenon
      DEF DecideWake, EndNeedsUpdate, Proceed, WillAnswerDue, Due, WindowTypeOK
    <3>3. at'[Writer] = at[Writer] /\ (permit => permit')
      BY <1>4, <1>a, Zenon DEF DecideWake, Proceed
    <3>4. at[Reader] = "notify" => at'[Reader] = "notify"
      BY <1>4, <1>a, Zenon DEF DecideWake, Proceed
    <3> QED
      BY <1>4, <1>b, <3>1, <3>2, <3>3, <3>4, Zenon DEF DecideWake
  <2> QED
    BY <2>1, <2>2, Zenon
<1>5. CASE ReceiveCommit
  BY <1>5, <1>a, Zenon DEF ReceiveCommit, Proceed, WillAnswerDue
<1>6. CASE Deliver
  BY <1>6, <1>a, <1>b, Zenon DEF Deliver, Proceed, WillAnswerDue, Due
<1>7. CASE Discard
  BY <1>7, <1>a, Zenon DEF Discard, Proceed
<1>8. CASE DiscardNotify
  BY <1>8, Zenon DEF DiscardNotify
<1>9. ASSUME NEW t \in Consumers, NEW n \in 1..buffered, Consume(t, n)
      PROVE Covered'
  BY <1>9, <1>a, Zenon DEF Consume, Proceed, WillAnswerDue
<1>10. CASE UpdateLoad
  BY <1>10, <1>a, Zenon DEF UpdateLoad, Proceed, WillAnswerDue
<1>11. CASE UpdateDecide
  <2>1. CASE Due(next[Writer], old[Writer], received)
    BY <1>11, <2>1, <1>a, ZenonT(40) DEF UpdateDecide, Proceed
  <2>2. CASE ~Due(next[Writer], old[Writer], received)
    <3>1. ~WillAnswerDue(Writer)
      BY <1>11, <2>2, Zenon DEF UpdateDecide, WillAnswerDue
    <3>2. \A u \in WindowTasks : u # Writer => (WillAnswerDue(u) => WillAnswerDue(u)')
      BY <1>11, <1>a, Zenon
      DEF UpdateDecide, EndNeedsUpdate, Proceed, WillAnswerDue, Due, WindowTypeOK
    <3>3. at[Writer] = "decide" /\ at'[Reader] = at[Reader] /\ permit' = permit
      BY <1>11, <1>a, Zenon DEF UpdateDecide, Proceed
    <3> QED
      BY <1>11, <1>b, <3>1, <3>2, <3>3, SMTT(30) DEF UpdateDecide
  <2> QED
    BY <2>1, <2>2, Zenon
<1>12. CASE UpdateStore
  BY <1>12, <1>a, Zenon DEF UpdateStore, Proceed
<1>13. CASE Emit
  BY <1>13, <1>a, Zenon DEF Emit, Proceed
<1>14. CASE Wake
  BY <1>14, <1>a, Zenon DEF Wake, Proceed
<1>15. CASE OtherNotify
  BY <1>15, Zenon DEF OtherNotify
<1>16. CASE UNCHANGED windowVars
  BY <1>16, <1>b, Zenon DEF windowVars, WillAnswerDue, Due
<1> QED
  BY <1>1, <1>2, <1>3, <1>4, <1>5, <1>6, <1>7, <1>8, <1>9, <1>10, <1>11,
     <1>12, <1>13, <1>14, <1>15, <1>16, ZenonT(40)
  DEF WindowNext, ReaderStep, ConsumerStep, WriterStep, NeedsUpdate

(* A credit update that is due is never forgotten: when the writer sleeps
   without a permit and no task is inside needs_update, nothing is due. *)
THEOREM NoUpdateIsLost == WindowSpec => []NoLostUpdate
<1>1. WindowInit => UpdateCovered
  BY TaskAssumption, Zenon DEF WindowInit, UpdateCovered
<1>2. WindowSpec => []UpdateCovered
  BY <1>1, WindowTypeCorrect, CreditAlways, CoverStep, PTL DEF WindowSpec
<1>3. UpdateCovered /\ CreditInv => NoLostUpdate
  BY TaskAssumption, Zenon
  DEF UpdateCovered, NoLostUpdate, WillAnswerDue, CreditInv, PcOK,
      Checking
<1> QED
  BY <1>2, <1>3, CreditAlways, PTL

HIDE DEF WindowTasks, Wakers, locals, held, credit

-----------------------------------------------------------------------------
(* Framing, for every radix, limit, stream ID and reason: the search of
   max_stream_payload finds the largest payload, every frame fits both
   endpoints' limits, next_frame's subtractions do not wrap, and a chunk cut by
   poll_write is never refused.

   The inductive invariant FInv records why: the search keeps a payload that
   fits below and only payloads that do not fit above, peerMax is at least
   MinFrameSize and never above the peer's limit, and a close reason that is
   being cut is already within the room its largest header leaves. *)

Fits(i, n) == StreamLen(i, n) <= limits.max_frame_size

SearchInv ==
  stage = "search" =>
    /\ low <= high /\ high <= limits.max_frame_size
    /\ Fits(id, low)
    /\ \A n \in Nat : n > high => ~Fits(id, n) \/ n > limits.max_frame_size

WriteInv ==
  /\ id \in Nat /\ low \in Nat /\ high \in Nat /\ left \in Nat
  /\ SearchInv
  /\ stage = "found" => left <= limits.max_outbound_stream_bytes
  /\ stage \in {"found", "queued"} => left >= 1 /\ Fits(id, left)
  /\ stage \notin {"invalid", "refused"}

ConnInv ==
  /\ limits \in LimitChoices /\ Valid(limits)
  /\ peer \in Nat /\ peerMax \in Nat /\ peerMax >= MinFrameSize
  /\ peer >= MinFrameSize => peerMax <= peer
  /\ ~settings => peerMax = MinFrameSize

CloseInv ==
  /\ code \in Nat /\ end \in Nat /\ IsReason(reason)
  /\ close \in {"set", "trim"} =>
       CloseLen(code, reason.size) <= limits.max_frame_size
  /\ close = "trim" => /\ end <= reason.size
                       /\ end <= peerMax - (1 + EncodedLen(code) + 8)

FInv == ConnInv /\ WriteInv /\ CloseInv /\ FrameFits

-----------------------------------------------------------------------------
(* Sizes. *)

\* QuarterType: a quarter of a byte's values is a number.
LEMMA QuarterType == Quarter \in Nat /\ U32 \in Int
BY FramingAssumption, SMTT(30) DEF Quarter, U32

\* EncodedLenType: VarInt::encoded_len is 1, 2, 4 or 8.
LEMMA EncodedLenType == \A v : EncodedLen(v) \in {1, 2, 4, 8}
BY Zenon DEF EncodedLen

\* EncodedLenMonotone: a larger number needs no fewer bytes.
LEMMA EncodedLenMonotone ==
  ASSUME NEW v \in Nat, NEW w \in Nat, v <= w
  PROVE  EncodedLen(v) <= EncodedLen(w)
<1> DEFINE A == Quarter
           B == Quarter * Radix
           C == Quarter * Radix * Radix * Radix
<1>1. A \in Nat /\ B \in Nat /\ C \in Nat
  BY QuarterType, FramingAssumption, SMTT(30)
<1>2. \A x : EncodedLen(x) = IF x < A THEN 1 ELSE IF x < B THEN 2
                             ELSE IF x < C THEN 4 ELSE 8
  BY Zenon DEF EncodedLen
<1> HIDE DEF A, B, C
<1> QED BY <1>1, <1>2, SMTT(30)

\* StreamLenMonotone: a longer payload makes a longer STREAM frame.
LEMMA StreamLenMonotone ==
  ASSUME NEW i, NEW m \in Nat, NEW n \in Nat, m <= n
  PROVE  StreamLen(i, m) <= StreamLen(i, n)
<1>1. EncodedLen(m) <= EncodedLen(n)
  BY EncodedLenMonotone, Zenon
<1> QED BY <1>1, EncodedLenType, SMTT(30) DEF StreamLen

\* LimitsAreNumbers: what Limits::validate gives the other proofs.
LEMMA LimitsAreNumbers ==
  ASSUME ConnInv
  PROVE  /\ limits.max_frame_size \in Nat
         /\ limits.max_frame_size >= 25 /\ limits.max_frame_size <= U32
         /\ limits.max_outbound_stream_bytes \in Nat
         /\ limits.max_outbound_stream_bytes >= 1
<1>0. Valid(limits)
  BY Zenon DEF ConnInv
<1>1. limits \in [LimitFields -> Nat]
  BY FramingAssumption, Zenon DEF ConnInv
<1>2. limits.max_frame_size \in Nat /\ limits.max_outbound_stream_bytes \in Nat
  BY <1>1, Zenon DEF LimitFields
<1>3. limits.max_frame_size \in 25..U32
  <2>1. limits.max_frame_size \in MinFrameSize..U32
    BY <1>0, Zenon DEF Valid
  <2> QED BY <2>1, Zenon DEF MinFrameSize
<1>4. limits.max_outbound_stream_bytes \in 1..MaxPermits
  <2>1. \A f \in PermitFields : limits[f] \in 1..MaxPermits
    BY <1>0, Zenon DEF Valid
  <2>2. "max_outbound_stream_bytes" \in PermitFields
    BY Zenon DEF PermitFields, ByteFields
  <2> QED BY <2>1, <2>2, Zenon
<1> QED BY <1>2, <1>3, <1>4, QuarterType, FramingAssumption, SMTT(30)

\* RoomBounds: the payload next_frame takes leaves room for its header.
LEMMA RoomBounds ==
  ASSUME ConnInv, NEW i \in Nat
  PROVE  /\ Room(i) \in Nat /\ Room(i) >= 1
         /\ \A n \in Nat : n <= Room(i) => StreamLen(i, n) <= peerMax
<1> DEFINE c == Capacity(i)
<1>1. c \in Nat /\ c >= 15 /\ c = peerMax - 2 - EncodedLen(i)
  BY EncodedLenType, SMTT(30) DEF ConnInv, Capacity, MinFrameSize
<1>2. Room(i) = c - EncodedLen(c)
  BY Zenon DEF Room
<1>3. EncodedLen(c) \in {1, 2, 4, 8} /\ EncodedLen(i) \in {1, 2, 4, 8}
  BY EncodedLenType, Zenon
<1> HIDE DEF c
<1>4. ASSUME NEW n \in Nat, n <= Room(i)
      PROVE  StreamLen(i, n) <= peerMax
  <2>1. n <= c
    BY <1>1, <1>2, <1>3, <1>4, SMTT(30)
  <2>2. EncodedLen(n) <= EncodedLen(c)
    BY <1>1, <2>1, EncodedLenMonotone, Zenon
  <2>3. EncodedLen(n) \in {1, 2, 4, 8}
    BY EncodedLenType, Zenon
  <2> QED BY <1>1, <1>2, <1>3, <1>4, <2>2, <2>3, SMTT(30) DEF StreamLen, ConnInv
<1> QED BY <1>1, <1>2, <1>3, <1>4, SMTT(30)

-----------------------------------------------------------------------------
(* The invariant. *)

\* FInvInit: Connection::new establishes the invariant; SETTINGS has 25 bytes at
\* most.
LEMMA FInvInit == FramingInit => FInv
<1> SUFFICES ASSUME FramingInit PROVE FInv
  BY Zenon
<1>1. ConnInv
  BY FramingAssumption, SMTT(30) DEF FramingInit, ConnInv, MinFrameSize
<1>2. WriteInv
  BY Zenon DEF FramingInit, WriteInv, SearchInv
<1>3. CloseInv
  BY SMTT(30) DEF FramingInit, CloseInv, IsReason, Empty
<1>4. FrameFits
  <2>1. FrameLen(frame) = 1 + EncodedLen(limits.max_inbound_connection_bytes)
                            + EncodedLen(limits.max_inbound_stream_bytes)
                            + EncodedLen(limits.max_frame_size)
    BY Zenon DEF FramingInit, SettingsFrame, FrameLen
  <2>2. FrameLen(frame) \in Nat /\ FrameLen(frame) <= 25
    BY <2>1, EncodedLenType, SMTT(30)
  <2> QED BY <2>2, <1>1, LimitsAreNumbers, SMTT(30) DEF FrameFits, ConnInv, MinFrameSize
<1> QED BY <1>1, <1>2, <1>3, <1>4, Zenon DEF FInv

\* SearchKeeps: an iteration of the search keeps both its sides.
LEMMA SearchKeeps == FInv /\ Search => WriteInv'
<1> SUFFICES ASSUME FInv, Search PROVE WriteInv'
  BY Zenon
<1> DEFINE middle == low + (high - low + 1) \div 2
<1>1. /\ low \in Nat /\ high \in Nat /\ id \in Nat /\ left \in Nat
      /\ low < high /\ high <= limits.max_frame_size /\ stage = "search"
      /\ limits.max_frame_size \in Nat
  BY LimitsAreNumbers, Zenon DEF FInv, WriteInv, SearchInv, Search
<1>2. middle \in Nat /\ low < middle /\ middle <= high
  BY <1>1, SMTT(30)
<1>3. UNCHANGED <<limits, id, left, stage>>
  BY Zenon DEF Search, conn
<1>4. \/ Fits(id, middle) /\ low' = middle /\ high' = high
      \/ ~Fits(id, middle) /\ high' = middle - 1 /\ low' = low
  BY Zenon DEF Search, Fits
<1> HIDE DEF middle
<1>5. SearchInv'
  <2>1. CASE Fits(id, middle) /\ low' = middle /\ high' = high
    BY <2>1, <1>1, <1>2, <1>3, Zenon DEF FInv, WriteInv, SearchInv, Fits
  <2>2. CASE ~Fits(id, middle) /\ high' = middle - 1 /\ low' = low
    <3>1. ASSUME NEW n \in Nat, n > middle - 1 PROVE ~Fits(id, n)
      <4>1. StreamLen(id, middle) <= StreamLen(id, n)
        BY <3>1, <1>2, StreamLenMonotone, SMTT(30)
      <4>2. StreamLen(id, middle) \in Nat /\ StreamLen(id, n) \in Nat
        BY <1>2, EncodedLenType, SMTT(30) DEF StreamLen
      <4> QED BY <4>1, <4>2, <2>2, <1>1, SMTT(30) DEF Fits
    <3> QED BY <3>1, <2>2, <1>1, <1>2, <1>3, SMTT(30) DEF FInv, WriteInv, SearchInv, Fits
  <2> QED BY <2>1, <2>2, <1>4, Zenon
<1>6. low' \in Nat /\ high' \in Nat
  BY <1>1, <1>2, <1>4, SMTT(30)
<1> QED BY <1>1, <1>3, <1>5, <1>6, Zenon DEF WriteInv

\* WriteKeeps: no other step of a write disturbs what is known of its chunk.
LEMMA WriteKeeps ==
  ASSUME FInv,
         \/ \E i \in Ids : StartSearch(i)
         \/ \E n \in 1..limits.max_frame_size : CutChunk(n)
         \/ QueueChunk
         \/ \E fin \in BOOLEAN : NextData(fin)
  PROVE  WriteInv'
<1>1. /\ limits.max_frame_size \in Nat /\ limits.max_frame_size >= 25
      /\ limits.max_frame_size <= U32 /\ U32 \in Int
      /\ limits.max_outbound_stream_bytes \in Nat
      /\ limits.max_outbound_stream_bytes >= 1
  BY LimitsAreNumbers, QuarterType, Zenon DEF FInv
<1>2. /\ id \in Nat /\ low \in Nat /\ high \in Nat /\ left \in Nat
  BY Zenon DEF FInv, WriteInv
<1>3. ASSUME NEW i \in Ids, StartSearch(i) PROVE WriteInv'
  <2>1. i \in Nat /\ id' = i /\ low' = 0 /\ high' = limits.max_frame_size
    BY <1>1, <1>3, FramingAssumption, SMTT(30) DEF StartSearch, Smaller
  <2>2. StreamLen(i, 0) <= 25 /\ StreamLen(i, 0) \in Nat
    <3>1. EncodedLen(0) <= 8 /\ EncodedLen(i) <= 8
      BY EncodedLenType, SMTT(30)
    <3> QED BY <3>1, EncodedLenType, SMTT(30) DEF StreamLen
  <2>3. limits' = limits /\ left' = left /\ stage' = "search"
    BY <1>3, Zenon DEF StartSearch, conn
  <2> QED BY <1>1, <1>2, <2>1, <2>2, <2>3, SMTT(30) DEF WriteInv, SearchInv, Fits
<1>4. ASSUME NEW n \in 1..limits.max_frame_size, CutChunk(n) PROVE WriteInv'
  <2>1. stage = "search" /\ low = high /\ Fits(id, low) /\ limits' = limits
        /\ id' = id /\ low' = 0 /\ high' = 0
    BY <1>4, Zenon DEF CutChunk, FInv, WriteInv, SearchInv, conn
  <2>2. low >= 1
    <3>2. StreamLen(id, 1) <= 25
      <4>1. EncodedLen(1) <= 8 /\ EncodedLen(id) <= 8
        BY EncodedLenType, SMTT(30)
      <4> QED BY <4>1, EncodedLenType, SMTT(30) DEF StreamLen
    <3>3. StreamLen(id, 1) \in Nat
      BY EncodedLenType, SMTT(30) DEF StreamLen
    <3>4. Fits(id, 1)
      BY <1>1, <3>2, <3>3, SMTT(30) DEF Fits
    <3> QED BY <3>4, <2>1, <1>1, <1>2, SMTT(30) DEF FInv, WriteInv, SearchInv
  <2> DEFINE m == Smaller(low, limits.max_outbound_stream_bytes)
  <2>4. m \in Nat /\ m >= 1 /\ m <= low /\ m <= limits.max_outbound_stream_bytes
    BY <1>1, <1>2, <2>2, SMTT(30) DEF Smaller
  <2>5. stage' = "found" /\ left' = n /\ n \in {1, m}
    BY <1>4, <2>4, SMTT(30) DEF CutChunk
  <2> HIDE DEF m
  <2>6. n \in Nat /\ n >= 1 /\ n <= low /\ n <= limits.max_outbound_stream_bytes
    BY <2>4, <2>5, <1>1, <1>2, SMTT(30)
  <2>7. Fits(id, n)
    <3>1. StreamLen(id, n) <= StreamLen(id, low)
      BY <2>6, <1>2, StreamLenMonotone, Zenon
    <3>2. StreamLen(id, n) \in Nat /\ StreamLen(id, low) \in Nat
      BY <2>6, <1>2, EncodedLenType, SMTT(30) DEF StreamLen
    <3> QED BY <3>1, <3>2, <2>1, <1>1, SMTT(30) DEF Fits
  <2> QED BY <2>1, <2>5, <2>6, <2>7, <1>2, Zenon DEF WriteInv, SearchInv, Fits
<1>5. ASSUME QueueChunk PROVE WriteInv'
  <2>1. /\ stage = "found" /\ left >= 1 /\ Fits(id, left)
        /\ left <= limits.max_outbound_stream_bytes
    BY <1>5, Zenon DEF QueueChunk, FInv, WriteInv
  <2>2. stage' = "queued" /\ UNCHANGED <<limits, id, low, high, left>>
    BY <1>5, <2>1, Zenon DEF QueueChunk, Fits, conn
  <2> QED BY <1>2, <2>1, <2>2, Zenon DEF WriteInv, SearchInv, Fits
<1>6. ASSUME NEW fin \in BOOLEAN, NextData(fin) PROVE WriteInv'
  <2> DEFINE count == Smaller(left, Room(id))
  <2>1. Room(id) \in Nat /\ Room(id) >= 1
    BY <1>2, RoomBounds, Zenon DEF FInv
  <2>2. stage = "queued" /\ left >= 1 /\ Fits(id, left)
    BY <1>6, Zenon DEF NextData, FInv, WriteInv
  <2>3. count \in Nat /\ count >= 1 /\ count <= left
    BY <2>1, <2>2, <1>2, SMTT(30) DEF Smaller
  <2>4. /\ left' = left - count
        /\ stage' = IF count = left THEN "idle" ELSE "queued"
        /\ UNCHANGED <<limits, id, low, high>>
    BY <1>6, Zenon DEF NextData, conn
  <2> HIDE DEF count
  <2>5. left' \in Nat /\ left' <= left /\ (stage' = "queued" => left' >= 1)
    BY <2>3, <2>4, <1>2, SMTT(30)
  <2>6. Fits(id, left')
    <3>1. StreamLen(id, left') <= StreamLen(id, left)
      BY <2>5, <1>2, StreamLenMonotone, Zenon
    <3>2. StreamLen(id, left') \in Nat /\ StreamLen(id, left) \in Nat
      BY <2>5, <1>2, EncodedLenType, SMTT(30) DEF StreamLen
    <3> QED BY <3>1, <3>2, <2>2, <1>1, SMTT(30) DEF Fits
  <2>7. stage' \in {"idle", "queued"}
    BY <2>4, Zenon
  <2> QED BY <1>2, <2>4, <2>5, <2>6, <2>7, Zenon DEF WriteInv, SearchInv, Fits
<1> QED BY <1>3, <1>4, <1>5, <1>6, Zenon

\* ConnKeeps: the peer's limit is learnt once and is never below the minimum.
LEMMA ConnKeeps == FInv /\ [FramingNext]_framingVars => ConnInv'
<1> SUFFICES ASSUME FInv, [FramingNext]_framingVars PROVE ConnInv'
  BY Zenon
<1>1. CASE RecvSettings
  <2>1. limits' = limits /\ peer' = peer
    BY <1>1, Zenon DEF RecvSettings
  <2>2. limits' \in LimitChoices /\ Valid(limits')
    BY <2>1, Zenon DEF FInv, ConnInv
  <2>3. CASE peer \in MinFrameSize..U32
    <3>1. settings' = TRUE /\ peerMax' = peer
      BY <1>1, <2>3, Zenon DEF RecvSettings
    <3> QED BY <2>1, <2>2, <2>3, <3>1, SMTT(30) DEF FInv, ConnInv, MinFrameSize
  <2>4. CASE peer \notin MinFrameSize..U32
    <3>1. settings' = settings /\ peerMax' = peerMax
      BY <1>1, <2>4, Zenon DEF RecvSettings
    <3> QED BY <2>1, <2>2, <3>1, Zenon DEF FInv, ConnInv
  <2> QED BY <2>3, <2>4, Zenon
<1>2. CASE UNCHANGED conn
  BY <1>2, Zenon DEF FInv, ConnInv, conn
<1>3. ASSUME FramingNext PROVE RecvSettings \/ UNCHANGED conn
  BY <1>3, Zenon DEF FramingNext, StartSearch, Search, CutChunk, QueueChunk, NextData,
     NextControl, Sent, InitiateCloseWith, TakeClose, Trim, TakenClose
<1> QED BY <1>1, <1>2, <1>3, Zenon DEF framingVars

\* SetCloseKeeps: fit_close_reason leaves a reason that fits the own limit.
LEMMA SetCloseKeeps ==
  ASSUME FInv, NEW c \in {0, 1}, NEW r \in Reasons, SetClose(c, r), limits' = limits
  PROVE  CloseInv'
<1>1. IsReason(r) /\ IsReason(Empty) /\ IsReason(Fallback)
  BY FramingAssumption, SMTT(30) DEF IsReason, Empty, Fallback
<1>2. CloseLen(c, Empty.size) <= limits.max_frame_size
  <2>1. EncodedLen(c) <= 8 /\ EncodedLen(0) <= 8
    BY EncodedLenType, SMTT(30)
  <2>2. CloseLen(c, 0) <= 25 /\ CloseLen(c, 0) \in Nat
    BY <2>1, EncodedLenType, SMTT(30) DEF CloseLen
  <2> QED BY <2>2, LimitsAreNumbers, SMTT(30) DEF FInv, Empty
<1>3. IsReason(reason') /\ CloseLen(c, reason'.size) <= limits.max_frame_size
  BY <1>1, <1>2, Zenon DEF SetClose, ReasonFits
<1>4. code' = c /\ close' = "set" /\ end' = end
  BY Zenon DEF SetClose
<1> QED BY <1>3, <1>4, SMTT(30) DEF CloseInv, FInv

\* CloseKeeps: the reason is cut to the room its header leaves.
LEMMA CloseKeeps == FInv /\ [FramingNext]_framingVars => CloseInv'
<1> SUFFICES ASSUME FInv, [FramingNext]_framingVars PROVE CloseInv'
  BY Zenon
<1> USE DEF CloseInv
<1>1. CASE RecvSettings
  <2>1. CASE UNCHANGED closing
    <3>1. peerMax' \in Nat /\ peerMax' >= peerMax
      BY <1>1, SMTT(30) DEF RecvSettings, FInv, ConnInv, MinFrameSize, SetClose, closing
    <3>2. limits' = limits
      BY <1>1, Zenon DEF RecvSettings
    <3>3. peerMax \in Nat /\ EncodedLen(code) \in {1, 2, 4, 8}
      BY EncodedLenType, Zenon DEF FInv, ConnInv
    <3> QED BY <2>1, <3>1, <3>2, <3>3, SMTT(30) DEF FInv, closing
  <2>2. CASE \E r \in Reasons : SetClose(1, r)
    BY <1>1, <2>2, SetCloseKeeps, Zenon DEF RecvSettings
  <2> QED BY <1>1, <2>1, <2>2, Zenon DEF RecvSettings
<1>2. ASSUME NEW c \in {0, 1}, NEW r \in Reasons, InitiateCloseWith(c, r)
      PROVE  CloseInv'
  BY <1>2, SetCloseKeeps, Zenon DEF InitiateCloseWith, conn
<1>3. CASE TakeClose
  <2>1. peerMax - (1 + EncodedLen(code) + 8) \in Nat
    BY EncodedLenType, SMTT(30) DEF FInv, ConnInv, MinFrameSize
  <2>2. reason.size \in Nat
    BY Zenon DEF FInv, IsReason
  <2>3. /\ end' \in Nat /\ end' <= reason.size
        /\ end' <= peerMax - (1 + EncodedLen(code) + 8)
    BY <1>3, <2>1, <2>2, SMTT(30) DEF TakeClose, Smaller
  <2> QED BY <1>3, <2>3, Zenon DEF TakeClose, FInv, conn
<1>4. CASE Trim
  <2>1. 0 \in reason.cuts /\ reason.size \in Nat /\ end \in Nat /\ end # 0
    BY <1>4, Zenon DEF FInv, IsReason, Trim
  <2>2. peerMax - (1 + EncodedLen(code) + 8) \in Int
    BY EncodedLenType, SMTT(30) DEF FInv, ConnInv
  <2>3. /\ close = "trim" /\ end' = end - 1
        /\ UNCHANGED <<limits, peerMax, close, code, reason>>
    BY <1>4, Zenon DEF Trim, conn
  <2> QED BY <2>1, <2>2, <2>3, SMTT(30) DEF FInv
<1>5. CASE TakenClose
  BY <1>5, Zenon DEF TakenClose, FInv, conn
<1>6. CASE UNCHANGED <<closing, limits, peerMax>>
  BY <1>6, Zenon DEF FInv, closing
<1>7. ASSUME FramingNext
      PROVE  \/ RecvSettings \/ TakeClose \/ Trim \/ TakenClose
             \/ \E c \in {0, 1}, r \in Reasons : InitiateCloseWith(c, r)
             \/ UNCHANGED <<closing, limits, peerMax>>
  BY <1>7, Zenon DEF FramingNext, StartSearch, Search, CutChunk, QueueChunk, NextData,
     NextControl, Sent, conn
<1> QED BY <1>1, <1>2, <1>3, <1>4, <1>5, <1>6, <1>7, Zenon DEF framingVars, conn

\* ControlLen: every control frame but SETTINGS and CLOSE has 17 bytes at most.
LEMMA ControlLen ==
  ASSUME NEW f \in ControlFrames
  PROVE  FrameLen(f) \in Nat /\ FrameLen(f) <= 17
<1>1. CASE f \in [type : {"open", "stop"}, id : Ids]
  <2>1. FrameLen(f) = 1 + EncodedLen(f.id)
    BY <1>1, Zenon DEF FrameLen
  <2> QED BY <2>1, EncodedLenType, SMTT(30)
<1>2. CASE f \in [type : {"reset"}, id : Ids, code : Numbers]
  <2>1. FrameLen(f) = 1 + EncodedLen(f.id) + EncodedLen(f.code)
    BY <1>2, Zenon DEF FrameLen
  <2> QED BY <2>1, EncodedLenType, SMTT(30)
<1>3. CASE f \in [type : {"max_data"}, maximum : Numbers]
  <2>1. FrameLen(f) = 1 + EncodedLen(f.maximum)
    BY <1>3, Zenon DEF FrameLen
  <2> QED BY <2>1, EncodedLenType, SMTT(30)
<1>4. CASE f \in [type : {"max_stream_data"}, id : Ids, maximum : Numbers]
  <2>1. FrameLen(f) = 1 + EncodedLen(f.id) + EncodedLen(f.maximum)
    BY <1>4, Zenon DEF FrameLen
  <2> QED BY <2>1, EncodedLenType, SMTT(30)
<1>5. CASE f = [type |-> "ping"]
  BY <1>5, SMTT(30) DEF FrameLen
<1> QED BY <1>1, <1>2, <1>3, <1>4, <1>5, Zenon DEF ControlFrames

\* FrameKeeps: every action that hands a frame to the transport keeps to both
\* limits.
LEMMA FrameKeeps == FInv /\ [FramingNext]_framingVars => FrameFits'
<1> SUFFICES ASSUME FInv, [FramingNext]_framingVars PROVE FrameFits'
  BY Zenon
<1>0. /\ limits.max_frame_size \in Nat /\ limits.max_frame_size >= 25
      /\ peer \in Nat /\ peerMax \in Nat /\ peerMax >= 25
      /\ (peer >= 25 => peerMax <= peer)
  BY LimitsAreNumbers, Zenon DEF FInv, ConnInv, MinFrameSize
<1>1. ASSUME NEW fin \in BOOLEAN, NextData(fin) PROVE FrameFits'
  <2> DEFINE count == Smaller(left, Room(id))
  <2>1. /\ Room(id) \in Nat
        /\ \A n \in Nat : n <= Room(id) => StreamLen(id, n) <= peerMax
    BY RoomBounds, Zenon DEF FInv, WriteInv
  <2>2. left \in Nat /\ Fits(id, left) /\ id \in Nat
    BY <1>1, Zenon DEF NextData, FInv, WriteInv
  <2>3. count \in Nat /\ count <= left /\ count <= Room(id)
    BY <2>1, <2>2, SMTT(30) DEF Smaller
  <2>4. FrameLen(frame') = StreamLen(id, count)
    BY <1>1, Zenon DEF NextData, FrameLen
  <2> HIDE DEF count
  <2>5. StreamLen(id, count) <= StreamLen(id, left)
    BY <2>2, <2>3, StreamLenMonotone, Zenon
  <2>6. StreamLen(id, count) \in Nat /\ StreamLen(id, left) \in Nat
    BY <2>2, <2>3, EncodedLenType, SMTT(30) DEF StreamLen
  <2>7. limits' = limits /\ peer' = peer
    BY <1>1, Zenon DEF NextData, conn
  <2> QED BY <1>0, <2>1, <2>2, <2>3, <2>4, <2>5, <2>6, <2>7, SMTT(30)
          DEF FrameFits, Fits, MinFrameSize
<1>2. ASSUME NEW f \in ControlFrames, NextControl(f) PROVE FrameFits'
  <2>1. frame' = f /\ limits' = limits /\ peer' = peer
    BY <1>2, Zenon DEF NextControl, conn
  <2> QED BY <1>0, <2>1, ControlLen, SMTT(30) DEF FrameFits, MinFrameSize
<1>3. CASE Sent
  <2>1. FrameLen(frame') = 0
    BY <1>3, Zenon DEF Sent, NoFrame, FrameLen
  <2>2. limits' = limits /\ peer' = peer
    BY <1>3, ZenonT(40) DEF Sent, conn
  <2> QED BY <1>0, <2>1, <2>2, SMTT(30) DEF FrameFits, MinFrameSize
<1>4. CASE TakenClose
  <2>1. /\ limits' = limits /\ peer' = peer
        /\ frame' = [type |-> "close", code |-> code,
                     reason |-> [size |-> end, cuts |-> reason.cuts \cap 0..end]]
    BY <1>4, Zenon DEF TakenClose, conn
  <2>2. FrameLen(frame') = 1 + EncodedLen(code) + EncodedLen(end) + end
    BY <2>1, Zenon DEF FrameLen, CloseLen
  <2>3. /\ end \in Nat /\ reason.size \in Nat /\ end <= reason.size
        /\ end <= peerMax - (1 + EncodedLen(code) + 8)
        /\ CloseLen(code, reason.size) <= limits.max_frame_size
    BY <1>4, Zenon DEF TakenClose, FInv, CloseInv, IsReason
  <2>4. EncodedLen(end) <= EncodedLen(reason.size)
    BY <2>3, EncodedLenMonotone, Zenon
  <2>5. /\ EncodedLen(end) \in {1, 2, 4, 8} /\ EncodedLen(code) \in {1, 2, 4, 8}
        /\ EncodedLen(reason.size) \in {1, 2, 4, 8}
    BY EncodedLenType, Zenon
  <2> QED BY <1>0, <2>1, <2>2, <2>3, <2>4, <2>5, SMTT(30)
          DEF FrameFits, CloseLen, MinFrameSize
<1>5. CASE UNCHANGED <<frame, limits, peer>>
  BY <1>5, Zenon DEF FInv, FrameFits
<1>6. ASSUME FramingNext
      PROVE  \/ \E fin \in BOOLEAN : NextData(fin)
             \/ \E f \in ControlFrames : NextControl(f)
             \/ Sent \/ TakenClose \/ UNCHANGED <<frame, limits, peer>>
  BY <1>6, Zenon DEF FramingNext, RecvSettings, StartSearch, Search, CutChunk, QueueChunk,
     InitiateCloseWith, TakeClose, Trim, conn
<1> QED BY <1>1, <1>2, <1>3, <1>4, <1>5, <1>6, Zenon DEF framingVars, conn

\* FInvNext: every step keeps the invariant.
LEMMA FInvNext == FInv /\ [FramingNext]_framingVars => FInv'
<1> SUFFICES ASSUME FInv, [FramingNext]_framingVars PROVE WriteInv'
  BY ConnKeeps, CloseKeeps, FrameKeeps, Zenon DEF FInv
<1>1. CASE UNCHANGED <<write, limits>>
  BY <1>1, Zenon DEF FInv, WriteInv, SearchInv, Fits, write
<1>2. ASSUME FramingNext
      PROVE  \/ \E i \in Ids : StartSearch(i)
             \/ Search
             \/ \E n \in 1..limits.max_frame_size : CutChunk(n)
             \/ QueueChunk
             \/ \E fin \in BOOLEAN : NextData(fin)
             \/ UNCHANGED <<write, limits>>
  BY <1>2, Zenon DEF FramingNext, RecvSettings, NextControl, Sent, InitiateCloseWith,
     TakeClose,
     Trim, TakenClose, conn
<1> QED BY <1>1, <1>2, SearchKeeps, WriteKeeps, Zenon DEF framingVars, conn

\* FramingInvariant: the invariant holds in every behaviour.
THEOREM FramingInvariant == FramingSpec => []FInv
BY FInvInit, FInvNext, PTL DEF FramingSpec

-----------------------------------------------------------------------------
(* What follows from it. *)

\* FramesFit: no frame the writer task hands to the transport exceeds the own or
\* the peer's maximum frame size.
THEOREM FramesFit == FramingSpec => []FrameFits
<1>1. FInv => FrameFits
  BY Zenon DEF FInv
<1> QED BY <1>1, FramingInvariant, PTL

\* SearchIsExact: max_stream_payload returns the largest payload that fits.
THEOREM SearchIsExact == FramingSpec => []LargestPayload
<1>1. FInv => LargestPayload
  <2> SUFFICES ASSUME FInv, stage = "search", low = high,
                      NEW n \in 0..limits.max_frame_size
               PROVE  n <= low <=> StreamLen(id, n) <= limits.max_frame_size
    BY Zenon DEF LargestPayload
  <2>1. limits.max_frame_size \in Nat /\ low \in Nat /\ n \in Nat
        /\ n <= limits.max_frame_size
    BY LimitsAreNumbers, SMTT(30) DEF FInv, WriteInv
  <2>2. ASSUME n <= low PROVE StreamLen(id, n) <= limits.max_frame_size
    <3>1. StreamLen(id, n) <= StreamLen(id, low)
      BY <2>1, <2>2, StreamLenMonotone, Zenon
    <3>2. StreamLen(id, n) \in Int /\ StreamLen(id, low) \in Int
      BY <2>1, EncodedLenType, SMTT(30) DEF StreamLen
    <3> QED BY <3>1, <3>2, <2>1, SMTT(30) DEF FInv, WriteInv, SearchInv, Fits
  <2>3. ASSUME n > low PROVE ~(StreamLen(id, n) <= limits.max_frame_size)
    BY <2>1, <2>3, SMTT(30) DEF FInv, WriteInv, SearchInv, Fits
  <2> QED BY <2>1, <2>2, <2>3, SMTT(30)
<1> QED BY <1>1, FramingInvariant, PTL

\* RoomIsPositive: the subtractions of next_frame never wrap, whatever frame
\* size the peer announced, and every frame of a chunk makes progress.
THEOREM RoomIsPositive == FramingSpec => []RoomForData
<1>1. FInv => RoomForData
  BY RoomBounds, FramingAssumption, Zenon DEF FInv, RoomForData
<1> QED BY <1>1, FramingInvariant, PTL

\* CutChunksAreQueued: queue_stream_chunk accepts the size of every chunk that
\* poll_write has reported as written.
THEOREM CutChunksAreQueued == FramingSpec => []WritesAreAccepted
<1>1. FInv => WritesAreAccepted
  BY ZenonT(40) DEF FInv, WriteInv, WritesAreAccepted
<1> QED BY <1>1, FramingInvariant, PTL

-----------------------------------------------------------------------------
(* Shutdown, for any sets of streams, any queue capacity and any mixture of the
   optional operations: the cleanup has one owner, nothing is queued behind a
   decided end, open_bi publishes nothing behind the cleanup, and the types.

   SInv adds what the three rest on: a task is inside the cleanup only after
   cleanup_started was set, which comes with closed, and so does closing of the
   queues; the stream on_remote_open is about to insert is the peer's. *)

Cleaning == {"shutdown", "take", "tell"}

StateInv ==
  /\ pc \in [Tasks -> Labels]
  /\ pc["reader"] = "insert" => opening \in Remote

OrderInv ==
  /\ \A t \in Tasks : pc[t] \in Cleaning => cleanup
  /\ swept => cleanup
  /\ cleanup => closed
  /\ q.closing => closed

SInv == StateInv /\ OrderInv /\ CleanedOnce /\ NothingLeftQueued /\ OpenedBeforeSweep

-----------------------------------------------------------------------------
\* SInvInit: a new connection is open and its tasks are outside mark_closed.
LEMMA SInvInit == Init => SInv
BY SMTT(30) DEF Init, SInv, StateInv, OrderInv, CleanedOnce, NothingLeftQueued,
   OpenedBeforeSweep, Labels, Tasks, Group, Cleaning

\* StateKeeps: every task stays at a place of its code.
LEMMA StateKeeps == StateInv /\ [Next]_vars => StateInv'
<1> SUFFICES ASSUME StateInv, [Next]_vars PROVE StateInv'
  BY Zenon
<1> USE DEF StateInv, Labels, Tasks, Group, Goto, Call
<1>1. ASSUME NEW t \in Tasks, MarkStep(t) PROVE StateInv'
  <2>1. Return(t) \in {"clear", "loop", "exit"}
    BY ZenonT(40) DEF Return
  <2> QED
    BY <1>1, <2>1, SMTT(30) DEF MarkStep, MarkFlags, MarkShutdown, MarkTake, MarkTell,
       registry
<1>2. CASE ReaderStop \/ PeerCloses \/ ReaderError \/ PeerStops
  BY <1>2, SMTT(30) DEF ReaderStop, PeerCloses, ReaderError, PeerStops, registry
<1>3. CASE ReaderFail
  BY <1>3, ZenonT(40) DEF ReaderFail, registry
<1>4. ASSUME NEW s \in Remote, PeerOpens(s) PROVE StateInv'
  BY <1>4, SMTT(30) DEF PeerOpens
<1>5. CASE ReaderInsert \/ ReaderPush
  BY <1>5, SMTT(30) DEF ReaderInsert, ReaderPush
<1>6. CASE WriterTakeClose \/ WriterTakeControl \/ WriterTakeData \/ WriterSent
  BY <1>6, SMTT(30) DEF WriterTakeClose, WriterTakeControl, WriterTakeData, WriterSent,
     registry
<1>7. CASE WriterBreak \/ WriterSinkClosed
  BY <1>7, SMTT(30) DEF WriterBreak, WriterSinkClosed, registry
<1>8. CASE KeepaliveStop \/ KeepaliveTick \/ CleanupStop \/ DropRecv
  BY <1>8, SMTT(30) DEF KeepaliveStop, KeepaliveTick, CleanupStop, DropRecv, registry
<1>9. CASE DeadlineStart \/ DeadlineExpires \/ SupervisorJoined \/ SupervisorClear
  BY <1>9, SMTT(30) DEF DeadlineStart, DeadlineExpires, SupervisorJoined, SupervisorClear,
     registry
<1>10. CASE CloseCall \/ AbortCall \/ DropHandles
  BY <1>10, ZenonT(40) DEF CloseCall, AbortCall, DropHandles, registry
<1>11. ASSUME NEW s \in Local, OpenBi(s) PROVE StateInv'
  BY <1>11, SMTT(30) DEF OpenBi
<1>12. CASE CancelOpen \/ Write \/ AcceptBi
  <2>1. CASE Write
    BY <2>1, Zenon DEF Write, registry
  <2>2. CASE CancelOpen \/ AcceptBi
    BY <2>2, SMTT(30) DEF CancelOpen, AcceptBi, registry
  <2> QED BY <1>12, <2>1, <2>2, Zenon
<1>13. CASE UNCHANGED vars
  BY <1>13, Zenon DEF vars, registry
<1> QED
  BY <1>1, <1>2, <1>3, <1>4, <1>5, <1>6, <1>7, <1>8, <1>9, <1>10, <1>11, <1>12,
     <1>13, ZenonT(40)
  DEF Next, Step, Environment

\* OrderKeeps: cleanup_started comes before the cleanup and with closed, and the
\* queues are closed only on a closed connection.
LEMMA OrderKeeps == SInv /\ [Next]_vars => OrderInv'
<1> SUFFICES ASSUME SInv, [Next]_vars PROVE OrderInv'
  BY Zenon
<1> USE DEF SInv, StateInv, OrderInv, Cleaning, Tasks, Group, Goto, Call
<1>1. ASSUME NEW t \in Tasks, MarkFlags(t) PROVE OrderInv'
  BY <1>1, Zenon DEF MarkFlags, Return, registry
<1>2. ASSUME NEW t \in Tasks, MarkShutdown(t) PROVE OrderInv'
  BY <1>2, Zenon DEF MarkShutdown, Emptied, flags, registry
<1>3. ASSUME NEW t \in Tasks, MarkTake(t) PROVE OrderInv'
  BY <1>3, Zenon DEF MarkTake, flags
<1>4. ASSUME NEW t \in Tasks, MarkTell(t) PROVE OrderInv'
  BY <1>4, ZenonT(40) DEF MarkTell, Return, flags
<1>5. CASE ReaderStop \/ PeerCloses \/ ReaderError \/ PeerStops
  BY <1>5, SMTT(30) DEF ReaderStop, PeerCloses, ReaderError, PeerStops, WithControl,
     Reading,
     flags, registry
<1>6. CASE ReaderFail
  BY <1>6, Zenon DEF ReaderFail, InitiateClose, Emptied, registry
<1>7. ASSUME NEW s \in Remote, PeerOpens(s) PROVE OrderInv'
  BY <1>7, ZenonT(40) DEF PeerOpens, Reading, flags
<1>8. CASE ReaderInsert \/ ReaderPush
  BY <1>8, StreamAssumption, SMTT(30) DEF ReaderInsert, ReaderPush, flags
<1>9. CASE WriterTakeClose
  BY <1>9, ZenonT(40) DEF WriterTakeClose, flags, registry
<1>10. CASE WriterTakeControl \/ WriterTakeData \/ WriterSent
  BY <1>10, SMTT(30) DEF WriterTakeControl, WriterTakeData, WriterSent, WithControl,
     WithData, flags, registry
<1>11. CASE WriterBreak \/ WriterSinkClosed
  BY <1>11, SMTT(30) DEF WriterBreak, WriterSinkClosed, flags, registry
<1>12. CASE KeepaliveStop \/ KeepaliveTick \/ CleanupStop \/ DropRecv
  BY <1>12, SMTT(30) DEF KeepaliveStop, KeepaliveTick, CleanupStop, DropRecv, WithControl,
     flags, registry
<1>13. CASE DeadlineStart \/ DeadlineExpires
  BY <1>13, SMTT(30) DEF DeadlineStart, DeadlineExpires, InitiateClose, Emptied, flags,
     registry
<1>14. CASE SupervisorJoined \/ SupervisorClear
  BY <1>14, SMTT(30) DEF SupervisorJoined, SupervisorClear, flags, registry
<1>15. CASE CloseCall \/ AbortCall \/ DropHandles
  BY <1>15, SMTT(30) DEF CloseCall, AbortCall, DropHandles, InitiateClose, Emptied,
     flags, registry
<1>16. ASSUME NEW s \in Local, OpenBi(s) PROVE OrderInv'
  BY <1>16, SMTT(30) DEF OpenBi, WithControl, flags
<1>17. CASE CancelOpen \/ Write \/ AcceptBi
  <2>1. CASE Write
    BY <2>1, SMTT(30) DEF Write, WithData, flags, registry
  <2>2. CASE CancelOpen \/ AcceptBi
    BY <2>2, SMTT(30) DEF CancelOpen, AcceptBi, flags, registry
  <2> QED BY <1>17, <2>1, <2>2, Zenon
<1>18. CASE UNCHANGED vars
  BY <1>18, Zenon DEF vars, flags, registry
<1> QED
  BY <1>1, <1>2, <1>3, <1>4, <1>5, <1>6, <1>7, <1>8, <1>9, <1>10, <1>11, <1>12,
     <1>13, <1>14, <1>15, <1>16, <1>17, <1>18, ZenonT(40)
  DEF Next, Step, Environment, MarkStep

\* OwnerKeeps: only the task that finds cleanup_started unset enters the cleanup.
LEMMA OwnerKeeps == SInv /\ [Next]_vars => CleanedOnce'
<1> SUFFICES ASSUME SInv, [Next]_vars PROVE CleanedOnce'
  BY Zenon
<1> USE DEF SInv, StateInv, OrderInv, CleanedOnce, Cleaning, Tasks, Group, Goto, Call
<1>1. ASSUME NEW t \in Tasks, MarkFlags(t) PROVE CleanedOnce'
  BY <1>1, SMTT(30) DEF MarkFlags, Return, registry
<1>2. ASSUME NEW t \in Tasks, MarkShutdown(t) PROVE CleanedOnce'
  BY <1>2, SMTT(30) DEF MarkShutdown, flags, registry
<1>3. ASSUME NEW t \in Tasks, MarkTake(t) PROVE CleanedOnce'
  BY <1>3, SMTT(30) DEF MarkTake, flags
<1>4. ASSUME NEW t \in Tasks, MarkTell(t) PROVE CleanedOnce'
  BY <1>4, ZenonT(40) DEF MarkTell, Return, flags
<1>5. CASE ReaderStop \/ PeerCloses \/ ReaderError \/ PeerStops
  BY <1>5, SMTT(30) DEF ReaderStop, PeerCloses, ReaderError, PeerStops, Reading,
     flags, registry
<1>6. CASE ReaderFail
  BY <1>6, SMTT(30) DEF ReaderFail, registry
<1>7. ASSUME NEW s \in Remote, PeerOpens(s) PROVE CleanedOnce'
  BY <1>7, SMTT(30) DEF PeerOpens, Reading, flags
<1>8. CASE ReaderInsert \/ ReaderPush
  BY <1>8, StreamAssumption, SMTT(30) DEF ReaderInsert, ReaderPush, flags
<1>9. CASE WriterTakeClose
  BY <1>9, SMTT(30) DEF WriterTakeClose, flags, registry
<1>10. CASE WriterTakeControl \/ WriterTakeData \/ WriterSent
  BY <1>10, SMTT(30) DEF WriterTakeControl, WriterTakeData, WriterSent, flags, registry
<1>11. CASE WriterBreak \/ WriterSinkClosed
  BY <1>11, SMTT(30) DEF WriterBreak, WriterSinkClosed, flags, registry
<1>12. CASE KeepaliveStop \/ KeepaliveTick \/ CleanupStop \/ DropRecv
  BY <1>12, SMTT(30) DEF KeepaliveStop, KeepaliveTick, CleanupStop, DropRecv,
     flags, registry
<1>13. CASE DeadlineStart \/ DeadlineExpires
  BY <1>13, SMTT(30) DEF DeadlineStart, DeadlineExpires, flags, registry
<1>14. CASE SupervisorJoined \/ SupervisorClear
  BY <1>14, SMTT(30) DEF SupervisorJoined, SupervisorClear, flags, registry
<1>15. CASE CloseCall \/ AbortCall \/ DropHandles
  BY <1>15, SMTT(30) DEF CloseCall, AbortCall, DropHandles, flags, registry
<1>16. ASSUME NEW s \in Local, OpenBi(s) PROVE CleanedOnce'
  BY <1>16, SMTT(30) DEF OpenBi, flags
<1>17. CASE CancelOpen \/ Write \/ AcceptBi
  <2>1. CASE Write
    BY <2>1, Zenon DEF Write
  <2>2. CASE CancelOpen \/ AcceptBi
    BY <2>2, SMTT(30) DEF CancelOpen, AcceptBi, flags, registry
  <2> QED BY <1>17, <2>1, <2>2, Zenon
<1>18. CASE UNCHANGED vars
  BY <1>18, Zenon DEF vars, flags, registry
<1> QED
  BY <1>1, <1>2, <1>3, <1>4, <1>5, <1>6, <1>7, <1>8, <1>9, <1>10, <1>11, <1>12,
     <1>13, <1>14, <1>15, <1>16, <1>17, <1>18, ZenonT(40)
  DEF Next, Step, Environment, MarkStep

\* QueueKeeps: producers look at closing under the queue lock.
LEMMA QueueKeeps == SInv /\ [Next]_vars => NothingLeftQueued'
<1> SUFFICES ASSUME SInv, [Next]_vars PROVE NothingLeftQueued'
  BY Zenon
<1> USE DEF SInv, StateInv, NothingLeftQueued
<1>1. ASSUME NEW t \in Tasks, MarkFlags(t) PROVE NothingLeftQueued'
  BY <1>1, Zenon DEF MarkFlags, Return, registry
<1>2. ASSUME NEW t \in Tasks, MarkShutdown(t) PROVE NothingLeftQueued'
  BY <1>2, Zenon DEF MarkShutdown, Emptied, flags, registry
<1>3. ASSUME NEW t \in Tasks, MarkTake(t) PROVE NothingLeftQueued'
  BY <1>3, Zenon DEF MarkTake, flags
<1>4. ASSUME NEW t \in Tasks, MarkTell(t) PROVE NothingLeftQueued'
  BY <1>4, ZenonT(40) DEF MarkTell, Return, flags
<1>5. CASE ReaderStop \/ PeerCloses \/ ReaderError \/ PeerStops
  BY <1>5, SMTT(30) DEF ReaderStop, PeerCloses, ReaderError, PeerStops, WithControl,
     Reading,
     flags, registry
<1>6. CASE ReaderFail
  BY <1>6, SMTT(30) DEF ReaderFail, InitiateClose, Emptied, registry
<1>7. ASSUME NEW s \in Remote, PeerOpens(s) PROVE NothingLeftQueued'
  BY <1>7, Zenon DEF PeerOpens, Reading, flags
<1>8. CASE ReaderInsert \/ ReaderPush
  BY <1>8, StreamAssumption, Zenon DEF ReaderInsert, ReaderPush, flags
<1>9. CASE WriterTakeClose
  BY <1>9, ZenonT(40) DEF WriterTakeClose, flags, registry
<1>10. CASE WriterTakeControl \/ WriterTakeData \/ WriterSent
  BY <1>10, SMTT(30) DEF WriterTakeControl, WriterTakeData, WriterSent, WithControl,
     WithData, flags, registry
<1>11. CASE WriterBreak \/ WriterSinkClosed
  BY <1>11, ZenonT(40) DEF WriterBreak, WriterSinkClosed, flags, registry
<1>12. CASE KeepaliveStop \/ KeepaliveTick \/ CleanupStop \/ DropRecv
  <2>1. CASE KeepaliveStop \/ CleanupStop
    BY <2>1, Zenon DEF KeepaliveStop, CleanupStop
  <2>2. CASE KeepaliveTick
    BY <2>2, SMTT(30) DEF KeepaliveTick, WithControl
  <2>3. CASE DropRecv
    BY <2>3, SMTT(30) DEF DropRecv, WithControl
  <2> QED BY <1>12, <2>1, <2>2, <2>3, Zenon
<1>13. CASE DeadlineStart \/ DeadlineExpires
  BY <1>13, SMTT(30) DEF DeadlineStart, DeadlineExpires, InitiateClose, Emptied, flags,
     registry
<1>14. CASE SupervisorJoined \/ SupervisorClear
  BY <1>14, ZenonT(40) DEF SupervisorJoined, SupervisorClear, flags, registry
<1>15. CASE CloseCall \/ AbortCall \/ DropHandles
  BY <1>15, SMTT(30) DEF CloseCall, AbortCall, DropHandles, InitiateClose, Emptied,
     flags, registry
<1>16. ASSUME NEW s \in Local, OpenBi(s) PROVE NothingLeftQueued'
  BY <1>16, SMTT(30) DEF OpenBi, WithControl, flags
<1>17. CASE CancelOpen \/ Write \/ AcceptBi
  <2>1. CASE Write
    BY <2>1, SMTT(30) DEF Write, WithData
  <2>2. CASE CancelOpen \/ AcceptBi
    BY <2>2, Zenon DEF CancelOpen, AcceptBi, flags, registry
  <2> QED BY <1>17, <2>1, <2>2, Zenon
<1>18. CASE UNCHANGED vars
  BY <1>18, Zenon DEF vars, flags, registry
<1> QED
  BY <1>1, <1>2, <1>3, <1>4, <1>5, <1>6, <1>7, <1>8, <1>9, <1>10, <1>11, <1>12,
     <1>13, <1>14, <1>15, <1>16, <1>17, <1>18, ZenonT(40)
  DEF Next, Step, Environment, MarkStep

\* SweepKeeps: open_bi looks at closed under the map lock, on_remote_open inserts
\* the peer's streams only.
LEMMA SweepKeeps == SInv /\ [Next]_vars => OpenedBeforeSweep'
<1> SUFFICES ASSUME SInv, [Next]_vars PROVE OpenedBeforeSweep'
  BY Zenon
<1> USE DEF SInv, StateInv, OrderInv, OpenedBeforeSweep
<1>1. ASSUME NEW t \in Tasks, MarkFlags(t) PROVE OpenedBeforeSweep'
  BY <1>1, Zenon DEF MarkFlags, Return, registry
<1>2. ASSUME NEW t \in Tasks, MarkShutdown(t) PROVE OpenedBeforeSweep'
  BY <1>2, Zenon DEF MarkShutdown, flags, registry
<1>3. ASSUME NEW t \in Tasks, MarkTake(t) PROVE OpenedBeforeSweep'
  BY <1>3, Zenon DEF MarkTake, flags
<1>4. ASSUME NEW t \in Tasks, MarkTell(t) PROVE OpenedBeforeSweep'
  BY <1>4, Zenon DEF MarkTell, Return, flags
<1>5. CASE ReaderStop \/ PeerCloses \/ ReaderError \/ PeerStops
  BY <1>5, Zenon DEF ReaderStop, PeerCloses, ReaderError, PeerStops, Reading,
     flags, registry
<1>6. CASE ReaderFail
  BY <1>6, Zenon DEF ReaderFail, registry
<1>7. ASSUME NEW s \in Remote, PeerOpens(s) PROVE OpenedBeforeSweep'
  BY <1>7, Zenon DEF PeerOpens, Reading, flags
<1>8. CASE ReaderInsert \/ ReaderPush
  BY <1>8, StreamAssumption, Zenon DEF ReaderInsert, ReaderPush, flags
<1>9. CASE WriterTakeClose
  BY <1>9, Zenon DEF WriterTakeClose, flags, registry
<1>10. CASE WriterTakeControl \/ WriterTakeData \/ WriterSent
  BY <1>10, Zenon DEF WriterTakeControl, WriterTakeData, WriterSent, flags, registry
<1>11. CASE WriterBreak \/ WriterSinkClosed
  BY <1>11, Zenon DEF WriterBreak, WriterSinkClosed, flags, registry
<1>12. CASE KeepaliveStop \/ KeepaliveTick \/ CleanupStop \/ DropRecv
  BY <1>12, Zenon DEF KeepaliveStop, KeepaliveTick, CleanupStop, DropRecv,
     flags, registry
<1>13. CASE DeadlineStart \/ DeadlineExpires
  BY <1>13, Zenon DEF DeadlineStart, DeadlineExpires, flags, registry
<1>14. CASE SupervisorJoined \/ SupervisorClear
  BY <1>14, Zenon DEF SupervisorJoined, SupervisorClear, flags, registry
<1>15. CASE CloseCall \/ AbortCall \/ DropHandles
  BY <1>15, Zenon DEF CloseCall, AbortCall, DropHandles, flags, registry
<1>16. ASSUME NEW s \in Local, OpenBi(s) PROVE OpenedBeforeSweep'
  BY <1>16, Zenon DEF OpenBi, flags
<1>17. CASE CancelOpen \/ Write \/ AcceptBi
  BY <1>17, Zenon DEF CancelOpen, Write, AcceptBi, flags, registry
<1>18. CASE UNCHANGED vars
  BY <1>18, Zenon DEF vars, flags, registry
<1> QED
  BY <1>1, <1>2, <1>3, <1>4, <1>5, <1>6, <1>7, <1>8, <1>9, <1>10, <1>11, <1>12,
     <1>13, <1>14, <1>15, <1>16, <1>17, <1>18, ZenonT(40)
  DEF Next, Step, Environment, MarkStep

-----------------------------------------------------------------------------
\* ShutdownInvariant: SInv is an inductive invariant of the end of a connection.
THEOREM ShutdownInvariant == Spec => []SInv
<1>1. Init => SInv
  BY SInvInit, Zenon
<1>2. SInv /\ [Next]_vars => SInv'
  BY StateKeeps, OrderKeeps, OwnerKeeps, QueueKeeps, SweepKeeps, Zenon DEF SInv
<1> QED BY <1>1, <1>2, PTL DEF Spec

\* CleanupHasOneOwner: of all tasks that run mark_closed at once, dropped futures
\* included, at most one empties the queues and takes the streams.
THEOREM CleanupHasOneOwner == Spec => []CleanedOnce
<1>1. SInv => CleanedOnce
  BY Zenon DEF SInv
<1> QED BY ShutdownInvariant, <1>1, PTL

\* NothingQueuedBehindTheEnd: for every capacity, no producer that raced for the
\* queue lock leaves a frame behind an error close, a taken CLOSE or shutdown.
THEOREM NothingQueuedBehindTheEnd == Spec => []NothingLeftQueued
<1>1. SInv => NothingLeftQueued
  BY Zenon DEF SInv
<1> QED BY ShutdownInvariant, <1>1, PTL

\* NoOpenBehindTheSweep: for any number of local streams, open_bi inserts none
\* after mark_closed has taken the map.
THEOREM NoOpenBehindTheSweep == Spec => []OpenedBeforeSweep
<1>1. SInv => OpenedBeforeSweep
  BY Zenon DEF SInv
<1> QED BY ShutdownInvariant, <1>1, PTL


-----------------------------------------------------------------------------
(* The types, in four parts that are kept apart from one another. *)

\* closed, terminated and the other flags.
FlagsType ==
  {closed, terminated, cleanup, joined, admitting, swept, handles} \subseteq BOOLEAN

\* The queue as the counts and marks it can hold.
QueueValues ==
  [control : 0..MaxControl, data : BOOLEAN, close : {"none", "graceful", "error"},
   closing : BOOLEAN]

\* The queue, and the frame that the writer has taken.
QueueType ==
  /\ q \in QueueValues
  /\ hand \in {"none", "frame", "graceful", "error"}

\* The sets of streams, and the one that on_remote_open is registering.
StreamsType ==
  /\ UNION {map, incoming, handed, told, taken} \subseteq Remote \cup Local
  /\ opening \in Remote \cup {NoStream}
  /\ pc["reader"] \in {"insert", "push"} => opening \in Remote

\* The cause recorded by the first call of mark_closed.
CauseType ==
  cause \in {"none", "abort", "peer", "error", "written", "full", "deadline",
             "joined"}

\* The inductive invariant of the types.
TInv == StateInv /\ FlagsType /\ QueueType /\ StreamsType /\ CauseType

\* TInvInit: a new connection has its types.
LEMMA TInvInit == Init => TInv
<1> SUFFICES ASSUME Init PROVE TInv
  BY Zenon
<1>1. StateInv
  BY SInvInit, Zenon DEF SInv
<1>2. FlagsType
  BY ZenonT(40) DEF Init, FlagsType
<1>3. QueueType
  BY StreamAssumption, SMTT(30) DEF Init, QueueType, QueueValues
<1>4. StreamsType
  BY Zenon DEF Init, StreamsType, Tasks, Group
<1>5. CauseType
  BY Zenon DEF Init, CauseType
<1> QED BY <1>1, <1>2, <1>3, <1>4, <1>5, Zenon DEF TInv

\* FlagsKeep: every step of every task leaves the flags Boolean.
LEMMA FlagsKeep == FlagsType /\ [Next]_vars => FlagsType'
<1> SUFFICES ASSUME FlagsType, [Next]_vars PROVE FlagsType'
  BY Zenon
<1> USE DEF FlagsType, flags, registry, scope
<1>1. ASSUME NEW t \in Tasks, MarkStep(t) PROVE FlagsType'
  BY <1>1, Zenon DEF MarkStep, MarkFlags, MarkShutdown, MarkTake, MarkTell
<1>2. CASE ReaderStop \/ PeerCloses \/ ReaderError \/ PeerStops \/ ReaderFail
  BY <1>2, Zenon DEF ReaderStop, PeerCloses, ReaderError, PeerStops, ReaderFail,
     InitiateClose
<1>3. ASSUME NEW s \in Remote, PeerOpens(s) PROVE FlagsType'
  BY <1>3, Zenon DEF PeerOpens
<1>4. CASE ReaderInsert \/ ReaderPush
  BY <1>4, Zenon DEF ReaderInsert, ReaderPush
<1>5. CASE WriterTakeClose \/ WriterTakeControl \/ WriterTakeData \/ WriterSent \/ WriterBreak \/ WriterSinkClosed
  BY <1>5, Zenon DEF WriterTakeClose, WriterTakeControl, WriterTakeData, WriterSent,
     WriterBreak, WriterSinkClosed
<1>6. CASE KeepaliveStop \/ KeepaliveTick \/ CleanupStop \/ DropRecv
  BY <1>6, Zenon DEF KeepaliveStop, KeepaliveTick, CleanupStop, DropRecv
<1>7. CASE DeadlineStart \/ DeadlineExpires \/ SupervisorJoined \/ SupervisorClear
  BY <1>7, Zenon DEF DeadlineStart, DeadlineExpires, SupervisorJoined, SupervisorClear,
     InitiateClose
<1>8. CASE CloseCall \/ AbortCall \/ DropHandles
  BY <1>8, Zenon DEF CloseCall, AbortCall, DropHandles, InitiateClose
<1>9. ASSUME NEW s \in Local, OpenBi(s) PROVE FlagsType'
  BY <1>9, Zenon DEF OpenBi
<1>10. CASE CancelOpen \/ Write \/ AcceptBi \/ UNCHANGED vars
  BY <1>10, Zenon DEF CancelOpen, Write, AcceptBi, vars
<1> QED
  BY <1>1, <1>2, <1>3, <1>4, <1>5, <1>6, <1>7, <1>8, <1>9, <1>10, ZenonT(40)
  DEF Next, Step, Environment

\* QueueTypeKeeps: enqueue_control refuses a frame when the queue is full, and
\* the writer takes one only when there is one, so the count stays within the
\* capacity.
LEMMA QueueTypeKeeps == QueueType /\ [Next]_vars => QueueType'
<1> SUFFICES ASSUME QueueType, [Next]_vars PROVE QueueType'
  BY Zenon
<1>a. q.control < MaxControl => WithControl(1) \in QueueValues
  BY StreamAssumption, SMTT(30) DEF QueueType, QueueValues, WithControl
<1>b. q.control > 0 => WithControl(-1) \in QueueValues
  BY StreamAssumption, SMTT(30) DEF QueueType, QueueValues, WithControl
<1>c. ASSUME NEW c \in {"none", "error"} PROVE Emptied(c) \in QueueValues
  BY <1>c, StreamAssumption, SMTT(30) DEF QueueValues, Emptied
<1>d. ASSUME NEW k \in {0, 1}, InitiateClose(k) PROVE q' \in QueueValues
  <2>1. [control |-> q.control, data |-> q.data, close |-> "graceful",
         closing |-> TRUE] \in QueueValues
    BY SMTT(30) DEF QueueType, QueueValues
  <2> QED BY <1>c, <1>d, <2>1, Zenon DEF InitiateClose, QueueType
<1>e. ASSUME NEW d \in BOOLEAN PROVE WithData(d) \in QueueValues
  BY SMTT(30) DEF QueueType, QueueValues, WithData
<1>f. q.control < MaxControl =>
        [control |-> q.control + 1, data |-> FALSE, close |-> q.close,
         closing |-> q.closing] \in QueueValues
  BY StreamAssumption, SMTT(30) DEF QueueType, QueueValues
<1> USE DEF QueueType
<1>0. CASE UNCHANGED <<q, hand>>
  BY <1>0, Zenon
<1>1. ASSUME NEW t \in Tasks, MarkStep(t) PROVE QueueType'
  BY <1>1, <1>c, Zenon DEF MarkStep, MarkFlags, MarkShutdown, MarkTake, MarkTell
<1>2. CASE ReaderStop \/ PeerCloses \/ ReaderError
  BY <1>2, Zenon DEF ReaderStop, PeerCloses, ReaderError
<1>3. CASE PeerStops
  BY <1>3, <1>a, <1>f, Zenon DEF PeerStops
<1>4. CASE ReaderFail
  BY <1>4, <1>d, Zenon DEF ReaderFail
<1>5. ASSUME NEW s \in Remote, PeerOpens(s) PROVE QueueType'
  BY <1>5, Zenon DEF PeerOpens
<1>6. CASE ReaderInsert \/ ReaderPush
  BY <1>6, Zenon DEF ReaderInsert, ReaderPush
<1>7. CASE WriterTakeClose
  BY <1>7, Zenon DEF WriterTakeClose, QueueValues
<1>8. CASE WriterTakeControl \/ WriterTakeData
  BY <1>8, <1>b, <1>e, Zenon DEF WriterTakeControl, WriterTakeData
<1>9. CASE WriterSent \/ WriterBreak \/ WriterSinkClosed
  BY <1>9, Zenon DEF WriterSent, WriterBreak, WriterSinkClosed
<1>10. CASE KeepaliveStop \/ KeepaliveTick \/ CleanupStop \/ DropRecv
  BY <1>10, <1>a, Zenon DEF KeepaliveStop, KeepaliveTick, CleanupStop, DropRecv
<1>11. CASE DeadlineStart \/ CloseCall
  BY <1>11, <1>d, Zenon DEF DeadlineStart, CloseCall
<1>12. CASE DeadlineExpires \/ SupervisorJoined \/ SupervisorClear \/ AbortCall \/ DropHandles
  BY <1>12, Zenon DEF DeadlineExpires, SupervisorJoined, SupervisorClear, AbortCall,
     DropHandles
<1>13. ASSUME NEW s \in Local, OpenBi(s) PROVE QueueType'
  BY <1>13, <1>a, Zenon DEF OpenBi
<1>14. CASE CancelOpen \/ Write \/ AcceptBi
  BY <1>14, <1>e, Zenon DEF CancelOpen, Write, AcceptBi
<1> QED
  BY <1>0, <1>1, <1>2, <1>3, <1>4, <1>5, <1>6, <1>7, <1>8, <1>9, <1>10, <1>11, <1>12,
     <1>13, <1>14, ZenonT(40)
  DEF Next, Step, Environment, vars

\* StreamsKeep: map, accept queue and handles hold streams only, and while
\* on_remote_open is at work the stream in its hands is one of the peer's.
LEMMA StreamsKeep == StateInv /\ StreamsType /\ [Next]_vars => StreamsType'
<1> SUFFICES ASSUME StateInv, StreamsType, [Next]_vars PROVE StreamsType'
  BY Zenon
<1> USE DEF StreamsType, StateInv, registry, Goto, Call, Tasks, Group
<1>1. ASSUME NEW t \in Tasks, MarkFlags(t) \/ MarkShutdown(t) PROVE StreamsType'
  BY <1>1, ZenonT(40) DEF MarkFlags, MarkShutdown, Return
<1>2. ASSUME NEW t \in Tasks, MarkTake(t) \/ MarkTell(t) PROVE StreamsType'
  BY <1>2, SMTT(30) DEF MarkTake, MarkTell, Return
<1>3. CASE ReaderStop \/ PeerCloses \/ ReaderError \/ PeerStops \/ ReaderFail
  BY <1>3, Zenon DEF ReaderStop, PeerCloses, ReaderError, PeerStops, ReaderFail
<1>4. ASSUME NEW s \in Remote, PeerOpens(s) PROVE StreamsType'
  BY <1>4, ZenonT(40) DEF PeerOpens
<1>5. CASE ReaderInsert
  BY <1>5, SMTT(30) DEF ReaderInsert
<1>6. CASE ReaderPush
  BY <1>6, SMTT(30) DEF ReaderPush
<1>7. CASE WriterTakeClose \/ WriterTakeControl \/ WriterTakeData \/ WriterSent \/ WriterBreak \/ WriterSinkClosed
  BY <1>7, Zenon DEF WriterTakeClose, WriterTakeControl, WriterTakeData, WriterSent,
     WriterBreak, WriterSinkClosed
<1>8. CASE KeepaliveStop \/ KeepaliveTick \/ CleanupStop \/ DropRecv
  BY <1>8, ZenonT(40) DEF KeepaliveStop, KeepaliveTick, CleanupStop, DropRecv
<1>9. CASE DeadlineStart \/ DeadlineExpires \/ SupervisorJoined \/ SupervisorClear
  BY <1>9, SMTT(30) DEF DeadlineStart, DeadlineExpires, SupervisorJoined, SupervisorClear
<1>10. CASE CloseCall \/ AbortCall \/ DropHandles
  BY <1>10, ZenonT(40) DEF CloseCall, AbortCall, DropHandles
<1>11. ASSUME NEW s \in Local, OpenBi(s) PROVE StreamsType'
  BY <1>11, SMTT(30) DEF OpenBi
<1>12. CASE CancelOpen \/ Write \/ AcceptBi
  <2>1. CASE Write
    BY <2>1, Zenon DEF Write
  <2>2. CASE CancelOpen \/ AcceptBi
    BY <2>2, SMTT(30) DEF CancelOpen, AcceptBi
  <2> QED BY <1>12, <2>1, <2>2, Zenon
<1>13. CASE UNCHANGED vars
  BY <1>13, Zenon DEF vars
<1> QED
  BY <1>1, <1>2, <1>3, <1>4, <1>5, <1>6, <1>7, <1>8, <1>9, <1>10, <1>11, <1>12, <1>13,
     ZenonT(40)
  DEF Next, Step, Environment, MarkStep

\* CauseKeeps: each caller of mark_closed gives a cause of its own.
LEMMA CauseKeeps == CauseType /\ [Next]_vars => CauseType'
<1> SUFFICES ASSUME CauseType, [Next]_vars PROVE CauseType'
  BY Zenon
<1> USE DEF CauseType, Call
<1>1. ASSUME NEW t \in Tasks, MarkStep(t) PROVE CauseType'
  BY <1>1, Zenon DEF MarkStep, MarkFlags, MarkShutdown, MarkTake, MarkTell
<1>2. CASE ReaderStop \/ PeerCloses \/ ReaderError \/ PeerStops \/ ReaderFail
  BY <1>2, Zenon DEF ReaderStop, PeerCloses, ReaderError, PeerStops, ReaderFail
<1>3. ASSUME NEW s \in Remote, PeerOpens(s) PROVE CauseType'
  BY <1>3, Zenon DEF PeerOpens
<1>4. CASE ReaderInsert \/ ReaderPush
  BY <1>4, Zenon DEF ReaderInsert, ReaderPush
<1>5. CASE WriterTakeClose \/ WriterTakeControl \/ WriterTakeData \/ WriterSent \/ WriterBreak \/ WriterSinkClosed
  BY <1>5, Zenon DEF WriterTakeClose, WriterTakeControl, WriterTakeData, WriterSent,
     WriterBreak, WriterSinkClosed
<1>6. CASE KeepaliveStop \/ KeepaliveTick \/ CleanupStop \/ DropRecv
  BY <1>6, Zenon DEF KeepaliveStop, KeepaliveTick, CleanupStop, DropRecv
<1>7. CASE DeadlineStart \/ DeadlineExpires \/ SupervisorJoined \/ SupervisorClear
  BY <1>7, Zenon DEF DeadlineStart, DeadlineExpires, SupervisorJoined, SupervisorClear
<1>8. CASE CloseCall \/ AbortCall \/ DropHandles
  BY <1>8, Zenon DEF CloseCall, AbortCall, DropHandles
<1>9. ASSUME NEW s \in Local, OpenBi(s) PROVE CauseType'
  BY <1>9, Zenon DEF OpenBi
<1>10. CASE CancelOpen \/ Write \/ AcceptBi \/ UNCHANGED vars
  BY <1>10, Zenon DEF CancelOpen, Write, AcceptBi, vars
<1> QED
  BY <1>1, <1>2, <1>3, <1>4, <1>5, <1>6, <1>7, <1>8, <1>9, <1>10, Zenon
  DEF Next, Step, Environment

\* TypeCorrect: the connection keeps its types through every end and race, in
\* particular the queue of control frames never exceeds its capacity
\* (MaxControl) and never goes below zero.
THEOREM TypeCorrect == Spec => []TypeOK
<1>1. Init => TInv
  BY TInvInit, Zenon
<1>2. TInv /\ [Next]_vars => TInv'
  BY StateKeeps, FlagsKeep, QueueTypeKeeps, StreamsKeep, CauseKeeps, Zenon DEF TInv
<1>3. TInv => TypeOK
  BY Zenon DEF TInv, TypeOK, StateInv, FlagsType, QueueType, QueueValues, StreamsType,
     CauseType
<1> QED BY <1>1, <1>2, <1>3, PTL DEF Spec

=============================================================================
