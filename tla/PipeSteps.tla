------------------------------ MODULE PipeSteps -----------------------------
(***************************************************************************)
(* The inductive invariant of Pipe, and the proof that each step of the      *)
(* sending side and of the transport keeps it.  PipeProofs has the receiving *)
(* side and the theorems.                                                    *)
(***************************************************************************)
EXTENDS Pipe, TLAPS

-----------------------------------------------------------------------------
(* The bytes of a direction, and sequences of segments that hold them. *)

\* The bytes a + 1 to b, in order: byte k has the value k.
Run(a, b) == [k \in 1..(b - a) |-> a + k]

\* The payloads of segs, one after the other, are the bytes a + 1 to b: cut[i] is
\* where segs[i] ends.
Chain(segs, a, b) ==
  \E cut \in [0..Len(segs) -> Nat] :
    /\ cut[0] = a /\ cut[Len(segs)] = b
    /\ \A i, j \in 0..Len(segs) : i <= j => cut[i] <= cut[j]
    /\ \A i \in 1..Len(segs) : segs[i].data = Run(cut[i - 1], cut[i])

\* An inbound chunk: its payload, and whether it is a page that later payloads join.
Chunk == [data : Seq(Nat), page : BOOLEAN]

-----------------------------------------------------------------------------
(* The sender: the call in progress, the queue and the credit. *)

\* The bytes that the sender's queue ends with, while the handle can still write.
Tip == IF sendMode = 2 THEN accepted - Len(writeFut) ELSE accepted

\* The direction still takes bytes: no reset, no end of the connection, no drop.
Live == sendConn = "open" /\ ~sendTerminal /\ sendGone = "no"

\* An entry of the outbound queue: the bytes of a write or the FIN of finish.
Item == [data : Seq(Nat), fin : BOOLEAN]

\* Types of the sender's variables.
SendTypes ==
  /\ sendMode \in 0..2
  /\ finFut \in BOOLEAN /\ shut \in BOOLEAN /\ accepting \in BOOLEAN
  /\ storing \in BOOLEAN /\ resetOut \in BOOLEAN /\ finQueued \in BOOLEAN
  /\ sendTerminal \in BOOLEAN /\ dispatched \in BOOLEAN /\ resetQueued \in BOOLEAN
  /\ sendConn \in {"open", "closing", "ended"}
  /\ sendGone \in {"no", "dropped", "cleaned"}
  /\ accepted \in Nat /\ sent \in Nat /\ connLimit \in Nat /\ streamLimit \in Nat
  /\ writeFut \in Seq(Nat) /\ queue \in Seq(Item)
  /\ Len(queue) <= QueueSlots

\* Which calls of the application and which ends of the direction exclude others.
SendCtl ==
  /\ writeFut # <<>> => sendGone = "no" /\ ~finFut /\ sendMode # 0
  /\ accepting => sendMode = 2 /\ ~finFut /\ sendGone = "no" /\ ~finQueued
  /\ finFut => sendGone = "no"
  /\ storing => finFut /\ finQueued
  /\ finQueued => storing \/ sendTerminal
  /\ resetQueued => sendTerminal /\ queue = <<>> /\ ~dispatched
  /\ resetOut => resetQueued
  /\ dispatched => finQueued /\ queue = <<>>
  /\ sendConn = "ended" => queue = <<>> /\ ~resetOut

\* A FIN is the last of the queue.
QueueForm ==
  \A i \in 1..Len(queue) :
    IF queue[i].fin THEN i = Len(queue) /\ finQueued /\ queue[i].data = <<>>
                    ELSE queue[i].data # <<>>

\* The call in progress holds the bytes that follow the queue's.
SendArith ==
  /\ Tip \in Nat /\ Tip + Len(writeFut) <= MaxBytes /\ accepted <= MaxBytes
  /\ writeFut = Run(Tip, Tip + Len(writeFut))
  /\ sent <= connLimit /\ sent <= streamLimit

\* The queue holds the bytes from sent to x.
SendChain(x) ==
  /\ sent <= x /\ x <= accepted /\ Chain(queue, sent, x)
  /\ Live => x = Tip
  /\ dispatched \/ (finQueued /\ ~resetQueued /\ sendConn # "ended") => x = accepted

\* The sender's part of the invariant.
SInv ==
  /\ SendTypes /\ SendCtl /\ QueueForm /\ SendArith
  /\ \E x \in Nat : SendChain(x)

-----------------------------------------------------------------------------
(* The transport: frames one way, credit the other. *)

\* The frames of the direction that the transport carries.
Frames == [type : {"stream", "reset", "close"}, data : Seq(Nat), fin : BOOLEAN]

\* A frame that ends the direction.
Final(f) == f.fin \/ f.type = "reset"

\* The receiver has taken the frame that ends the direction.
RecvEnded == reader \in {"reset", "fin", "terminal"} \/ finReceived \/ resetError

\* The transport holds the bytes from received to sent, and after a frame that ends the
\* direction only CLOSE; what the receiver has ended, the sender had ended.
WireInv ==
  /\ wire \in Seq(Frames)
  /\ \A i \in 1..Len(wire) :
       /\ wire[i].type = "stream" => wire[i].fin = (wire[i].data = <<>>)
       /\ wire[i].type # "stream" => wire[i].data = <<>> /\ ~wire[i].fin
       /\ wire[i].fin => dispatched
       /\ wire[i].type = "reset" => resetQueued /\ ~resetOut
       /\ wire[i].type = "close" => sendConn = "ended" /\ i = Len(wire)
       /\ RecvEnded => wire[i].type = "close"
  /\ \A i, j \in 1..Len(wire) : i < j /\ Final(wire[i]) => wire[j].type = "close"
  /\ RecvEnded =>
       IF resetError \/ reader = "reset" THEN resetQueued /\ ~resetOut ELSE dispatched
  /\ received <= sent
  /\ reader # "failed" => Chain(wire, received, sent)

\* The sender's limits and the limits on their way to it are at most those granted, and
\* those are at most a window ahead of what was consumed.
CreditInv ==
  /\ grantedC \in Nat /\ grantedS \in Nat /\ consumedC \in Nat /\ consumedS \in Nat
  /\ received \in Nat /\ received <= grantedC /\ received <= grantedS
  /\ connLimit <= grantedC /\ streamLimit <= grantedS
  /\ grantedC <= consumedC + ConnWindow /\ grantedS <= consumedS + StreamWindow
  /\ back \in Seq([type : {"data", "stream", "stop"}, max : Nat])
  /\ \A i \in 1..Len(back) :
       /\ back[i].type = "data" => back[i].max <= grantedC
       /\ back[i].type = "stream" => back[i].max <= grantedS

-----------------------------------------------------------------------------
(* The receiver: the reader task, the application and the cleanup. *)

\* Types of the receiver's variables.
RecvTypes ==
  /\ recvMode \in 0..2
  /\ resetError \in BOOLEAN /\ finReceived \in BOOLEAN /\ recvClosed \in BOOLEAN
  /\ recvTerminal \in BOOLEAN /\ discarded \in BOOLEAN
  /\ permit \in BOOLEAN /\ woken \in BOOLEAN
  /\ reader \in {"idle", "push", "lock", "fin", "terminal", "reset", "failed"}
  /\ app \in {"idle", "poll", "wait", "again", "give", "consume", "release", "gone"}
  /\ cleaner \in {"idle", "discard", "clear", "stop", "done"}
  /\ chunks \in Seq(Chunk)
  /\ buf \in Seq(Nat) /\ read \in Seq(Nat) /\ giving \in Nat
  /\ permitsC \in Nat /\ permitsS \in Nat
  /\ outcome \in {"none", "eof", "reset"}

\* Where the reader task, the application and the cleanup can be together.
RecvCtl ==
  /\ frame \in Frames \cup {NoFrame}
  /\ IF reader \in {"push", "lock"}
     THEN frame.type = "stream" /\ frame.data # <<>> /\ ~frame.fin
     ELSE frame = NoFrame
  /\ recvTerminal \/ reader = "terminal" => finReceived
  /\ finReceived => reader = "terminal" \/ (reader = "idle" /\ recvTerminal)
  /\ resetError => reader = "fin" \/ finReceived
  /\ reader = "failed" => recvClosed
  /\ discarded <=> cleaner \in {"clear", "stop", "done"}
  /\ cleaner = "idle" <=> app \notin {"release", "gone"}
  /\ app \in {"poll", "wait", "again", "release", "gone"} => buf = <<>>
  /\ app \notin {"consume", "release"} => giving = 0

\* Every received byte is consumed or at exactly one place, and every byte that is held
\* has taken a permit of both budgets (InboundStream's semaphores).
AccountInv ==
  /\ reader # "failed" =>
       /\ received = consumedC + Bytes(chunks) + Len(buf) + giving + InReader
       /\ ~discarded =>
            received = consumedS + Bytes(chunks) + Len(buf) + giving + InReader
  /\ cleaner \in {"stop", "done"} => chunks = <<>>
  /\ resetError => chunks = <<>>
  /\ LET held == Bytes(chunks) + Len(buf)
                 + (IF reader = "lock" THEN Len(frame.data) ELSE 0)
     IN permitsC + held = ConnWindow /\ permitsS + held = StreamWindow

\* The reader was given the bytes in order; those that follow are in read_buf, in
\* the chunks and in the frame at hand.
ReadInv ==
  /\ read = Run(0, Len(read))
  /\ buf = Run(Len(read), Len(read) + Len(buf))
  /\ Len(read) + Len(buf) <= received
  /\ reader \in {"push", "lock"} =>
       /\ Len(frame.data) <= received
       /\ frame.data = Run(received - Len(frame.data), received)
  /\ cleaner = "idle" /\ ~resetError =>
       \E m \in Nat :
         /\ Len(read) + Len(buf) <= m /\ m <= received
         /\ Chain(chunks, Len(read) + Len(buf), m)
         /\ reader # "failed" => m = received - InReader
  /\ buf # <<>> => outcome = "none"
  /\ outcome = "eof" => finReceived /\ ~resetError /\ chunks = <<>>
  /\ outcome = "reset" => resetError

\* A read that is about to wait finds the notification it needs.
NotifyInv ==
  ~woken /\ (app = "wait" \/ (app = "poll" /\ ~permit)) =>
    /\ chunks = <<>> /\ ~resetError /\ ~recvClosed /\ ~recvTerminal
    /\ finReceived => reader = "terminal"

\* What the proofs below use of sums of lengths. PipeProofs proves it; it is an
\* assumption here because the theorems about sums rest on a library whose size slows
\* every step.
BytesLaws ==
  /\ Bytes(<<>>) = 0
  /\ \A cs \in Seq(Chunk) :
       /\ Bytes(cs) \in Nat
       /\ \A c \in Chunk : Bytes(Append(cs, c)) = Bytes(cs) + Len(c.data)
       /\ cs # <<>> =>
            /\ Bytes(cs) = Len(Head(cs).data) + Bytes(Tail(cs))
            /\ \A c \in Chunk, k \in Nat : Len(c.data) = Len(cs[Len(cs)].data) + k =>
                 Bytes([cs EXCEPT ![Len(cs)] = c]) = Bytes(cs) + k

-----------------------------------------------------------------------------
(* The inductive invariant. *)

\* The invariant of the whole direction.
PInv ==
  /\ SInv /\ WireInv /\ CreditInv
  /\ RecvTypes /\ RecvCtl /\ AccountInv /\ ReadInv /\ NotifyInv

\* What the sender has ended stays ended.
Grows ==
  /\ dispatched => dispatched'
  /\ resetQueued => resetQueued'
  /\ resetQueued /\ ~resetOut => ~resetOut'
  /\ sendConn = "ended" => sendConn' = "ended"
  /\ connLimit' = connLimit /\ streamLimit' = streamLimit

-----------------------------------------------------------------------------
(* Runs and chains. *)

\* RunLen: a run is a sequence of b - a bytes.
LEMMA RunLen ==
  ASSUME NEW a \in Nat, NEW b \in Nat, a <= b
  PROVE  Run(a, b) \in Seq(Nat) /\ Len(Run(a, b)) = b - a
<1>1. b - a \in Nat /\ \A k \in 1..(b - a) : a + k \in Nat
  BY SMTT(30)
<1> QED BY <1>1, SMTT(30) DEF Run

\* RunPrefix: the first bytes of a run (split_to in next_frame and poll_read).
LEMMA RunPrefix ==
  ASSUME NEW a \in Nat, NEW m \in Nat, NEW b \in Nat, a <= m, m <= b
  PROVE  SubSeq(Run(a, b), 1, m - a) = Run(a, m)
<1>1. Run(a, b) \in Seq(Nat) /\ Len(Run(a, b)) = b - a
  BY RunLen, SMTT(30)
<1>2. \A k \in 1..(m - a) : SubSeq(Run(a, b), 1, m - a)[k] = a + k
  BY <1>1, SMTT(30) DEF Run
<1>3. DOMAIN SubSeq(Run(a, b), 1, m - a) = 1..(m - a)
  BY <1>1, SMTT(30)
<1> QED BY <1>1, <1>2, <1>3, SMTT(30) DEF Run

\* RunSuffix: the bytes that split_to leaves.
LEMMA RunSuffix ==
  ASSUME NEW a \in Nat, NEW m \in Nat, NEW b \in Nat, a <= m, m <= b
  PROVE  SubSeq(Run(a, b), m - a + 1, b - a) = Run(m, b)
<1>1. Run(a, b) \in Seq(Nat) /\ Len(Run(a, b)) = b - a
  BY RunLen, SMTT(30)
<1>2. \A k \in 1..(b - m) : SubSeq(Run(a, b), m - a + 1, b - a)[k] = m + k
  BY <1>1, SMTT(30) DEF Run
<1>3. DOMAIN SubSeq(Run(a, b), m - a + 1, b - a) = 1..(b - m)
  BY <1>1, SMTT(30)
<1> QED BY <1>1, <1>2, <1>3, SMTT(30) DEF Run

\* RunJoin: two runs, one after the other (extend_from_slice onto a page).
LEMMA RunJoin ==
  ASSUME NEW a \in Nat, NEW m \in Nat, NEW b \in Nat, a <= m, m <= b
  PROVE  Run(a, m) \o Run(m, b) = Run(a, b)
<1> DEFINE j == Run(a, m) \o Run(m, b)
<1>1. /\ Run(a, m) \in Seq(Nat) /\ Len(Run(a, m)) = m - a
      /\ Run(m, b) \in Seq(Nat) /\ Len(Run(m, b)) = b - m
  BY RunLen, Zenon
<1>2. j \in Seq(Nat) /\ Len(j) = b - a
  BY <1>1, SMTT(30)
<1>3. ASSUME NEW k \in 1..(b - a) PROVE j[k] = a + k
  <2>0. k <= m - a \/ k > m - a
    BY SMTT(30)
  <2>1. CASE k <= m - a
    BY <1>1, <2>1, SMTT(30) DEF Run
  <2>2. CASE k > m - a
    <3>1. j[k] = Run(m, b)[k - (m - a)]
      BY <1>1, <2>2, SMTT(30)
    <3>2. k - (m - a) \in 1..(b - m)
      BY <2>2, SMTT(30)
    <3> QED BY <3>1, <3>2, SMTT(30) DEF Run
  <2> HIDE DEF j
  <2> QED BY <2>0, <2>1, <2>2, Zenon
<1> HIDE DEF j
<1> QED BY <1>2, <1>3, SMTT(30) DEF Run

\* ChainNone: an empty queue is a chain that starts where it ends.
LEMMA ChainNone ==
  ASSUME NEW a \in Nat PROVE Chain(<<>>, a, a)
<1> DEFINE c == [i \in 0..0 |-> a]
<1>1. c \in [0..0 -> Nat] /\ c[0] = a /\ \A i, j \in 0..0 : i <= j => c[i] <= c[j]
  BY SMTT(30)
<1>2. Len(<<>>) = 0 /\ 1..0 = {}
  BY SMTT(30)
<1> HIDE DEF c
<1> QED BY <1>1, <1>2, Zenon DEF Chain

\* ChainNoneEnds: and it is no other chain.
LEMMA ChainNoneEnds ==
  ASSUME NEW a, NEW b, Chain(<<>>, a, b) PROVE a = b
BY Zenon DEF Chain

\* ChainPut: push_back of the bytes that come next.
LEMMA ChainPut ==
  ASSUME NEW S, NEW segs \in Seq(S), NEW a, NEW b, NEW c \in Nat,
         b <= c, Chain(segs, a, b), NEW e, e.data = Run(b, c)
  PROVE  Chain(Append(segs, e), a, c)
<1> DEFINE n == Len(segs)
           t == Append(segs, e)
<1>1. n \in Nat /\ Len(t) = n + 1 /\ t[n + 1] = e /\ \A i \in 1..n : t[i] = segs[i]
  BY SMTT(30)
<1>2. PICK cut \in [0..n -> Nat] :
        /\ cut[0] = a /\ cut[n] = b
        /\ \A i, j \in 0..n : i <= j => cut[i] <= cut[j]
        /\ \A i \in 1..n : segs[i].data = Run(cut[i - 1], cut[i])
  BY Zenon DEF Chain
<1> HIDE DEF n, t
<1> DEFINE d == [i \in 0..(n + 1) |-> IF i = n + 1 THEN c ELSE cut[i]]
<1>3. d \in [0..(n + 1) -> Nat] /\ d[n + 1] = c /\ \A i \in 0..n : d[i] = cut[i]
  BY <1>1, SMTT(30)
<1> HIDE DEF d
<1>4. \A i \in 0..n : cut[i] <= c /\ cut[i] \in Nat
  BY <1>1, <1>2, SMTT(30)
<1>5. ASSUME NEW i \in 0..(n + 1), NEW j \in 0..(n + 1), i <= j PROVE d[i] <= d[j]
  <2>1. CASE j \in 0..n
    BY <1>1, <1>2, <1>3, <1>5, <2>1, SMTT(30)
  <2>2. CASE j = n + 1
    <3>1. CASE i = n + 1
      BY <1>3, <2>2, <3>1, SMTT(30)
    <3>2. CASE i \in 0..n
      BY <1>3, <1>4, <2>2, <3>2, Zenon
    <3> QED BY <1>1, <3>1, <3>2, SMTT(30)
  <2> QED BY <1>1, <2>1, <2>2, SMTT(30)
<1>6. ASSUME NEW i \in 1..(n + 1) PROVE t[i].data = Run(d[i - 1], d[i])
  <2>1. CASE i = n + 1
    <3>1. d[i - 1] = b /\ d[i] = c
      BY <1>1, <1>2, <1>3, <2>1, SMTT(30)
    <3> QED BY <1>1, <2>1, <3>1, Zenon
  <2>2. CASE i # n + 1
    <3>1. i \in 1..n /\ d[i - 1] = cut[i - 1] /\ d[i] = cut[i] /\ t[i] = segs[i]
      BY <1>1, <1>3, <2>2, SMTT(30)
    <3> QED BY <1>2, <3>1, Zenon
  <2> QED BY <2>1, <2>2, Zenon
<1>7. d[0] = a
  BY <1>1, <1>2, <1>3, SMTT(30)
<1>8. Chain(t, a, c)
  BY <1>1, <1>3, <1>5, <1>6, <1>7, ZenonT(40) DEF Chain
<1> QED BY <1>8, Zenon DEF t

\* ChainTake: pop_front gives the bytes that come first.
LEMMA ChainTake ==
  ASSUME NEW S, NEW segs \in Seq(S), NEW a, NEW b, Chain(segs, a, b), segs # <<>>
  PROVE  \E m \in Nat : /\ a <= m /\ m <= b /\ Head(segs).data = Run(a, m)
                        /\ Chain(Tail(segs), m, b)
<1> DEFINE n == Len(segs) - 1
           t == Tail(segs)
<1>1. /\ n \in Nat /\ Len(segs) = n + 1 /\ Len(t) = n /\ Head(segs) = segs[1]
      /\ \A i \in 1..n : t[i] = segs[i + 1]
  BY SMTT(30)
<1> HIDE DEF n, t
<1>2. PICK cut \in [0..(n + 1) -> Nat] :
        /\ cut[0] = a /\ cut[n + 1] = b
        /\ \A i, j \in 0..(n + 1) : i <= j => cut[i] <= cut[j]
        /\ \A i \in 1..(n + 1) : segs[i].data = Run(cut[i - 1], cut[i])
  BY <1>1, ZenonT(40) DEF Chain
<1>3. cut[1] \in Nat /\ a <= cut[1] /\ cut[1] <= b /\ segs[1].data = Run(a, cut[1])
  BY <1>1, <1>2, SMTT(30)
<1> DEFINE d == [i \in 0..n |-> cut[i + 1]]
<1>4. d \in [0..n -> Nat] /\ d[0] = cut[1] /\ d[n] = b /\ \A i \in 0..n : d[i] = cut[i + 1]
  BY <1>1, <1>2, SMTT(30)
<1> HIDE DEF d
<1>5. \A i, j \in 0..n : i <= j => d[i] <= d[j]
  BY <1>1, <1>2, <1>4, SMTT(30)
<1>6. ASSUME NEW i \in 1..n PROVE t[i].data = Run(d[i - 1], d[i])
  <2>1. i + 1 \in 1..(n + 1) /\ d[i - 1] = cut[i] /\ d[i] = cut[i + 1] /\ (i + 1) - 1 = i
    BY <1>1, <1>4, SMTT(30)
  <2>2. segs[i + 1].data = Run(cut[(i + 1) - 1], cut[i + 1])
    BY <1>2, <2>1, Zenon
  <2> QED BY <1>1, <2>1, <2>2, Zenon
<1>7. Chain(t, cut[1], b)
  BY <1>1, <1>4, <1>5, <1>6, Zenon DEF Chain
<1> QED BY <1>1, <1>3, <1>7, Zenon DEF t

-----------------------------------------------------------------------------
(* The sender. *)

\* RunNone: the run of no bytes.
LEMMA RunNone == ASSUME NEW a \in Nat PROVE Run(a, a) = <<>> /\ Run(a, a + 0) = <<>>
BY SMTT(30) DEF Run

\* EmptyKeeps: the steps that drop the queue (reset_stream, the end of the connection)
\* keep the sender's invariant.
LEMMA EmptyKeeps ==
  ASSUME SInv, queue' = <<>>,
         UNCHANGED <<sendMode, writeFut, finFut, shut, accepting, storing, finQueued,
                     dispatched, sent, connLimit, streamLimit, accepted>>,
         sendTerminal' \in BOOLEAN, resetQueued' \in BOOLEAN, resetOut' \in BOOLEAN,
         sendConn' \in {"open", "ended"}, sendGone' \in {"no", "dropped", "cleaned"},
         writeFut # <<>> \/ finFut \/ accepting => sendGone' = "no",
         sendTerminal => sendTerminal', resetQueued' => sendTerminal' /\ ~dispatched,
         resetOut' => resetQueued', sendConn' = "ended" => ~resetOut',
         sendConn' = "ended" \/ (sendTerminal' /\ resetQueued')
  PROVE  SInv'
<1> SendTypes /\ SendCtl /\ QueueForm /\ SendArith
  BY Zenon DEF SInv
<1>1. PICK x \in Nat : SendChain(x)
  BY Zenon DEF SInv
<1>2. SendTypes'
  <2>1. queue' \in Seq(Item) /\ Len(queue') <= QueueSlots
    BY OutboundAssumption, SMTT(30)
  <2> QED BY <2>1, Zenon DEF SendTypes
<1>3. SendCtl'
  BY ZenonT(40) DEF SendCtl
<1>4. QueueForm'
  BY SMTT(30) DEF QueueForm
<1>5. SendArith'
  <2>1. Tip' = Tip
    BY Zenon DEF Tip
  <2> QED BY <2>1, Zenon DEF SendArith
<1>6. SendChain(sent)'
  <2>1. sent \in Nat /\ x \in Nat /\ accepted \in Nat /\ sent <= x /\ x <= accepted
    BY <1>1, Zenon DEF SendTypes, SendChain
  <2>2. Chain(<<>>, sent, sent)
    BY <2>1, ChainNone, Zenon
  <2>3. dispatched => sent = accepted
    <3>1. dispatched => queue = <<>> /\ x = accepted
      BY <1>1, Zenon DEF SendCtl, SendChain
    <3> QED BY <1>1, <3>1, ChainNoneEnds, Zenon DEF SendChain
  <2>4. ~Live'
    BY Zenon DEF Live
  <2> QED BY <2>1, <2>2, <2>3, <2>4, SMTT(30) DEF SendChain
<1>7. sent \in Nat /\ sent' = sent
  BY Zenon DEF SendTypes
<1> QED BY <1>2, <1>3, <1>4, <1>5, <1>6, <1>7, Zenon DEF SInv

\* ResetStreamKeeps: reset_stream drops the queue and leaves a RESET to send.
LEMMA ResetStreamKeeps ==
  ASSUME SInv, ResetStream, sendGone' \in {"no", "dropped", "cleaned"},
         writeFut # <<>> \/ finFut \/ accepting => sendGone' = "no",
         UNCHANGED <<sendMode, writeFut, finFut, shut, accepting, storing, finQueued,
                     dispatched, flow, sendConn, accepted>>
  PROVE  SInv'
<1>1. /\ queue' = <<>> /\ resetQueued' = TRUE /\ sendTerminal' = TRUE /\ resetOut' = TRUE
      /\ sendConn' = "open" /\ ~dispatched
  BY Zenon DEF ResetStream
<1> QED BY <1>1, EmptyKeeps, Zenon DEF flow

\* EmptyLen: only the empty sequence has length 0.
LEMMA EmptyLen == ASSUME NEW S, NEW s \in Seq(S) PROVE Len(s) \in Nat /\ (s = <<>> <=> Len(s) = 0)
BY SMTT(30)

\* SumLess: what a sum leaves when one of its parts is taken off.
LEMMA SumLess ==
  ASSUME NEW a \in Nat, NEW b \in Nat
  PROVE  a <= a + b /\ b <= a + b /\ (a + b) - b = a /\ a - 0 = a
BY SMTT(30)

\* EndsKeep: so does the end of the connection, which empties the queue.
LEMMA EndsKeep == ASSUME SInv, ConnectionEnds PROVE SInv'
<1> SendTypes /\ SendCtl
  BY Zenon DEF SInv
<1>1. /\ sendConn' = "ended" /\ queue' = <<>> /\ resetOut' = FALSE
      /\ UNCHANGED <<sendMode, writeFut, finFut, shut, accepting, storing, finQueued,
                     dispatched, sent, connLimit, streamLimit, accepted,
                     sendTerminal, resetQueued, sendGone>>
  BY Zenon DEF ConnectionEnds, calls, flow
<1>2. /\ sendTerminal' \in BOOLEAN /\ resetQueued' \in BOOLEAN /\ resetOut' \in BOOLEAN
      /\ sendGone' \in {"no", "dropped", "cleaned"}
      /\ (writeFut # <<>> \/ finFut \/ accepting => sendGone' = "no")
      /\ (sendTerminal => sendTerminal') /\ (resetQueued' => sendTerminal' /\ ~dispatched)
      /\ (resetOut' => resetQueued')
  BY <1>1, Zenon DEF SendTypes, SendCtl
<1> QED BY <1>1, <1>2, EmptyKeeps, Zenon

\* QuietKeeps: so do the start of a graceful close and the RESET that leaves.
LEMMA QuietKeeps ==
  ASSUME SInv, CloseGracefully \/ SendReset
  PROVE  SInv'
<1> SendTypes /\ SendCtl
  BY Zenon DEF SInv
<1>1. /\ UNCHANGED <<sendMode, writeFut, finFut, shut, accepting, storing, finQueued,
                     dispatched, sent, connLimit, streamLimit, accepted,
                     sendTerminal, resetQueued, sendGone, queue>>
      /\ resetOut' \in BOOLEAN /\ (resetOut' => resetOut)
      /\ sendConn' \in {"open", "closing", "ended"} /\ (sendConn' = "ended" => sendConn = "ended")
      /\ (sendConn' = "open" => sendConn = "open") /\ (sendConn' # "ended" => sendConn # "ended")
  <2>1. CASE CloseGracefully
    BY <2>1, Zenon DEF CloseGracefully, calls, flow, SendTypes
  <2>2. CASE SendReset
    BY <2>2, Zenon DEF SendReset, calls, flow, SendTypes
  <2> QED BY <2>1, <2>2, Zenon
<1>2. PICK x \in Nat : SendChain(x)
  BY Zenon DEF SInv
<1>3. SendTypes'
  BY <1>1, ZenonT(40) DEF SendTypes
<1>4. SendCtl'
  BY <1>1, Zenon DEF SendCtl
<1>5. QueueForm'
  BY <1>1, Zenon DEF SInv, QueueForm
<1>6. SendArith'
  BY <1>1, Zenon DEF SInv, SendArith, Tip
<1>7. SendChain(x)'
  BY <1>1, <1>2, Zenon DEF SendChain, Live, Tip
<1> QED BY <1>3, <1>4, <1>5, <1>6, <1>7, Zenon DEF SInv

\* SendSame: steps of the receiver leave the sender alone.
LEMMA SendSame == ASSUME SInv, UNCHANGED outVars PROVE SInv'
BY SMTT(30) DEF outVars, calls, flow, SInv, SendTypes, SendCtl, QueueForm, SendArith,
       SendChain, Live, Tip

-----------------------------------------------------------------------------
(* The transport. *)

\* SenderGrows: what the sender has ended stays ended, and only next_frame sends.
LEMMA SenderGrows ==
  ASSUME SInv,
         \/ \E n \in Nat \ {0} : WriteChunk(n) \/ AcceptBytes(n)
         \/ Finish \/ CancelCall \/ PollWrite \/ AcceptLater \/ PollShutdown
         \/ FinStored \/ QueueFails \/ DropSend \/ QueueChunk \/ QueueFin
         \/ ResetApi \/ CleanSend \/ CloseGracefully \/ ConnectionEnds \/ RecvStop
         \/ UNCHANGED outVars
  PROVE  Grows /\ sent' = sent
<1>0. ASSUME UNCHANGED <<dispatched, resetQueued, resetOut, flow, sendConn>>
      PROVE  Grows /\ sent' = sent
  BY <1>0, Zenon DEF Grows, flow
<1>1. CASE \E n \in Nat \ {0} : WriteChunk(n) \/ AcceptBytes(n)
  BY <1>0, <1>1, Zenon DEF WriteChunk, AcceptBytes
<1>2. CASE Finish \/ CancelCall \/ PollWrite \/ AcceptLater \/ PollShutdown
  <2>1. UNCHANGED <<dispatched, resetQueued, resetOut, flow, sendConn>>
    BY <1>2, Zenon DEF Finish, CancelCall, PollWrite, AcceptLater, PollShutdown
  <2> QED BY <1>0, <2>1, Zenon
<1>9. CASE FinStored \/ QueueFails \/ DropSend \/ QueueChunk \/ QueueFin
  <2>1. UNCHANGED <<dispatched, resetQueued, resetOut, flow, sendConn>>
    BY <1>9, Zenon DEF FinStored, QueueFails, DropSend, QueueChunk, QueueFin
  <2> QED BY <1>0, <2>1, Zenon
<1>3. CASE ResetApi
  BY <1>3, Zenon DEF ResetApi, ResetStream, flow, Grows
<1>4. CASE CleanSend
  BY <1>4, SMTT(30) DEF CleanSend, ResetStream, flow, Grows
<1>5. CASE CloseGracefully
  BY <1>5, Zenon DEF CloseGracefully, flow, Grows
<1>6. CASE ConnectionEnds
  BY <1>6, ZenonT(40) DEF ConnectionEnds, flow, Grows
<1>7. CASE RecvStop
  BY <1>7, SMTT(30) DEF RecvStop, ResetStream, ConnectionEnds, flow, Grows
<1>8. CASE UNCHANGED outVars
  BY <1>8, Zenon DEF outVars, flow, Grows
<1> QED BY <1>1, <1>2, <1>3, <1>4, <1>5, <1>6, <1>7, <1>8, <1>9, Zenon

\* InSame: steps of the sender change nothing that the receiver sees.
LEMMA InSame ==
  ASSUME UNCHANGED inVars
  PROVE  /\ UNCHANGED <<chunks, resetError, finReceived, recvClosed, recvTerminal,
                        discarded, received, consumedC, consumedS, grantedC, grantedS>>
         /\ UNCHANGED <<permitsC, permitsS, reader, frame, recvMode, app, buf, giving,
                        permit, woken, cleaner, read, outcome>>
         /\ RecvEnded' = RecvEnded
         /\ RecvTypes => RecvTypes'
         /\ RecvCtl => RecvCtl'
         /\ AccountInv => AccountInv'
         /\ ReadInv => ReadInv'
         /\ NotifyInv => NotifyInv'
<1>1. UNCHANGED <<chunks, resetError, finReceived, recvClosed, recvTerminal,
                  discarded, received, consumedC, consumedS, grantedC, grantedS>>
  BY Zenon DEF inVars, inboundState, windows
<1>2. UNCHANGED <<permitsC, permitsS, reader, frame, recvMode, app, buf, giving,
                  permit, woken, cleaner, read, outcome>>
  BY Zenon DEF inVars, windows, application, notifier
<1>3. RecvEnded' = RecvEnded
  BY <1>1, <1>2, Zenon DEF RecvEnded
<1>4. RecvTypes => RecvTypes'
  BY <1>1, <1>2, SMTT(30) DEF RecvTypes
<1>5. RecvCtl => RecvCtl'
  BY <1>1, <1>2, Zenon DEF RecvCtl
<1>6. InReader' = InReader
  BY <1>2, Zenon DEF InReader
<1>7. AccountInv => AccountInv'
  BY <1>1, <1>2, <1>6, Zenon DEF AccountInv
<1>8. ReadInv => ReadInv'
  BY <1>1, <1>2, <1>6, Zenon DEF ReadInv
<1>9. NotifyInv => NotifyInv'
  BY <1>1, <1>2, ZenonT(40) DEF NotifyInv
<1> QED BY <1>1, <1>2, <1>3, <1>4, <1>5, <1>7, <1>8, <1>9, Zenon

\* WireKeeps: the transport's invariant survives a step that puts nothing on it.
LEMMA WireKeeps ==
  ASSUME WireInv, Grows, sent' = sent, UNCHANGED <<wire, inVars>>
  PROVE  WireInv'
<1>1. UNCHANGED <<reader, resetError, finReceived, received, wire>> /\ RecvEnded' = RecvEnded
  BY InSame, Zenon
<1> QED BY <1>1, SMTT(30) DEF WireInv, Grows, Final

\* CreditSame: and so does the invariant on credit.
LEMMA CreditSame ==
  ASSUME CreditInv, connLimit' = connLimit, streamLimit' = streamLimit,
         UNCHANGED <<inVars, back>>
  PROVE  CreditInv'
<1>1. UNCHANGED <<grantedC, grantedS, consumedC, consumedS, received>>
  BY InSame, Zenon
<1> QED BY <1>1, Zenon DEF CreditInv

\* PutKeeps: a frame is added to the transport's queue; it carries the bytes that come
\* next, and nothing but CLOSE follows the end of the direction.
LEMMA PutKeeps ==
  ASSUME WireInv, Grows, NEW f \in Frames, wire' = Append(wire, f), UNCHANGED inVars,
         sent \in Nat, sent' \in Nat, sent <= sent', f.data = Run(sent, sent'),
         received \in Nat,
         f.type = "stream" => f.fin = (f.data = <<>>),
         f.type # "stream" => f.data = <<>> /\ ~f.fin,
         f.fin => dispatched',
         f.type = "reset" => resetQueued' /\ ~resetOut',
         f.type = "close" => sendConn' = "ended",
         RecvEnded => f.type = "close",
         sendConn # "ended",
         f.type # "close" => \A i \in 1..Len(wire) : ~Final(wire[i])
  PROVE  WireInv'
<1>1. UNCHANGED <<reader, resetError, finReceived, received>> /\ RecvEnded' = RecvEnded
  BY InSame, Zenon
<1> DEFINE n == Len(wire)
<1>2. wire \in Seq(Frames) /\ n \in Nat
  BY SMTT(30) DEF WireInv
<1>3. /\ wire' \in Seq(Frames) /\ Len(wire') = n + 1 /\ wire'[n + 1] = f
      /\ \A i \in 1..n : wire'[i] = wire[i] /\ wire[i].type # "close"
      /\ \A i \in 1..(n + 1) : i # n + 1 => i \in 1..n
  BY <1>2, SMTT(30) DEF WireInv
<1>4. reader' # "failed" => Chain(wire', received', sent')
  <2>1. reader # "failed" => Chain(wire, received, sent)
    BY Zenon DEF WireInv
  <2>2. reader # "failed" => Chain(Append(wire, f), received, sent')
    BY <2>1, <1>2, ChainPut, Zenon
  <2> QED BY <1>1, <2>2, Zenon
<1>5. received' <= sent'
  <2>1. received <= sent
    BY Zenon DEF WireInv
  <2> QED BY <1>1, <2>1, SMTT(30)
<1>6. ASSUME NEW i \in 1..Len(wire')
      PROVE  /\ wire'[i].type = "stream" => wire'[i].fin = (wire'[i].data = <<>>)
             /\ wire'[i].type # "stream" => wire'[i].data = <<>> /\ ~wire'[i].fin
             /\ wire'[i].fin => dispatched'
             /\ wire'[i].type = "reset" => resetQueued' /\ ~resetOut'
             /\ wire'[i].type = "close" => sendConn' = "ended" /\ i = Len(wire')
             /\ RecvEnded' => wire'[i].type = "close"
  <2>1. CASE i = n + 1
    BY <1>1, <1>3, <2>1, ZenonT(40)
  <2>2. CASE i # n + 1
    <3>1. i \in 1..n /\ wire'[i] = wire[i] /\ wire[i].type # "close"
      BY <1>3, <2>2, Zenon
    <3> QED BY <1>1, <3>1, SMTT(30) DEF WireInv, Grows
  <2> QED BY <2>1, <2>2, Zenon
<1>7. ASSUME NEW i \in 1..Len(wire'), NEW j \in 1..Len(wire'), i < j, Final(wire'[i])
      PROVE  wire'[j].type = "close"
  <2>1. i # n + 1
    BY <1>2, <1>3, <1>7, SMTT(30)
  <2>2. i \in 1..n /\ wire'[i] = wire[i]
    BY <1>3, <2>1, Zenon
  <2>3. CASE j = n + 1
    BY <1>3, <1>7, <2>2, <2>3, Zenon
  <2>4. CASE j # n + 1
    <3>1. j \in 1..n /\ wire'[j] = wire[j]
      BY <1>3, <2>4, Zenon
    <3> QED BY <1>7, <2>2, <3>1, Zenon DEF WireInv
  <2> QED BY <2>3, <2>4, ZenonT(40)
<1>8. RecvEnded' => IF resetError' \/ reader' = "reset" THEN resetQueued' /\ ~resetOut' ELSE dispatched'
  BY <1>1, Zenon DEF WireInv, Grows
<1> HIDE DEF n
<1> QED BY <1>3, <1>4, <1>5, <1>6, <1>7, <1>8, ZenonT(40) DEF WireInv, Final

\* HeadAndTail: the first element of a queue and the others.
LEMMA HeadAndTail ==
  ASSUME NEW S, NEW s \in Seq(S), s # <<>>
  PROVE  /\ Len(s) \in Nat \ {0} /\ Head(s) \in S /\ Head(s) = s[1]
         /\ Tail(s) \in Seq(S) /\ Len(Tail(s)) = Len(s) - 1
         /\ \A i \in 1..Len(Tail(s)) : i + 1 \in 1..Len(s) /\ Tail(s)[i] = s[i + 1]
BY SMTT(30)

\* SenderKeeps: the steps of the sending side (write_chunk to reset, enqueue_data,
\* reset_stream) keep the invariant.
LEMMA SenderKeeps == ASSUME PInv, Sender PROVE PInv'
\* CallsKeep: the application's calls (write_chunk, poll_write, finish, poll_shutdown,
\* their cancellation, the drop of the handle) keep the sender's invariant.
<1>CallsKeep.
    ASSUME SInv,
           \/ \E n \in Nat \ {0} : WriteChunk(n) \/ AcceptBytes(n)
           \/ Finish \/ CancelCall \/ PollWrite \/ AcceptLater \/ PollShutdown
           \/ FinStored \/ QueueFails \/ DropSend
    PROVE  SInv'
  <2> USE <1>CallsKeep
  \* PayloadRun: the bytes a write call brings are those that come next.
  <2>PayloadRun.
      ASSUME accepted \in Nat, NEW n \in Nat
      PROVE  Payload(n) = Run(accepted, accepted + n)
    BY <2>PayloadRun, SMTT(30) DEF Run, Payload
  <2> SendTypes /\ SendCtl /\ QueueForm /\ SendArith
    BY Zenon DEF SInv
  <2>1. PICK x \in Nat : SendChain(x)
    BY Zenon DEF SInv
  <2>2. UNCHANGED <<queue, resetOut, finQueued, dispatched, resetQueued, flow, sendConn>>
    BY Zenon DEF WriteChunk, AcceptBytes, Finish, CancelCall, PollWrite, AcceptLater,
           PollShutdown, FinStored, QueueFails, DropSend
  <2>3. QueueForm'
    BY <2>2, Zenon DEF QueueForm
  <2>4. ASSUME NEW n \in Nat \ {0}, WriteChunk(n) PROVE SInv'
    <3>1. /\ accepted' = accepted /\ accepted \in Nat /\ sendMode \in {0, 1} /\ sendMode' = 1
          /\ writeFut' = Run(accepted, accepted + n) /\ accepted + n <= MaxBytes
      BY <2>4, <2>PayloadRun, Zenon DEF SendTypes, WriteChunk, SelectSendMode
    <3>2. writeFut' \in Seq(Nat) /\ Len(writeFut') = n
      BY <3>1, RunLen, SMTT(30)
    <3>3. Tip = accepted /\ Tip' = accepted
      BY <3>1, SMTT(30) DEF Tip
    <3>4. SendTypes'
      BY <2>2, <2>4, <3>1, <3>2, SMTT(30) DEF SendTypes, WriteChunk, flow
    <3>5. SendCtl'
      BY <2>2, <2>4, <3>1, SMTT(30) DEF SendCtl, WriteChunk, SendHandle
    <3>6. SendArith'
      BY <2>2, <3>1, <3>2, <3>3, ZenonT(40) DEF SendArith, flow
    <3>7. SendChain(x)'
      BY <2>1, <2>2, <2>4, <3>1, <3>3, SMTT(30) DEF SendChain, Live, WriteChunk, flow
    <3> QED BY <2>3, <3>4, <3>5, <3>6, <3>7, Zenon DEF SInv
  <2>5. ASSUME NEW n \in Nat \ {0}, AcceptBytes(n) PROVE SInv'
    <3>1. /\ accepted' = accepted + n /\ accepted \in Nat /\ sendMode = 2 /\ sendMode' = 2
          /\ writeFut = <<>> /\ writeFut' = Run(accepted, accepted + n)
          /\ accepted + n <= MaxBytes
      BY <2>5, <2>PayloadRun, Zenon DEF SendTypes, SendCtl, AcceptBytes
    <3>2. writeFut' \in Seq(Nat) /\ Len(writeFut') = n
      BY <3>1, RunLen, SMTT(30)
    <3>3. Tip = accepted /\ Tip' = accepted
      BY <3>1, <3>2, SMTT(30) DEF Tip
    <3>4. SendTypes'
      <4>1. accepted' \in Nat
        BY <3>1, SMTT(30)
      <4> QED BY <2>2, <2>5, <3>2, <4>1, ZenonT(40) DEF SendTypes, AcceptBytes, flow
    <3>5. SendCtl'
      BY <2>2, <2>5, <3>1, SMTT(30) DEF SendCtl, AcceptBytes
    <3>6. SendArith'
      BY <2>2, <3>1, <3>2, <3>3, Zenon DEF SendArith, flow
    <3>7. SendChain(x)'
      BY <2>1, <2>2, <2>5, <3>1, <3>3, SMTT(30) DEF SendChain, SendCtl, Live, AcceptBytes, flow
    <3> QED BY <2>3, <3>4, <3>5, <3>6, <3>7, Zenon DEF SInv
  <2>6. ASSUME accepted' = accepted, writeFut' \in {writeFut, <<>>}, SendTypes', SendCtl',
               writeFut' = writeFut => Tip' = Tip, Live' => Live /\ Tip' = Tip
        PROVE  SInv'
    <3>1. writeFut' = <<>> => Tip' = accepted
      BY <2>6, SMTT(30) DEF Tip, SendTypes
    <3>2. SendArith'
      <4>1. CASE writeFut' = writeFut
        BY <2>2, <2>6, <4>1, ZenonT(40) DEF SendArith, flow
      <4>2. CASE writeFut' = <<>>
        BY <2>2, <2>6, <3>1, <4>2, RunNone, SMTT(30) DEF SendArith, SendTypes, flow
      <4> QED BY <2>6, <4>1, <4>2, Zenon
    <3>3. SendChain(x)'
      BY <2>1, <2>2, <2>6, Zenon DEF SendChain, flow
    <3> QED BY <2>3, <2>6, <3>2, <3>3, Zenon DEF SInv
  <2>7. CASE Finish
    <3>1. accepted' = accepted /\ writeFut' \in {writeFut, <<>>}
      BY <2>7, ZenonT(40) DEF Finish
    <3>2. SendTypes'
      BY <2>2, <2>7, SMTT(30) DEF SendTypes, flow, Finish, SelectSendMode
    <3>3. SendCtl'
      BY <2>2, <2>7, SMTT(30) DEF SendTypes, SendCtl, Finish, SelectSendMode, SendHandle
    <3>4. writeFut' = writeFut => Tip' = Tip
      BY <2>7, SMTT(30) DEF Tip, SendTypes, SendCtl, Finish, SelectSendMode
    <3>5. Live' => Live /\ Tip' = Tip
      BY <2>2, <2>7, <3>4, ZenonT(40) DEF Tip, Live, SendTypes, SendCtl, Finish, SelectSendMode, SendHandle
    <3> QED BY <2>6, <3>1, <3>2, <3>3, <3>4, <3>5, Zenon
  <2>8. CASE CancelCall
    <3>1. accepted' = accepted /\ writeFut' \in {writeFut, <<>>}
      BY <2>8, Zenon DEF CancelCall
    <3>2. SendTypes'
      <4>1. writeFut' \in Seq(Nat)
        BY <2>8, SMTT(30) DEF CancelCall
      <4> QED BY <2>2, <2>8, <4>1, ZenonT(40) DEF SendTypes, flow, CancelCall
    <3>3. SendCtl'
      BY <2>2, <2>8, SMTT(30) DEF SendTypes, SendCtl, CancelCall, SendHandle
    <3>4. writeFut' = writeFut => Tip' = Tip
      BY <2>8, Zenon DEF Tip, SendTypes, SendCtl, CancelCall
    <3>5. Live' => Live /\ Tip' = Tip
      BY <2>2, <2>8, <3>4, SMTT(30) DEF Tip, Live, SendTypes, SendCtl, CancelCall, SendHandle
    <3> QED BY <2>6, <3>1, <3>2, <3>3, <3>4, <3>5, Zenon
  <2>9. CASE PollWrite
    <3>1. accepted' = accepted /\ writeFut' \in {writeFut, <<>>}
      BY <2>9, Zenon DEF PollWrite
    <3>2. SendTypes'
      BY <2>2, <2>9, SMTT(30) DEF SendTypes, flow, PollWrite, SelectSendMode
    <3>3. SendCtl'
      BY <2>2, <2>9, SMTT(30) DEF SendTypes, SendCtl, PollWrite, SelectSendMode, SendHandle
    <3>4. writeFut' = writeFut => Tip' = Tip
      BY <2>9, SMTT(30) DEF Tip, SendTypes, SendCtl, PollWrite, SelectSendMode
    <3>5. Live' => Live /\ Tip' = Tip
      BY <2>2, <2>9, <3>4, ZenonT(40) DEF Tip, Live, SendTypes, SendCtl, PollWrite, SelectSendMode, SendHandle
    <3> QED BY <2>6, <3>1, <3>2, <3>3, <3>4, <3>5, Zenon
  <2>10. CASE AcceptLater
    <3>1. accepted' = accepted /\ writeFut' \in {writeFut, <<>>}
      BY <2>10, Zenon DEF AcceptLater
    <3>2. SendTypes'
      BY <2>2, <2>10, ZenonT(40) DEF SendTypes, flow, AcceptLater
    <3>3. SendCtl'
      BY <2>2, <2>10, SMTT(30) DEF SendTypes, SendCtl, AcceptLater
    <3>4. writeFut' = writeFut => Tip' = Tip
      BY <2>10, Zenon DEF Tip, SendTypes, SendCtl, AcceptLater
    <3>5. Live' => Live /\ Tip' = Tip
      BY <2>2, <2>10, <3>4, Zenon DEF Tip, Live, SendTypes, SendCtl, AcceptLater
    <3> QED BY <2>6, <3>1, <3>2, <3>3, <3>4, <3>5, Zenon
  <2>11. CASE PollShutdown
    <3>1. accepted' = accepted /\ writeFut' \in {writeFut, <<>>}
      BY <2>11, Zenon DEF PollShutdown
    <3>2. SendTypes'
      BY <2>2, <2>11, SMTT(30) DEF SendTypes, flow, PollShutdown, SelectSendMode
    <3>3. SendCtl'
      BY <2>2, <2>11, SMTT(30) DEF SendTypes, SendCtl, PollShutdown, SelectSendMode, SendHandle
    <3>4. writeFut' = writeFut => Tip' = Tip
      BY <2>11, SMTT(30) DEF Tip, SendTypes, SendCtl, PollShutdown, SelectSendMode
    <3>5. Live' => Live /\ Tip' = Tip
      BY <2>2, <2>11, <3>4, ZenonT(40) DEF Tip, Live, SendTypes, SendCtl, PollShutdown, SelectSendMode, SendHandle
    <3> QED BY <2>6, <3>1, <3>2, <3>3, <3>4, <3>5, Zenon
  <2>12. CASE FinStored
    <3>1. accepted' = accepted /\ writeFut' \in {writeFut, <<>>}
      BY <2>12, Zenon DEF FinStored
    <3>2. SendTypes'
      BY <2>2, <2>12, ZenonT(40) DEF SendTypes, flow, FinStored
    <3>3. SendCtl'
      BY <2>2, <2>12, SMTT(30) DEF SendTypes, SendCtl, FinStored
    <3>4. writeFut' = writeFut => Tip' = Tip
      BY <2>12, Zenon DEF Tip, SendTypes, SendCtl, FinStored
    <3>5. Live' => Live /\ Tip' = Tip
      BY <2>2, <2>12, <3>4, ZenonT(40) DEF Tip, Live, SendTypes, SendCtl, FinStored
    <3> QED BY <2>6, <3>1, <3>2, <3>3, <3>4, <3>5, Zenon
  <2>13. CASE QueueFails
    <3>1. accepted' = accepted /\ writeFut' \in {writeFut, <<>>}
      BY <2>13, Zenon DEF QueueFails
    <3>2. SendTypes'
      <4>1. writeFut' \in Seq(Nat)
        BY <2>13, SMTT(30) DEF QueueFails
      <4> QED BY <2>2, <2>13, <4>1, ZenonT(40) DEF SendTypes, flow, QueueFails
    <3>3. SendCtl'
      BY <2>2, <2>13, SMTT(30) DEF SendTypes, SendCtl, QueueFails
    <3>4. writeFut' = writeFut => Tip' = Tip
      BY <2>13, Zenon DEF Tip, SendTypes, SendCtl, QueueFails
    <3>5. Live' => Live /\ Tip' = Tip
      BY <2>2, <2>13, <3>4, ZenonT(40) DEF Tip, Live, SendTypes, SendCtl, QueueFails
    <3> QED BY <2>6, <3>1, <3>2, <3>3, <3>4, <3>5, Zenon
  <2>14. CASE DropSend
    <3>1. accepted' = accepted /\ writeFut' \in {writeFut, <<>>}
      BY <2>14, Zenon DEF DropSend
    <3>2. SendTypes'
      <4>1. writeFut' \in Seq(Nat)
        BY <2>14, SMTT(30) DEF DropSend
      <4> QED BY <2>2, <2>14, <4>1, ZenonT(40) DEF SendTypes, flow, DropSend
    <3>3. SendCtl'
      BY <2>2, <2>14, SMTT(30) DEF SendTypes, SendCtl, DropSend, SendHandle
    <3>4. writeFut' = writeFut => Tip' = Tip
      BY <2>14, Zenon DEF Tip, SendTypes, SendCtl, DropSend
    <3>5. Live' => Live /\ Tip' = Tip
      BY <2>2, <2>14, <3>4, Zenon DEF Tip, Live, SendTypes, SendCtl, DropSend, SendHandle
    <3> QED BY <2>6, <3>1, <3>2, <3>3, <3>4, <3>5, Zenon
  <2> QED BY <2>4, <2>5, <2>7, <2>8, <2>9, <2>10, <2>11, <2>12, <2>13, <2>14, ZenonT(40)
\* QueueChunkKeeps: so does enqueue_data of the call's bytes.
<1>QueueChunkKeeps.
    ASSUME SInv, QueueChunk PROVE SInv'
  <2> USE <1>QueueChunkKeeps
  <2> SendTypes /\ SendCtl /\ QueueForm /\ SendArith
    BY Zenon DEF SInv
  <2>1. PICK x \in Nat : SendChain(x)
    BY Zenon DEF SInv
  <2> DEFINE item == [data |-> writeFut, fin |-> FALSE]
             k == Len(writeFut)
  <2>2. /\ writeFut # <<>> /\ sendConn = "open" /\ ~sendTerminal /\ Len(queue) < QueueSlots
        /\ queue' = Append(queue, item) /\ writeFut' = <<>>
        /\ accepted' = IF sendMode = 1 THEN accepted + k ELSE accepted
        /\ UNCHANGED <<sendMode, finFut, shut, accepting, storing, sendGone,
                       resetOut, finQueued, sendTerminal, dispatched, resetQueued,
                       sent, connLimit, streamLimit, sendConn>>
    BY ZenonT(40) DEF QueueChunk, CanQueue, flow
  <2>3. /\ sendGone = "no" /\ sendMode \in {1, 2} /\ ~storing /\ ~finQueued /\ Live
        /\ ~resetQueued /\ ~dispatched
    BY <2>2, SMTT(30) DEF SendCtl, SendTypes, Live
  <2>4. /\ k \in Nat /\ item \in Item /\ queue \in Seq(Item) /\ Len(queue) \in Nat
        /\ item.data = writeFut /\ ~item.fin
    BY SMTT(30) DEF SendTypes, Item
  <2>5. x = Tip /\ Tip \in Nat /\ Tip + k <= MaxBytes /\ accepted <= MaxBytes /\ accepted \in Nat
    BY <2>1, <2>3, Zenon DEF SendChain, SendArith, SendTypes
  <2>6. accepted' = Tip + k /\ Tip' = Tip + k /\ accepted' \in Nat
    <3>1. CASE sendMode = 1
      BY <2>2, <2>4, <2>5, <3>1, SMTT(30) DEF Tip
    <3>2. CASE sendMode = 2
      <4>1. Tip = accepted - k /\ accepted' = accepted /\ Tip' = accepted - Len(<<>>) /\ Len(<<>>) = 0
        BY <2>2, <3>2, SMTT(30) DEF Tip
      <4> QED BY <2>4, <2>5, <4>1, SMTT(30)
    <3> QED BY <2>3, <3>1, <3>2, ZenonT(40)
  <2>7. queue' \in Seq(Item) /\ Len(queue') = Len(queue) + 1 /\ queue'[Len(queue) + 1] = item
        /\ \A i \in 1..Len(queue) : queue'[i] = queue[i]
    BY <2>2, <2>4, SMTT(30)
  <2>8. SendTypes'
    <3>1. writeFut' \in Seq(Nat) /\ Len(queue') <= QueueSlots
      BY <2>2, <2>4, <2>7, OutboundAssumption, SMTT(30)
    <3> QED BY <2>2, <2>6, <2>7, <3>1, SMTT(30) DEF SendTypes
  <2>9. SendCtl'
    BY <2>2, <2>3, ZenonT(40) DEF SendCtl
  <2>10. QueueForm'
    <3> SUFFICES ASSUME NEW i \in 1..Len(queue')
                 PROVE  IF queue'[i].fin
                        THEN i = Len(queue') /\ finQueued' /\ queue'[i].data = <<>>
                        ELSE queue'[i].data # <<>>
      BY Zenon DEF QueueForm
    <3>1. CASE i = Len(queue) + 1
      BY <2>2, <2>4, <2>7, <3>1, Zenon
    <3>2. CASE i \in 1..Len(queue)
      BY <2>3, <2>7, <3>2, ZenonT(40) DEF QueueForm
    <3> QED BY <2>4, <2>7, <3>1, <3>2, SMTT(30)
  <2>11. SendArith'
    <3>1. Len(writeFut') = 0 /\ writeFut' = <<>>
      BY <2>2, Zenon
    <3>2. Run(Tip', Tip' + 0) = <<>>
      BY <2>4, <2>5, <2>6, RunNone, ZenonT(40)
    <3> QED BY <2>2, <2>4, <2>5, <2>6, <3>1, <3>2, SMTT(30) DEF SendArith
  <2>12. PICK y \in Nat : y = Tip + k
    BY <2>4, <2>5, SMTT(30)
  <2>13. SendChain(y)'
    <3>1. writeFut = Run(x, y)
      BY <2>5, <2>12, ZenonT(40) DEF SendArith
    <3>2. Chain(Append(queue, item), sent, y)
      BY <2>1, <2>4, <2>5, <2>12, <3>1, ChainPut, SMTT(30) DEF SendChain
    <3>3. sent <= y
      BY <2>1, <2>4, <2>5, <2>12, SMTT(30) DEF SendChain, SendTypes
    <3> HIDE DEF item
    <3> QED BY <2>2, <2>3, <2>4, <2>5, <2>6, <2>12, <3>2, <3>3, SMTT(30) DEF SendChain
  <2> QED BY <2>8, <2>9, <2>10, <2>11, <2>13, ZenonT(40) DEF SInv
\* QueueFinKeeps: so does enqueue_data of the FIN.
<1>QueueFinKeeps.
    ASSUME SInv, QueueFin PROVE SInv'
  <2> USE <1>QueueFinKeeps
  <2> SendTypes /\ SendCtl /\ QueueForm /\ SendArith
    BY Zenon DEF SInv
  <2>1. PICK x \in Nat : SendChain(x)
    BY Zenon DEF SInv
  <2> DEFINE item == [data |-> <<>>, fin |-> TRUE]
  <2>2. /\ writeFut = <<>> /\ finFut /\ ~storing
        /\ sendConn = "open" /\ ~sendTerminal /\ Len(queue) < QueueSlots
        /\ queue' = Append(queue, item) /\ finQueued' /\ storing'
        /\ UNCHANGED <<sendMode, writeFut, finFut, shut, accepting, sendGone,
                       resetOut, sendTerminal, dispatched, resetQueued,
                       sent, connLimit, streamLimit, sendConn, accepted>>
        /\ finQueued' \in BOOLEAN /\ storing' \in BOOLEAN
    BY Zenon DEF QueueFin, CanQueue, flow
  <2>3. sendGone = "no" /\ ~finQueued /\ ~accepting /\ Live /\ ~resetQueued /\ ~dispatched
    BY <2>2, ZenonT(40) DEF SendCtl, SendTypes, Live
  <2>4. /\ item \in Item /\ queue \in Seq(Item) /\ Len(queue) \in Nat
        /\ item.data = <<>> /\ item.fin
    BY SMTT(30) DEF SendTypes, Item
  <2>5. x = Tip /\ Tip = accepted /\ accepted \in Nat
    <3>1. x = Tip /\ accepted \in Nat
      BY <2>1, <2>3, ZenonT(40) DEF SendChain, SendTypes
    <3> QED BY <2>2, <3>1, SMTT(30) DEF Tip
  <2>7. queue' \in Seq(Item) /\ Len(queue') = Len(queue) + 1 /\ queue'[Len(queue) + 1] = item
        /\ \A i \in 1..Len(queue) : queue'[i] = queue[i]
    BY <2>2, <2>4, SMTT(30)
  <2>8. SendTypes'
    <3>1. Len(queue') <= QueueSlots
      BY <2>2, <2>4, <2>7, OutboundAssumption, SMTT(30)
    <3> QED BY <2>2, <2>7, <3>1, ZenonT(40) DEF SendTypes
  <2>9. SendCtl'
    BY <2>2, <2>3, ZenonT(40) DEF SendCtl
  <2>10. QueueForm'
    <3> SUFFICES ASSUME NEW i \in 1..Len(queue')
                 PROVE  IF queue'[i].fin
                        THEN i = Len(queue') /\ finQueued' /\ queue'[i].data = <<>>
                        ELSE queue'[i].data # <<>>
      BY Zenon DEF QueueForm
    <3>1. CASE i = Len(queue) + 1
      BY <2>2, <2>4, <2>7, <3>1, ZenonT(40)
    <3>2. CASE i \in 1..Len(queue)
      BY <2>3, <2>7, <3>2, ZenonT(40) DEF QueueForm
    <3> QED BY <2>4, <2>7, <3>1, <3>2, SMTT(30)
  <2>6. Tip' = Tip
    BY <2>2, Zenon DEF Tip
  <2>11. SendArith'
    BY <2>2, <2>6, Zenon DEF SendArith
  <2>12. SendChain(x)'
    <3>1. Run(x, x) = <<>>
      BY RunNone, ZenonT(40)
    <3>2. Chain(Append(queue, item), sent, x)
      BY <2>1, <2>4, <3>1, ChainPut, SMTT(30) DEF SendChain
    <3> HIDE DEF item
    <3> QED BY <2>1, <2>2, <2>5, <2>6, <3>2, Zenon DEF SendChain
  <2> QED BY <2>8, <2>9, <2>10, <2>11, <2>12, ZenonT(40) DEF SInv
\* ResetsKeep: SendStream::reset and the cleanup of a dropped handle keep the sender's
\* invariant.
<1>ResetsKeep.
    ASSUME SInv, ResetApi \/ CleanSend PROVE SInv'
  <2> USE <1>ResetsKeep
  <2> SendTypes /\ SendCtl
    BY Zenon DEF SInv
  <2>1. CASE ResetApi
    BY <2>1, ResetStreamKeeps, Zenon DEF ResetApi, calls, SendTypes
  <2>2. CASE CleanSend
    <3>1. /\ sendGone = "dropped" /\ sendGone' = "cleaned"
          /\ ~(writeFut # <<>> \/ finFut \/ accepting)
          /\ UNCHANGED <<sendMode, writeFut, finFut, shut, accepting, storing,
                         finQueued, dispatched, flow, sendConn, accepted>>
      BY <2>2, ZenonT(40) DEF CleanSend, SendCtl
    <3>2. CASE ResetStream
      BY <3>1, <3>2, ResetStreamKeeps, Zenon
    <3>3. CASE UNCHANGED <<resetQueued, sendTerminal, resetOut, queue>>
      <4>1. PICK x \in Nat : SendChain(x)
        BY Zenon DEF SInv
      <4>2. SendTypes'
        BY <3>1, <3>3, ZenonT(40) DEF SendTypes, flow
      <4>3. SendCtl'
        BY <3>1, <3>3, Zenon DEF SendCtl
      <4>4. QueueForm'
        BY <3>1, <3>3, Zenon DEF SInv, QueueForm
      <4>5. SendArith'
        BY <3>1, <3>3, Zenon DEF SInv, SendArith, Tip, flow
      <4>6. SendChain(x)'
        BY <4>1, <3>1, <3>3, Zenon DEF SendChain, Live, Tip, flow
      <4> QED BY <4>2, <4>3, <4>4, <4>5, <4>6, Zenon DEF SInv
    <3> QED BY <2>2, <3>2, <3>3, Zenon DEF CleanSend
  <2> QED BY <2>1, <2>2, Zenon
<1> /\ SInv /\ WireInv /\ CreditInv
    /\ RecvTypes /\ RecvCtl /\ AccountInv /\ ReadInv /\ NotifyInv
  BY Zenon DEF PInv
<1>1. UNCHANGED <<wire, back>> /\ UNCHANGED inVars
  BY Zenon DEF Sender
<1>2. \A n \in Sizes : n \in Nat \ {0}
  BY SMTT(30) DEF Sizes
<1>3. \/ \E n \in Nat \ {0} : WriteChunk(n) \/ AcceptBytes(n)
      \/ Finish \/ CancelCall \/ PollWrite \/ AcceptLater \/ PollShutdown
      \/ FinStored \/ QueueFails \/ DropSend \/ QueueChunk \/ QueueFin
      \/ ResetApi \/ CleanSend \/ CloseGracefully
  BY <1>2, Zenon DEF Sender
<1>4. SInv'
  BY <1>3, <1>CallsKeep, <1>QueueChunkKeeps, <1>QueueFinKeeps, <1>ResetsKeep, QuietKeeps, Zenon
<1>5. Grows /\ sent' = sent
  BY <1>3, SenderGrows, Zenon
<1>6. WireInv'
  BY <1>1, <1>5, WireKeeps, Zenon
<1>7. CreditInv'
  BY <1>1, <1>5, CreditSame, Zenon DEF Grows
<1> QED BY <1>1, <1>4, <1>6, <1>7, InSame, Zenon DEF PInv

\* TransmitKeeps: the writer takes a frame with next_frame and sends it.
LEMMA TransmitKeeps == ASSUME PInv, Transmit PROVE PInv'
\* SendDataKeeps: next_frame takes the next bytes within the credit, or the FIN after
\* the last of them.
<1>SendDataKeeps.
    ASSUME SInv, SendData
    PROVE  /\ SInv'
           /\ DataFrame \in Frames /\ DataFrame.type = "stream"
           /\ sent \in Nat /\ sent' \in Nat /\ sent <= sent' /\ DataFrame.data = Run(sent, sent')
           /\ DataFrame.fin = (DataFrame.data = <<>>)
           /\ DataFrame.fin => dispatched'
           /\ ~resetQueued /\ ~dispatched /\ sendConn # "ended"
           /\ UNCHANGED <<resetQueued, resetOut, sendConn, connLimit, streamLimit>>
  <2> USE <1>SendDataKeeps
  \* SmallestIs: the payload of a frame is within each of its four bounds.
  <2>SmallestIs.
      ASSUME NEW a \in Nat, NEW b \in Nat, NEW c \in Nat, NEW d \in Nat
      PROVE  LET m == Smallest({a, b, c, d})
             IN m \in {a, b, c, d} /\ m <= a /\ m <= b /\ m <= c /\ m <= d
    <3> USE <2>SmallestIs
    <3>1. \E x \in {a, b, c, d} : \A y \in {a, b, c, d} : x <= y
      <4>1. \E x \in {a, b} : x <= a /\ x <= b
        BY SMTT(30)
      <4>2. \E x \in {c, d} : x <= c /\ x <= d
        BY SMTT(30)
      <4> QED BY <4>1, <4>2, SMTT(30)
    <3> QED BY <3>1, Zenon DEF Smallest
  \* ChainCons: push_front of what next_frame leaves of the first chunk.
  <2>ChainCons.
      ASSUME NEW S, NEW segs \in Seq(S), NEW a \in Nat, NEW m, NEW b,
             a <= m, Chain(segs, m, b), NEW e \in S, e.data = Run(a, m)
      PROVE  Chain(<<e>> \o segs, a, b)
    <3> USE <2>ChainCons
    <3> DEFINE n == Len(segs)
               t == <<e>> \o segs
    <3>1. /\ n \in Nat /\ Len(t) = n + 1 /\ t[1] = e
          /\ \A i \in 2..(n + 1) : t[i] = segs[i - 1]
      BY SMTT(30)
    <3>2. PICK cut \in [0..n -> Nat] :
            /\ cut[0] = m /\ cut[n] = b
            /\ \A i, j \in 0..n : i <= j => cut[i] <= cut[j]
            /\ \A i \in 1..n : segs[i].data = Run(cut[i - 1], cut[i])
      BY Zenon DEF Chain
    <3> HIDE DEF n, t
    <3> DEFINE d == [i \in 0..(n + 1) |-> IF i = 0 THEN a ELSE cut[i - 1]]
    <3>3. d \in [0..(n + 1) -> Nat] /\ d[0] = a /\ \A i \in 1..(n + 1) : d[i] = cut[i - 1]
      BY <3>1, SMTT(30)
    <3> HIDE DEF d
    <3>4. \A i \in 0..n : a <= cut[i] /\ cut[i] \in Nat
      BY <3>1, <3>2, SMTT(30)
    <3>5. ASSUME NEW i \in 0..(n + 1), NEW j \in 0..(n + 1), i <= j PROVE d[i] <= d[j]
      <4>1. CASE i # 0
        <5>1. i - 1 \in 0..n /\ j - 1 \in 0..n /\ i - 1 <= j - 1
          BY <3>1, <3>5, <4>1, SMTT(30)
        <5>2. d[i] = cut[i - 1] /\ d[j] = cut[j - 1]
          BY <3>1, <3>3, <3>5, <4>1, SMTT(30)
        <5> QED BY <3>2, <5>1, <5>2, ZenonT(40)
      <4>2. CASE i = 0
        <5>1. CASE j = 0
          BY <3>3, <4>2, <5>1, SMTT(30)
        <5>2. CASE j # 0
          <6>1. j - 1 \in 0..n /\ d[j] = cut[j - 1]
            BY <3>1, <3>3, <5>2, SMTT(30)
          <6> QED BY <3>3, <3>4, <4>2, <6>1, ZenonT(40)
        <5> QED BY <5>1, <5>2, ZenonT(40)
      <4> QED BY <4>1, <4>2, Zenon
    <3>6. ASSUME NEW i \in 1..(n + 1) PROVE t[i].data = Run(d[i - 1], d[i])
      <4>1. CASE i = 1
        <5>1. d[1] = m /\ d[0] = a
          BY <3>1, <3>2, <3>3, SMTT(30)
        <5> QED BY <3>1, <4>1, <5>1, SMTT(30)
      <4>2. CASE i # 1
        <5>0. i \in 2..(n + 1) /\ i - 1 \in 1..n /\ i - 1 \in 1..(n + 1)
          BY <3>1, <4>2, SMTT(30)
        <5>1. d[i - 1] = cut[(i - 1) - 1] /\ d[i] = cut[i - 1] /\ t[i] = segs[i - 1] /\ i - 1 \in 1..n
          BY <3>1, <3>3, <5>0, ZenonT(40)
        <5> QED BY <3>2, <5>1, ZenonT(40)
      <4> QED BY <4>1, <4>2, ZenonT(40)
    <3>7. d[n + 1] = b
      BY <3>1, <3>2, <3>3, SMTT(30)
    <3>8. Chain(t, a, b)
      BY <3>1, <3>3, <3>5, <3>6, <3>7, ZenonT(40) DEF Chain
    <3> QED BY <3>8, ZenonT(40) DEF t
  <2> SendTypes /\ SendCtl /\ QueueForm /\ SendArith
    BY Zenon DEF SInv
  <2>1. PICK x \in Nat : SendChain(x)
    BY Zenon DEF SInv
  <2> DEFINE h == Head(queue)
             rest == SubSeq(h.data, Count + 1, Len(h.data))
  <2>2. /\ queue # <<>> /\ (Count > 0 \/ h.data = <<>>)
        /\ queue' = IF rest = <<>> THEN Tail(queue)
                    ELSE <<[data |-> rest, fin |-> h.fin]>> \o Tail(queue)
        /\ sent' = sent + Count /\ dispatched' = (dispatched \/ DataFrame.fin)
        /\ UNCHANGED <<sendMode, writeFut, finFut, shut, accepting, storing, sendGone,
                       resetOut, finQueued, sendTerminal, resetQueued, connLimit,
                       streamLimit, sendConn, accepted>>
    BY Zenon DEF SendData, calls
  <2>3. ~resetQueued /\ ~dispatched /\ sendConn # "ended"
    BY <2>2, ZenonT(40) DEF SendCtl
  <2>4. /\ queue \in Seq(Item) /\ Tail(queue) \in Seq(Item) /\ h \in Item
        /\ Len(queue) \in Nat \ {0} /\ h = queue[1] /\ Len(Tail(queue)) = Len(queue) - 1
        /\ \A i \in 1..Len(Tail(queue)) : Tail(queue)[i] = queue[i + 1]
    BY <2>2, SMTT(30) DEF SendTypes
  <2>5. /\ h.data \in Seq(Nat) /\ h.fin \in BOOLEAN /\ Len(h.data) \in Nat
        /\ (h.data = <<>> <=> Len(h.data) = 0)
    BY <2>4, SMTT(30) DEF Item
  <2>6. /\ sent \in Nat /\ accepted \in Nat /\ connLimit \in Nat /\ streamLimit \in Nat
        /\ sent <= connLimit /\ sent <= streamLimit /\ sent <= x /\ x <= accepted
        /\ Chain(queue, sent, x)
    BY <2>1, Zenon DEF SendTypes, SendArith, SendChain
  <2>a. /\ 1 \in 1..Len(queue)
        /\ IF h.fin THEN 1 = Len(queue) /\ finQueued /\ h.data = <<>> ELSE h.data # <<>>
    <3>1. 1 \in 1..Len(queue)
      BY <2>4, SMTT(30)
    <3>2. IF queue[1].fin THEN 1 = Len(queue) /\ finQueued /\ queue[1].data = <<>>
                          ELSE queue[1].data # <<>>
      BY <3>1, Zenon DEF QueueForm
    <3> QED BY <2>4, <3>1, <3>2, Zenon
  <2> HIDE DEF h, rest
  <2>7. /\ Count \in Nat /\ Count <= Len(h.data)
        /\ Count <= connLimit - sent /\ Count <= streamLimit - sent
    <3> DEFINE b == connLimit - sent
               c == streamLimit - sent
    <3>1. b \in Nat /\ c \in Nat /\ FrameCapacity \in Nat
      BY <2>6, OutboundAssumption, SMTT(30)
    <3> HIDE DEF b, c
    <3>2. /\ Smallest({Len(h.data), FrameCapacity, b, c}) \in {Len(h.data), FrameCapacity, b, c}
          /\ Smallest({Len(h.data), FrameCapacity, b, c}) <= Len(h.data)
          /\ Smallest({Len(h.data), FrameCapacity, b, c}) <= b
          /\ Smallest({Len(h.data), FrameCapacity, b, c}) <= c
      BY <2>5, <3>1, <2>SmallestIs, ZenonT(40)
    <3>3. Count = Smallest({Len(h.data), FrameCapacity, b, c})
      BY Zenon DEF Count, b, c, h
    <3>4. Count \in Nat /\ Count <= Len(h.data) /\ Count <= b /\ Count <= c
      BY <2>5, <3>1, <3>2, <3>3, Zenon
    <3> QED BY <3>4, ZenonT(40) DEF b, c
  <2>8. PICK m \in Nat : /\ sent <= m /\ m <= x /\ h.data = Run(sent, m)
                         /\ Chain(Tail(queue), m, x)
    BY <2>2, <2>4, <2>6, ChainTake, Zenon DEF h
  <2>9. Len(h.data) = m - sent
    BY <2>6, <2>8, RunLen, ZenonT(40)
  <2>10. PICK z \in Nat : z = sent + Count
    BY <2>6, <2>7, SMTT(30)
  <2>11. /\ sent' = z /\ sent <= z /\ z <= m /\ Count = z - sent /\ m \in Nat
         /\ z <= connLimit /\ z <= streamLimit
    <3>1. sent \in Nat /\ m \in Nat /\ connLimit \in Nat /\ streamLimit \in Nat /\ sent <= m
      BY <2>6, <2>8, Zenon
    <3>2. Count <= m - sent
      BY <2>7, <2>9, Zenon
    <3> QED BY <2>2, <2>7, <2>10, <3>1, <3>2, SMTT(30)
  <2>12. /\ SubSeq(h.data, 1, Count) = Run(sent, z) /\ rest = Run(z, m)
    <3>0. sent \in Nat /\ z \in Nat /\ m \in Nat /\ sent <= z /\ z <= m
      BY <2>6, <2>11, Zenon
    <3>1. SubSeq(Run(sent, m), 1, z - sent) = Run(sent, z)
      BY <3>0, RunPrefix, Zenon
    <3>2. SubSeq(Run(sent, m), z - sent + 1, m - sent) = Run(z, m)
      BY <3>0, RunSuffix, ZenonT(40)
    <3> QED BY <2>8, <2>9, <2>11, <3>1, <3>2, ZenonT(40) DEF rest
  <2>13. /\ Run(sent, z) \in Seq(Nat) /\ Len(Run(sent, z)) = z - sent
         /\ Run(z, m) \in Seq(Nat) /\ Len(Run(z, m)) = m - z
    BY <2>6, <2>11, RunLen, Zenon
  <2>14. rest = <<>> <=> z = m
    <3>1. rest = <<>> <=> m - z = 0
      BY <2>12, <2>13, EmptyLen, Zenon
    <3> QED BY <2>11, <3>1, SMTT(30)
  <2>15. h.fin => h.data = <<>> /\ Len(queue) = 1 /\ finQueued
    BY <2>a, Zenon
  <2>16. ~h.fin => h.data # <<>> /\ z # sent
    <3>1. ~h.fin => h.data # <<>>
      BY <2>a, Zenon
    <3>2. ~h.fin => Count > 0
      BY <2>2, <3>1, ZenonT(40)
    <3>3. Count > 0 => z # sent
      BY <2>6, <2>7, <2>10, SMTT(30)
    <3> QED BY <3>1, <3>2, <3>3, Zenon
  <2>17. /\ DataFrame \in Frames /\ DataFrame.type = "stream" /\ DataFrame.data = Run(sent, z)
         /\ DataFrame.fin = h.fin
    <3>1. DataFrame.type = "stream" /\ DataFrame.data = Run(sent, z)
          /\ DataFrame.fin = (h.fin /\ Count = Len(h.data))
      BY <2>12, ZenonT(40) DEF DataFrame, h
    <3>2. h.fin => Count = Len(h.data)
      BY <2>5, <2>7, <2>15, SMTT(30)
    <3>3. DataFrame.fin = h.fin
      BY <2>5, <3>1, <3>2, Zenon
    <3>4. DataFrame = [type |-> "stream", data |-> Run(sent, z),
                       fin |-> (h.fin /\ Count = Len(h.data))]
      BY <2>12, Zenon DEF DataFrame, h
    <3> QED BY <2>13, <3>1, <3>3, <3>4, Zenon DEF Frames
  <2>18. DataFrame.fin = (DataFrame.data = <<>>)
    <3>1. h.fin => Run(sent, z) = <<>>
      <4>1. h.fin => z = sent
        BY <2>5, <2>6, <2>7, <2>11, <2>15, SMTT(30)
      <4> QED BY <2>6, <4>1, RunNone, ZenonT(40)
    <3>2. ~h.fin => Run(sent, z) # <<>>
      <4>1. Run(sent, z) = <<>> => z - sent = 0
        BY <2>13, EmptyLen, Zenon
      <4> QED BY <2>6, <2>11, <2>16, <4>1, SMTT(30)
    <3> QED BY <2>5, <2>17, <3>1, <3>2, Zenon
  <2>19. dispatched' = h.fin
    BY <2>2, <2>3, <2>5, <2>17, Zenon DEF SendTypes
  <2>20. ASSUME rest = <<>> PROVE SInv'
    <3>1. queue' = Tail(queue) /\ z = m
      BY <2>2, <2>14, <2>20, ZenonT(40)
    <3>2. SendTypes'
      <4>1. queue' \in Seq(Item) /\ Len(queue') <= QueueSlots
        BY <2>4, <3>1, OutboundAssumption, SMTT(30) DEF SendTypes
      <4> QED BY <2>2, <2>5, <2>11, <2>19, <4>1, SMTT(30) DEF SendTypes
    <3>3. h.fin => queue' = <<>>
      BY <2>4, <2>15, <3>1, SMTT(30)
    <3>4. SendCtl'
      BY <2>2, <2>3, <2>15, <2>19, <3>3, Zenon DEF SendCtl
    <3>5. QueueForm'
      <4> SUFFICES ASSUME NEW i \in 1..Len(queue')
                   PROVE  IF queue'[i].fin
                          THEN i = Len(queue') /\ finQueued' /\ queue'[i].data = <<>>
                          ELSE queue'[i].data # <<>>
        BY ZenonT(40) DEF QueueForm
      <4>1. i + 1 \in 1..Len(queue) /\ queue'[i] = queue[i + 1] /\ Len(queue') = Len(queue) - 1
        BY <2>4, <3>1, SMTT(30)
      <4>2. IF queue[i + 1].fin THEN i + 1 = Len(queue) /\ finQueued /\ queue[i + 1].data = <<>>
                                ELSE queue[i + 1].data # <<>>
        BY <4>1, ZenonT(40) DEF QueueForm
      <4>3. i \in Nat /\ Len(queue) \in Nat
        BY <2>4, <4>1, SMTT(30)
      <4>4. i + 1 = Len(queue) => i = Len(queue')
        BY <4>1, <4>3, SMTT(30)
      <4> QED BY <2>2, <4>1, <4>2, <4>4, Zenon
    <3>6. SendChain(x)'
      <4>1. h.fin => x = accepted
        BY <2>1, <2>3, <2>15, Zenon DEF SendChain
      <4>2. (Live' => Live) /\ Tip' = Tip
        BY <2>2, Zenon DEF Live, Tip
      <4> QED BY <2>1, <2>2, <2>6, <2>8, <2>11, <2>19, <3>1, <4>1, <4>2, ZenonT(40) DEF SendChain
    <3>7. SendArith'
      <4>1. Tip' = Tip
        BY <2>2, ZenonT(40) DEF Tip
      <4> QED BY <2>2, <2>11, <4>1, Zenon DEF SendArith
    <3> QED BY <3>2, <3>4, <3>5, <3>6, <3>7, Zenon DEF SInv
  <2>21. ASSUME rest # <<>> PROVE SInv'
    <3> DEFINE e == [data |-> rest, fin |-> h.fin]
               q == <<e>> \o Tail(queue)
    <3>1. queue' = q
      BY <2>2, <2>21, Zenon
    <3>2. ~h.fin
      <4>1. h.fin => m - sent = 0
        BY <2>5, <2>9, <2>15, ZenonT(40)
      <4>2. h.fin => z = m
        BY <2>6, <2>11, <4>1, SMTT(30)
      <4> QED BY <2>14, <2>21, <4>2, Zenon
    <3>3. e \in Item /\ e.data = rest /\ e.fin = h.fin
      BY <2>5, <2>12, <2>13, ZenonT(40) DEF Item
    <3> HIDE DEF e
    <3>4. /\ q \in Seq(Item) /\ Len(q) = Len(queue) /\ q[1] = e
          /\ \A i \in 2..Len(queue) : q[i] = queue[i]
      BY <2>4, <3>3, SMTT(30)
    <3> HIDE DEF q
    <3>5. SendTypes'
      <4>1. queue' \in Seq(Item) /\ Len(queue') <= QueueSlots
        BY <3>1, <3>4, Zenon DEF SendTypes
      <4> QED BY <2>2, <2>5, <2>11, <2>19, <4>1, ZenonT(40) DEF SendTypes
    <3>6. SendCtl'
      BY <2>2, <2>3, <2>19, <3>2, Zenon DEF SendCtl
    <3>7. QueueForm'
      <4> SUFFICES ASSUME NEW i \in 1..Len(queue')
                   PROVE  IF queue'[i].fin
                          THEN i = Len(queue') /\ finQueued' /\ queue'[i].data = <<>>
                          ELSE queue'[i].data # <<>>
        BY Zenon DEF QueueForm
      <4>1. CASE i = 1
        BY <2>21, <3>1, <3>2, <3>3, <3>4, <4>1, Zenon
      <4>2. CASE i \in 2..Len(queue)
        BY <2>2, <3>1, <3>4, <4>2, Zenon DEF QueueForm
      <4>3. i = 1 \/ i \in 2..Len(queue)
        <5>1. Len(queue) \in Nat /\ i \in 1..Len(queue)
          BY <2>4, <3>1, <3>4, Zenon
        <5> QED BY <5>1, SMTT(30)
      <4> QED BY <4>1, <4>2, <4>3, Zenon
    <3>8. SendChain(x)'
      <4>1. Chain(q, z, x)
        <5>1. e.data = Run(z, m)
          BY <2>12, <3>3, ZenonT(40)
        <5> QED BY <2>4, <2>8, <2>11, <3>3, <5>1, <2>ChainCons, ZenonT(40) DEF q
      <4>2. (Live' => Live) /\ Tip' = Tip
        BY <2>2, Zenon DEF Live, Tip
      <4>3. z <= x
        BY <2>8, <2>11, SMTT(30)
      <4> QED BY <2>1, <2>2, <2>6, <2>11, <2>19, <3>1, <3>2, <4>1, <4>2, <4>3, Zenon DEF SendChain
    <3>9. SendArith'
      <4>1. Tip' = Tip
        BY <2>2, Zenon DEF Tip
      <4> QED BY <2>2, <2>11, <4>1, Zenon DEF SendArith
    <3> QED BY <3>5, <3>6, <3>7, <3>8, <3>9, Zenon DEF SInv
  <2>22. SInv'
    BY <2>20, <2>21, Zenon
  <2> QED BY <2>2, <2>3, <2>5, <2>6, <2>11, <2>17, <2>18, <2>19, <2>22, ZenonT(40)
<1> /\ SInv /\ WireInv /\ CreditInv /\ SendTypes /\ SendCtl
    /\ RecvTypes /\ RecvCtl /\ AccountInv /\ ReadInv /\ NotifyInv
  BY Zenon DEF PInv, SInv
<1>1. UNCHANGED back /\ UNCHANGED inVars
  BY Zenon DEF Transmit, Put
<1>2. received \in Nat
  BY Zenon DEF CreditInv
<1>3. ASSUME SendData, Put(DataFrame) PROVE SInv' /\ WireInv' /\ CreditInv'
  <2>1. /\ SInv'
        /\ DataFrame \in Frames /\ DataFrame.type = "stream"
        /\ sent \in Nat /\ sent' \in Nat /\ sent <= sent' /\ DataFrame.data = Run(sent, sent')
        /\ DataFrame.fin = (DataFrame.data = <<>>)
        /\ DataFrame.fin => dispatched'
        /\ ~resetQueued /\ ~dispatched /\ sendConn # "ended"
        /\ UNCHANGED <<resetQueued, resetOut, sendConn, connLimit, streamLimit>>
    BY <1>3, <1>SendDataKeeps, Zenon
  <2>2. ~RecvEnded /\ \A i \in 1..Len(wire) : ~Final(wire[i])
    BY <2>1, Zenon DEF WireInv, Final
  <2>3. Grows
    BY <2>1, Zenon DEF Grows
  <2>4. wire' = Append(wire, DataFrame)
    BY <1>3, Zenon DEF Put
  <2>5. PICK f \in Frames : f = DataFrame
    BY <2>1, Zenon
  <2>6. WireInv'
    BY <1>1, <1>2, <2>1, <2>2, <2>3, <2>4, <2>5, PutKeeps, ZenonT(40)
  <2>7. CreditInv'
    BY <1>1, <2>1, CreditSame, Zenon
  <2> QED BY <2>1, <2>6, <2>7, Zenon
<1>4. ASSUME SendReset, Put(ResetFrame) PROVE SInv' /\ WireInv' /\ CreditInv'
  <2>1. SInv'
    BY <1>4, QuietKeeps, Zenon
  <2>2. /\ resetOut /\ ~resetOut' /\ wire' = Append(wire, ResetFrame)
        /\ UNCHANGED <<resetQueued, dispatched, sendConn, connLimit, streamLimit, sent>>
    BY <1>4, Zenon DEF SendReset, Put, flow
  <2>3. resetQueued /\ ~dispatched /\ sendConn # "ended" /\ sent \in Nat
    BY <2>2, Zenon DEF SendCtl, SendTypes
  <2>4. ~RecvEnded /\ \A i \in 1..Len(wire) : ~Final(wire[i])
    BY <2>2, <2>3, Zenon DEF WireInv, Final
  <2>5. Grows
    BY <2>2, ZenonT(40) DEF Grows
  <2>6. /\ ResetFrame \in Frames /\ ResetFrame.type = "reset" /\ ResetFrame.data = <<>>
        /\ ~ResetFrame.fin
    BY SMTT(30) DEF ResetFrame, Frames
  <2>7. Run(sent, sent') = <<>> /\ sent <= sent'
    BY <2>2, <2>3, RunNone, SMTT(30)
  <2>8. PICK f \in Frames : f = ResetFrame
    BY <2>6, Zenon
  <2>9. WireInv'
    BY <1>1, <1>2, <2>2, <2>3, <2>4, <2>5, <2>6, <2>7, <2>8, PutKeeps, ZenonT(40)
  <2>10. CreditInv'
    BY <1>1, <2>2, CreditSame, Zenon
  <2> QED BY <2>1, <2>9, <2>10, ZenonT(40)
<1>5. SInv' /\ WireInv' /\ CreditInv'
  BY <1>3, <1>4, Zenon DEF Transmit
<1> QED BY <1>1, <1>5, InSame, Zenon DEF PInv

\* ClosePuts: CLOSE is the last frame of the transport.
LEMMA ClosePuts ==
  ASSUME SInv, WireInv, received \in Nat, ConnectionEnds,
         wire' = Append(wire, CloseFrame), UNCHANGED inVars
  PROVE  WireInv'
<1>1. Grows /\ sent' = sent /\ sendConn # "ended" /\ sendConn' = "ended"
  BY SenderGrows, ZenonT(40) DEF ConnectionEnds
<1>2. /\ CloseFrame \in Frames /\ CloseFrame.type = "close" /\ CloseFrame.data = <<>>
      /\ ~CloseFrame.fin
  BY SMTT(30) DEF CloseFrame, Frames
<1>3. sent \in Nat
  BY Zenon DEF SInv, SendTypes
<1>4. Run(sent, sent') = <<>> /\ sent <= sent' /\ sent' \in Nat
  BY <1>1, <1>3, RunNone, SMTT(30)
<1>5. PICK f \in Frames : f = CloseFrame
  BY <1>2, Zenon
<1> QED BY <1>1, <1>2, <1>3, <1>4, <1>5, PutKeeps, Zenon

\* CloseKeeps: the sender's connection ends, with a CLOSE or without.
LEMMA CloseKeeps == ASSUME PInv, TransmitClose \/ SenderLost PROVE PInv'
<1> /\ SInv /\ WireInv /\ CreditInv
    /\ RecvTypes /\ RecvCtl /\ AccountInv /\ ReadInv /\ NotifyInv
  BY Zenon DEF PInv
<1>1. /\ UNCHANGED back /\ UNCHANGED inVars /\ ConnectionEnds
      /\ wire' = Append(wire, CloseFrame)
  BY Zenon DEF TransmitClose, SenderLost, Put
<1>2. SInv'
  BY <1>1, EndsKeep, Zenon
<1>3. WireInv'
  BY <1>1, ClosePuts, Zenon DEF CreditInv
<1>4. CreditInv'
  BY <1>1, CreditSame, Zenon DEF ConnectionEnds, flow
<1> QED BY <1>1, <1>2, <1>3, <1>4, InSame, ZenonT(40) DEF PInv

\* ReturnKeeps: the sender's reader handles MAX_DATA, MAX_STREAM_DATA and STOP_SENDING.
LEMMA ReturnKeeps == ASSUME PInv, Return PROVE PInv'
\* CreditKeeps: MAX_DATA and MAX_STREAM_DATA only raise the sender's limits.
<1>CreditKeeps.
    ASSUME SInv, NEW m \in Nat, RecvMaxData(m) \/ RecvMaxStreamData(m)
    PROVE  SInv'
  <2> USE <1>CreditKeeps
  <2> SendTypes /\ SendCtl /\ SendArith
    BY ZenonT(40) DEF SInv
  <2>1. /\ UNCHANGED <<sendMode, writeFut, finFut, shut, accepting, storing, finQueued,
                       dispatched, sent, accepted, sendTerminal, resetQueued, sendGone,
                       queue, resetOut, sendConn>>
        /\ connLimit' \in {connLimit, m} /\ connLimit' >= connLimit
        /\ streamLimit' \in {streamLimit, m} /\ streamLimit' >= streamLimit
    BY SMTT(30) DEF RecvMaxData, RecvMaxStreamData, calls, flow, SendTypes
  <2>2. PICK x \in Nat : SendChain(x)
    BY Zenon DEF SInv
  <2>3. SendTypes'
    BY <2>1, SMTT(30) DEF SendTypes
  <2>4. SendCtl'
    BY <2>1, Zenon DEF SendCtl
  <2>5. QueueForm'
    BY <2>1, Zenon DEF SInv, QueueForm
  <2>6. SendArith'
    <3>1. Tip' = Tip
      BY <2>1, Zenon DEF Tip
    <3>2. /\ sent \in Nat /\ connLimit \in Nat /\ streamLimit \in Nat
          /\ connLimit' \in Nat /\ streamLimit' \in Nat
      BY <2>1, ZenonT(40) DEF SendTypes
    <3>3. sent' <= connLimit' /\ sent' <= streamLimit'
      BY <2>1, <3>2, SMTT(30) DEF SendArith
    <3> QED BY <2>1, <3>1, <3>3, ZenonT(40) DEF SendArith
  <2>7. SendChain(x)'
    BY <2>1, <2>2, Zenon DEF SendChain, Live, Tip
  <2> QED BY <2>3, <2>4, <2>5, <2>6, <2>7, ZenonT(40) DEF SInv
\* StopKeeps: STOP_SENDING resets the direction or finds it ended.
<1>StopKeeps.
    ASSUME SInv, RecvStop PROVE SInv'
  <2> USE <1>StopKeeps
  <2> SendTypes /\ SendCtl
    BY Zenon DEF SInv
  <2>1. CASE ConnectionEnds
    BY <2>1, EndsKeep, Zenon
  <2>2. CASE ResetStream /\ UNCHANGED <<calls, finQueued, dispatched, flow, sendConn, accepted>>
    BY <2>2, ResetStreamKeeps, Zenon DEF calls, SendTypes, SendCtl
  <2>3. CASE UNCHANGED outVars
    BY <2>3, SendSame, Zenon
  <2> QED BY <2>1, <2>2, <2>3, Zenon DEF RecvStop, outVars, calls, flow
<1> /\ SInv /\ WireInv /\ CreditInv /\ SendTypes
    /\ RecvTypes /\ RecvCtl /\ AccountInv /\ ReadInv /\ NotifyInv
  BY Zenon DEF PInv, SInv
<1> DEFINE m == Head(back)
           B == [type : {"data", "stream", "stop"}, max : Nat]
<1>1. /\ UNCHANGED inVars /\ back # <<>> /\ back' = Tail(back)
      /\ wire' = IF sendConn # "ended" /\ sendConn' = "ended"
                 THEN Append(wire, CloseFrame) ELSE wire
      /\ \/ sendConn = "ended" /\ UNCHANGED outVars
         \/ m.type = "data" /\ RecvMaxData(m.max)
         \/ m.type = "stream" /\ RecvMaxStreamData(m.max)
         \/ m.type = "stop" /\ RecvStop
  BY Zenon DEF Return
<1>2. /\ back \in Seq(B) /\ Len(back) \in Nat \ {0} /\ m \in B /\ m = back[1]
      /\ Tail(back) \in Seq(B) /\ Len(Tail(back)) = Len(back) - 1
      /\ \A i \in 1..Len(Tail(back)) : i + 1 \in 1..Len(back) /\ Tail(back)[i] = back[i + 1]
  <2>1. back \in Seq(B)
    BY ZenonT(40) DEF CreditInv
  <2> HIDE DEF B
  <2> QED BY <1>1, <2>1, HeadAndTail, Zenon
<1>3. m.max \in Nat /\ 1 \in 1..Len(back)
  BY <1>2, SMTT(30)
<1>4. (m.type = "data" => m.max <= grantedC) /\ (m.type = "stream" => m.max <= grantedS)
  BY <1>2, <1>3, Zenon DEF CreditInv
<1>5. UNCHANGED <<grantedC, grantedS, consumedC, consumedS, received>>
  BY <1>1, InSame, Zenon
<1> HIDE DEF m, B
<1>6. ASSUME connLimit' <= grantedC, streamLimit' <= grantedS PROVE CreditInv'
  <2>1. back' \in Seq([type : {"data", "stream", "stop"}, max : Nat])
    BY <1>1, <1>2, Zenon DEF B
  <2>2. \A i \in 1..Len(back') :
          /\ back'[i].type = "data" => back'[i].max <= grantedC
          /\ back'[i].type = "stream" => back'[i].max <= grantedS
    BY <1>1, <1>2, ZenonT(40) DEF CreditInv
  <2>3. /\ grantedC \in Nat /\ grantedS \in Nat /\ consumedC \in Nat /\ consumedS \in Nat
        /\ received \in Nat /\ received <= grantedC /\ received <= grantedS
        /\ grantedC <= consumedC + ConnWindow /\ grantedS <= consumedS + StreamWindow
    BY Zenon DEF CreditInv
  <2> QED BY <1>5, <1>6, <2>1, <2>2, <2>3, Zenon DEF CreditInv
<1>7. connLimit <= grantedC /\ streamLimit <= grantedS
  BY Zenon DEF CreditInv
<1>8. ASSUME RecvMaxData(m.max) \/ RecvMaxStreamData(m.max),
             connLimit' <= grantedC, streamLimit' <= grantedS
      PROVE  SInv' /\ WireInv' /\ CreditInv'
  <2>1. SInv'
    BY <1>3, <1>8, <1>CreditKeeps, Zenon
  <2>2. /\ UNCHANGED <<dispatched, resetQueued, resetOut, sendConn, sent>>
    BY <1>8, Zenon DEF RecvMaxData, RecvMaxStreamData
  <2>3. wire' = wire
    BY <1>1, <2>2, Zenon
  <2>4. UNCHANGED <<reader, resetError, finReceived, received>> /\ RecvEnded' = RecvEnded
    BY <1>1, InSame, Zenon
  <2>5. WireInv'
    BY <2>2, <2>3, <2>4, ZenonT(40) DEF WireInv, Final
  <2> QED BY <1>6, <1>8, <2>1, <2>5, Zenon
<1>9. CASE m.type = "data" /\ RecvMaxData(m.max)
  <2>1. connLimit' <= grantedC /\ streamLimit' <= grantedS
    BY <1>4, <1>7, <1>9, Zenon DEF RecvMaxData
  <2> QED BY <1>1, <1>8, <1>9, <2>1, InSame, Zenon DEF PInv
<1>10. CASE m.type = "stream" /\ RecvMaxStreamData(m.max)
  <2>1. connLimit' <= grantedC /\ streamLimit' <= grantedS
    BY <1>4, <1>7, <1>10, Zenon DEF RecvMaxStreamData
  <2> QED BY <1>1, <1>8, <1>10, <2>1, InSame, Zenon DEF PInv
<1>11. CASE (m.type = "stop" /\ RecvStop) \/ UNCHANGED outVars
  <2>1. SInv'
    BY <1>11, <1>StopKeeps, SendSame, Zenon
  <2>2. Grows /\ sent' = sent
    BY <1>11, SenderGrows, Zenon
  <2>3. CreditInv'
    BY <1>6, <1>7, <2>2, Zenon DEF Grows
  <2>4. WireInv'
    <3>1. CASE sendConn # "ended" /\ sendConn' = "ended"
      <4>1. ConnectionEnds
        BY <1>11, <3>1, Zenon DEF RecvStop, outVars, ResetStream
      <4> QED BY <1>1, <3>1, <4>1, ClosePuts, Zenon DEF CreditInv
    <3>2. CASE ~(sendConn # "ended" /\ sendConn' = "ended")
      BY <1>1, <2>2, <3>2, WireKeeps, Zenon
    <3> QED BY <3>1, <3>2, Zenon
  <2> QED BY <1>1, <2>1, <2>3, <2>4, InSame, Zenon DEF PInv
<1> QED BY <1>1, <1>9, <1>10, <1>11, Zenon

-----------------------------------------------------------------------------
(* The receiver. *)

\* ReceiverWire: steps of the receiver that take no frame keep the transport's
\* invariant.
LEMMA ReceiverWire ==
  ASSUME WireInv, UNCHANGED outVars, UNCHANGED <<wire, received>>,
         RecvEnded' <=> RecvEnded, reader = "failed" => reader' = "failed",
         RecvEnded => (resetError' \/ reader' = "reset" <=> resetError \/ reader = "reset")
  PROVE  WireInv'
<1>1. UNCHANGED <<dispatched, resetQueued, resetOut, sendConn, sent>>
  BY Zenon DEF outVars, flow
<1> QED BY <1>1, ZenonT(40) DEF WireInv, Final

\* ReceiverCredit: they keep the invariant on credit when consumption only grows.
LEMMA ReceiverCredit ==
  ASSUME CreditInv, UNCHANGED outVars, UNCHANGED <<back, received, grantedC, grantedS>>,
         consumedC' \in Nat, consumedS' \in Nat,
         consumedC <= consumedC', consumedS <= consumedS'
  PROVE  CreditInv'
\* WindowMoves: consumption moves the window forward.
<1>WindowMoves.
    ASSUME NEW g \in Nat, NEW c \in Nat, NEW d \in Nat, NEW w \in Nat, g <= c + w, c <= d
    PROVE  g <= d + w
  BY <1>WindowMoves, SMTT(30)
<1>1. UNCHANGED <<connLimit, streamLimit>>
  BY Zenon DEF outVars, flow
<1>2. ConnWindow \in Nat /\ StreamWindow \in Nat
  BY InboundAssumption, Zenon
<1>3. /\ grantedC \in Nat /\ grantedS \in Nat /\ consumedC \in Nat /\ consumedS \in Nat
      /\ grantedC <= consumedC + ConnWindow /\ grantedS <= consumedS + StreamWindow
  BY Zenon DEF CreditInv
<1>5. grantedC' = grantedC /\ grantedS' = grantedS
  BY Zenon
<1>4. grantedC' <= consumedC' + ConnWindow /\ grantedS' <= consumedS' + StreamWindow
  BY <1>2, <1>3, <1>5, <1>WindowMoves, Zenon
<1> QED BY <1>1, <1>4, Zenon DEF CreditInv

\* AnswerKeeps: the receiver's writer sends a due window update or STOP_SENDING.
LEMMA AnswerKeeps == ASSUME PInv, Answer PROVE PInv'
<1> /\ SInv /\ WireInv /\ CreditInv
    /\ RecvTypes /\ RecvCtl /\ AccountInv /\ ReadInv /\ NotifyInv
  BY Zenon DEF PInv
<1>1. PICK m : Reply(m) /\
        \/ GrantConn /\ m = [type |-> "data", max |-> grantedC']
        \/ GrantStream /\ m = [type |-> "stream", max |-> grantedS']
        \/ StopDone /\ m = [type |-> "stop", max |-> 0]
  BY Zenon DEF Answer
<1>2. UNCHANGED outVars /\ UNCHANGED wire /\ back' = Append(back, m)
  BY <1>1, Zenon DEF Reply
<1>3. /\ UNCHANGED <<chunks, resetError, finReceived, recvClosed, recvTerminal,
                     discarded, received, consumedC, consumedS>>
      /\ UNCHANGED <<permitsC, permitsS, reader, frame, recvMode, app, buf, giving,
                     permit, woken, read, outcome>>
      /\ cleaner' = cleaner \/ (cleaner = "stop" /\ cleaner' = "done")
  <2>1. CASE GrantConn
    BY <2>1, Zenon DEF GrantConn, inboundState, application, notifier
  <2>2. CASE GrantStream
    BY <2>2, Zenon DEF GrantStream, inboundState, application, notifier
  <2>3. CASE StopDone
    BY <2>3, Zenon DEF StopDone, inboundState, windows, application, notifier
  <2> QED BY <1>1, <2>1, <2>2, <2>3, Zenon
<1>4. SInv'
  BY <1>2, SendSame, Zenon
<1>5. RecvEnded' = RecvEnded
  BY <1>3, Zenon DEF RecvEnded
<1>6. WireInv'
  BY <1>2, <1>3, <1>5, ReceiverWire, ZenonT(40)
<1>7. RecvTypes'
  BY <1>3, SMTT(30) DEF RecvTypes
<1>8. RecvCtl'
  BY <1>3, Zenon DEF RecvCtl
<1>9. InReader' = InReader
  BY <1>3, Zenon DEF InReader
<1>10. AccountInv'
  BY <1>3, <1>9, Zenon DEF AccountInv
<1>11. ReadInv'
  BY <1>3, <1>9, Zenon DEF ReadInv
<1>12. NotifyInv'
  BY <1>3, Zenon DEF NotifyInv
<1> DEFINE B == [type : {"data", "stream", "stop"}, max : Nat]
<1>13. ConnWindow \in Nat /\ StreamWindow \in Nat
  BY InboundAssumption, Zenon
<1>14. /\ grantedC \in Nat /\ grantedS \in Nat /\ consumedC \in Nat /\ consumedS \in Nat
       /\ received \in Nat /\ received <= grantedC /\ received <= grantedS
       /\ connLimit <= grantedC /\ streamLimit <= grantedS
       /\ grantedC <= consumedC + ConnWindow /\ grantedS <= consumedS + StreamWindow
  BY Zenon DEF CreditInv
<1>15. /\ grantedC' \in {grantedC, consumedC + ConnWindow} /\ grantedC <= grantedC'
       /\ grantedS' \in {grantedS, consumedS + StreamWindow} /\ grantedS <= grantedS'
  <2>1. CASE GrantConn
    BY <1>13, <1>14, <2>1, SMTT(30) DEF GrantConn, UpdateDue
  <2>2. CASE GrantStream
    BY <1>13, <1>14, <2>2, SMTT(30) DEF GrantStream, UpdateDue
  <2>3. CASE StopDone
    BY <1>14, <2>3, SMTT(30) DEF StopDone, windows
  <2> QED BY <1>1, <2>1, <2>2, <2>3, ZenonT(40)
<1>16. grantedC' \in Nat /\ grantedS' \in Nat
  BY <1>13, <1>14, <1>15, SMTT(30)
<1>17. m \in B /\ (m.type = "data" => m.max <= grantedC') /\ (m.type = "stream" => m.max <= grantedS')
  BY <1>1, <1>16, SMTT(30)
<1>18. back \in Seq(B) /\ \A i \in 1..Len(back) :
         /\ back[i].type = "data" => back[i].max <= grantedC
         /\ back[i].type = "stream" => back[i].max <= grantedS
  BY Zenon DEF CreditInv
<1>19. \A i \in 1..Len(back) : back[i] \in B /\ back[i].max \in Nat
  <2>1. \A b \in B : b.max \in Nat
    BY ZenonT(40)
  <2> HIDE DEF B
  <2>2. \A i \in 1..Len(back) : back[i] \in B
    BY <1>18, SMTT(30)
  <2> QED BY <2>1, <2>2, Zenon
<1>20. \A i \in 1..Len(back) :
         /\ back[i].type = "data" => back[i].max <= grantedC'
         /\ back[i].type = "stream" => back[i].max <= grantedS'
  BY <1>14, <1>15, <1>16, <1>18, <1>19, SMTT(30)
<1> HIDE DEF B
<1>21. /\ back' \in Seq(B) /\ Len(back') = Len(back) + 1 /\ back'[Len(back) + 1] = m
       /\ \A i \in 1..Len(back) : back'[i] = back[i]
       /\ \A i \in 1..Len(back') : i # Len(back) + 1 => i \in 1..Len(back)
  BY <1>2, <1>17, <1>18, SMTT(30)
<1>22. \A i \in 1..Len(back') :
         /\ back'[i].type = "data" => back'[i].max <= grantedC'
         /\ back'[i].type = "stream" => back'[i].max <= grantedS'
  BY <1>17, <1>20, <1>21, Zenon
<1>23. /\ connLimit' = connLimit /\ streamLimit' = streamLimit /\ connLimit \in Nat
       /\ streamLimit \in Nat
  BY <1>2, ZenonT(40) DEF outVars, flow, SInv, SendTypes
<1>24. /\ received' <= grantedC' /\ received' <= grantedS'
       /\ connLimit' <= grantedC' /\ streamLimit' <= grantedS'
       /\ grantedC' <= consumedC' + ConnWindow /\ grantedS' <= consumedS' + StreamWindow
  BY <1>3, <1>13, <1>14, <1>15, <1>16, <1>23, SMTT(30)
<1>25. CreditInv'
  BY <1>3, <1>14, <1>16, <1>21, <1>22, <1>24, ZenonT(40) DEF CreditInv, B
<1> QED BY <1>4, <1>6, <1>7, <1>8, <1>10, <1>11, <1>12, <1>25, ZenonT(40) DEF PInv

\* ClosedWakes: mark_closed wakes a read and changes nothing else that the invariant
\* speaks of.
LEMMA ClosedWakes ==
  ASSUME RecvTypes, MarkConnectionClosed
  PROVE  /\ recvClosed' = TRUE /\ woken' = (woken \/ app \in {"poll", "wait"})
         /\ UNCHANGED <<chunks, resetError, finReceived, recvTerminal, discarded,
                        received, consumedC, consumedS, grantedC, grantedS>>
         /\ UNCHANGED <<permitsC, permitsS, reader, frame, recvMode, app, buf, giving,
                        permit, cleaner, read, outcome>>
         /\ RecvEnded' = RecvEnded
         /\ RecvTypes' /\ (RecvCtl => RecvCtl') /\ (AccountInv => AccountInv')
         /\ (ReadInv => ReadInv') /\ (NotifyInv => NotifyInv')
<1>1. recvClosed' = TRUE /\ woken' = (woken \/ app \in {"poll", "wait"}) /\ permit' = permit
  BY Zenon DEF MarkConnectionClosed, NotifyWaiters
<1>2. UNCHANGED <<chunks, resetError, finReceived, recvTerminal, discarded,
                  received, consumedC, consumedS, grantedC, grantedS>>
  BY Zenon DEF MarkConnectionClosed, windows
<1>3. UNCHANGED <<permitsC, permitsS, reader, frame, recvMode, app, buf, giving,
                  cleaner, read, outcome>>
  BY Zenon DEF MarkConnectionClosed, windows, application
<1>4. RecvEnded' = RecvEnded
  BY <1>2, <1>3, ZenonT(40) DEF RecvEnded
<1>5. RecvTypes'
  BY <1>1, <1>2, <1>3, SMTT(30) DEF RecvTypes
<1>6. RecvCtl => RecvCtl'
  BY <1>1, <1>2, <1>3, Zenon DEF RecvCtl
<1>7. InReader' = InReader
  BY <1>3, Zenon DEF InReader
<1>8. AccountInv => AccountInv'
  BY <1>2, <1>3, <1>7, Zenon DEF AccountInv
<1>9. ReadInv => ReadInv'
  BY <1>2, <1>3, <1>7, Zenon DEF ReadInv
<1>10. NotifyInv => NotifyInv'
  BY <1>1, <1>2, <1>3, Zenon DEF NotifyInv
<1> QED BY <1>1, <1>2, <1>3, <1>4, <1>5, <1>6, <1>8, <1>9, <1>10, ZenonT(40)

\* DeliverKeeps: handle_frame takes the next frame (stream data, RESET_STREAM or
\* CLOSE).
LEMMA DeliverKeeps == ASSUME BytesLaws, PInv, Deliver PROVE PInv'
\* WireTail: what the transport says of its first frame and of those that follow.
<1>WireTail.
    ASSUME WireInv, wire # <<>>
    PROVE  LET f == Head(wire)
               t == Tail(wire)
           IN /\ f \in Frames /\ t \in Seq(Frames)
              /\ f.type = "stream" => f.fin = (f.data = <<>>)
              /\ f.type # "stream" => f.data = <<>> /\ ~f.fin
              /\ f.fin => dispatched
              /\ f.type = "reset" => resetQueued /\ ~resetOut
              /\ RecvEnded => f.type = "close"
              /\ \A i \in 1..Len(t) :
                   /\ t[i].type = "stream" => t[i].fin = (t[i].data = <<>>)
                   /\ t[i].type # "stream" => t[i].data = <<>> /\ ~t[i].fin
                   /\ t[i].fin => dispatched
                   /\ t[i].type = "reset" => resetQueued /\ ~resetOut
                   /\ t[i].type = "close" => sendConn = "ended" /\ i = Len(t)
                   /\ RecvEnded \/ Final(f) => t[i].type = "close"
              /\ \A i, j \in 1..Len(t) : i < j /\ Final(t[i]) => t[j].type = "close"
  <2> USE <1>WireTail
  <2> DEFINE f == Head(wire)
             t == Tail(wire)
  <2>1. wire \in Seq(Frames)
    BY Zenon DEF WireInv
  <2>2. /\ Len(wire) \in Nat \ {0} /\ f \in Frames /\ f = wire[1]
        /\ t \in Seq(Frames) /\ Len(t) = Len(wire) - 1
        /\ \A i \in 1..Len(t) : i + 1 \in 1..Len(wire) /\ t[i] = wire[i + 1]
    BY <2>1, HeadAndTail, Zenon
  <2> HIDE DEF f, t
  <2>3. 1 \in 1..Len(wire)
    BY <2>2, SMTT(30)
  <2>4. /\ f.type = "stream" => f.fin = (f.data = <<>>)
        /\ f.type # "stream" => f.data = <<>> /\ ~f.fin
        /\ f.fin => dispatched
        /\ f.type = "reset" => resetQueued /\ ~resetOut
        /\ RecvEnded => f.type = "close"
    BY <2>2, <2>3, Zenon DEF WireInv
  <2>5. ASSUME NEW i \in 1..Len(t)
        PROVE  /\ t[i].type = "stream" => t[i].fin = (t[i].data = <<>>)
               /\ t[i].type # "stream" => t[i].data = <<>> /\ ~t[i].fin
               /\ t[i].fin => dispatched
               /\ t[i].type = "reset" => resetQueued /\ ~resetOut
               /\ t[i].type = "close" => sendConn = "ended" /\ i = Len(t)
               /\ RecvEnded \/ Final(f) => t[i].type = "close"
    <3>1. i + 1 \in 1..Len(wire) /\ t[i] = wire[i + 1] /\ 1 < i + 1
      BY <2>2, SMTT(30)
    <3>2. Final(f) => t[i].type = "close"
      BY <2>2, <2>3, <3>1, ZenonT(40) DEF WireInv
    <3>3. t[i].type = "close" => i + 1 = Len(wire)
      BY <3>1, Zenon DEF WireInv
    <3>4. t[i].type = "close" => i = Len(t)
      BY <2>2, <3>3, SMTT(30)
    <3>5. /\ t[i].type = "stream" => t[i].fin = (t[i].data = <<>>)
          /\ t[i].type # "stream" => t[i].data = <<>> /\ ~t[i].fin
          /\ t[i].fin => dispatched
          /\ t[i].type = "reset" => resetQueued /\ ~resetOut
          /\ t[i].type = "close" => sendConn = "ended"
          /\ RecvEnded => t[i].type = "close"
      BY <3>1, SMTT(30) DEF WireInv
    <3> QED BY <3>2, <3>4, <3>5, ZenonT(40)
  <2>6. ASSUME NEW i \in 1..Len(t), NEW j \in 1..Len(t), i < j, Final(t[i])
        PROVE  t[j].type = "close"
    <3>1. /\ i + 1 \in 1..Len(wire) /\ j + 1 \in 1..Len(wire) /\ i + 1 < j + 1
          /\ t[i] = wire[i + 1] /\ t[j] = wire[j + 1]
      BY <2>2, <2>6, SMTT(30)
    <3> QED BY <2>6, <3>1, ZenonT(40) DEF WireInv
  <2> QED BY <2>2, <2>4, <2>5, <2>6, Zenon DEF f, t
\* DeliverTakes: the next frame holds the next bytes, and the windows admit them.
<1>DeliverTakes.
    ASSUME PInv, wire # <<>>, reader = "idle"
    PROVE  \E m \in Nat :
             /\ received <= m /\ m <= sent /\ m <= grantedC /\ m <= grantedS
             /\ received \in Nat /\ sent \in Nat
             /\ Head(wire).data = Run(received, m) /\ m = received + Len(Head(wire).data)
             /\ Chain(Tail(wire), m, sent)
  <2> USE <1>DeliverTakes
  <2>1. /\ wire \in Seq(Frames) /\ Chain(wire, received, sent) /\ received \in Nat
        /\ sent \in Nat /\ connLimit \in Nat /\ streamLimit \in Nat
        /\ grantedC \in Nat /\ grantedS \in Nat
        /\ sent <= connLimit /\ sent <= streamLimit
        /\ connLimit <= grantedC /\ streamLimit <= grantedS
    BY Zenon DEF PInv, WireInv, CreditInv, SInv, SendTypes, SendArith
  <2>2. PICK m \in Nat : /\ received <= m /\ m <= sent /\ Head(wire).data = Run(received, m)
                         /\ Chain(Tail(wire), m, sent)
    BY <2>1, ChainTake, Zenon
  <2>3. Len(Run(received, m)) = m - received
    BY <2>1, <2>2, RunLen, ZenonT(40)
  <2>4. m = received + Len(Head(wire).data)
    BY <2>1, <2>2, <2>3, SMTT(30)
  <2>5. m <= grantedC /\ m <= grantedS
    BY <2>1, <2>2, SMTT(30)
  <2> QED BY <2>1, <2>2, <2>4, <2>5, Zenon
<1> /\ SInv /\ WireInv /\ CreditInv
    /\ RecvTypes /\ RecvCtl /\ AccountInv /\ ReadInv /\ NotifyInv
  BY Zenon DEF PInv
<1> DEFINE f == Head(wire)
           t == Tail(wire)
<1>1. /\ wire # <<>> /\ wire' = t /\ UNCHANGED outVars /\ UNCHANGED back
      /\ IF f.type = "close" THEN reader = "idle" /\ MarkConnectionClosed ELSE TakeFrame(f)
  BY Zenon DEF Deliver
<1>2. reader = "idle"
  BY <1>1, Zenon DEF TakeFrame
<1>3. PICK m \in Nat :
        /\ received <= m /\ m <= sent /\ m <= grantedC /\ m <= grantedS
        /\ received \in Nat /\ sent \in Nat
        /\ f.data = Run(received, m) /\ m = received + Len(f.data)
        /\ Chain(t, m, sent)
  BY <1>1, <1>2, <1>DeliverTakes, Zenon
<1>4. /\ f \in Frames /\ t \in Seq(Frames)
      /\ f.type = "stream" => f.fin = (f.data = <<>>)
      /\ f.type # "stream" => f.data = <<>> /\ ~f.fin
      /\ f.fin => dispatched
      /\ f.type = "reset" => resetQueued /\ ~resetOut
      /\ RecvEnded => f.type = "close"
      /\ \A i \in 1..Len(t) :
           /\ t[i].type = "stream" => t[i].fin = (t[i].data = <<>>)
           /\ t[i].type # "stream" => t[i].data = <<>> /\ ~t[i].fin
           /\ t[i].fin => dispatched
           /\ t[i].type = "reset" => resetQueued /\ ~resetOut
           /\ t[i].type = "close" => sendConn = "ended" /\ i = Len(t)
           /\ RecvEnded \/ Final(f) => t[i].type = "close"
      /\ \A i, j \in 1..Len(t) : i < j /\ Final(t[i]) => t[j].type = "close"
  BY <1>1, <1>WireTail, Zenon
<1> HIDE DEF f, t
<1>5. SInv'
  BY <1>1, SendSame, Zenon
<1>6. UNCHANGED <<dispatched, resetQueued, resetOut, sendConn, sent>>
  BY <1>1, Zenon DEF outVars, flow
<1>7. f.data \in Seq(Nat) /\ Len(f.data) \in Nat /\ (f.data = <<>> <=> Len(f.data) = 0)
  <2>1. f.data \in Seq(Nat)
    BY <1>4, Zenon DEF Frames
  <2> QED BY <2>1, EmptyLen, Zenon
<1>8. WireInv /\ (RecvEnded =>
       IF resetError \/ reader = "reset" THEN resetQueued /\ ~resetOut ELSE dispatched)
  BY Zenon DEF WireInv
<1>9. CASE f.type = "close"
  <2>1. MarkConnectionClosed
    BY <1>1, <1>9, Zenon
  <2>2. /\ RecvTypes' /\ RecvCtl' /\ AccountInv' /\ ReadInv' /\ NotifyInv'
        /\ RecvEnded' = RecvEnded
        /\ UNCHANGED <<resetError, reader, received, consumedC, consumedS, grantedC, grantedS>>
    BY <2>1, ClosedWakes, ZenonT(40)
  <2>3. m = received
    BY <1>3, <1>4, <1>7, <1>9, SMTT(30)
  <2>4. WireInv'
    BY <1>1, <1>3, <1>4, <1>6, <1>8, <2>2, <2>3, ZenonT(40) DEF WireInv, Final
  <2>5. CreditInv'
    <3>1. UNCHANGED <<connLimit, streamLimit>>
      BY <1>1, Zenon DEF outVars, flow
    <3> QED BY <1>1, <2>2, <3>1, Zenon DEF CreditInv
  <2> QED BY <1>5, <2>2, <2>4, <2>5, Zenon DEF PInv
<1>10. CASE f.type # "close"
  <2>1. TakeFrame(f) /\ ~RecvEnded
    BY <1>1, <1>4, <1>10, Zenon
  <2>2. /\ ~recvTerminal /\ ~finReceived /\ ~resetError /\ ~recvClosed
    BY <2>1, Zenon DEF RecvEnded, RecvCtl, TakeFrame
  <2>3. Admit(f)
    BY <1>3, <2>2, Zenon DEF Admit
  <2>4. /\ received' = m
        /\ reader' = IF f.type = "reset" THEN "reset"
                     ELSE IF f.data # <<>> THEN "push" ELSE "fin"
        /\ frame' = IF reader' = "push" THEN f ELSE NoFrame
    BY <1>3, <1>4, <1>10, <2>1, <2>3, Zenon DEF TakeFrame, AfterPayload, Frames
  <2>5. /\ UNCHANGED <<chunks, resetError, finReceived, recvClosed, recvTerminal,
                       discarded, consumedC, consumedS, grantedC, grantedS>>
        /\ UNCHANGED <<permitsC, permitsS, recvMode, app, buf, giving,
                       permit, woken, cleaner, read, outcome>>
    BY <2>1, Zenon DEF TakeFrame, inboundState, application, notifier
  <2>6. /\ f.type \in {"stream", "reset"}
        /\ (reader' = "push" => f.type = "stream" /\ f.data # <<>> /\ ~f.fin)
        /\ (reader' # "push" => f.data = <<>> /\ Final(f))
        /\ (reader' = "fin" => f.fin)
    BY <1>4, <1>10, <2>4, Zenon DEF Final, Frames
  <2>7. RecvEnded' => /\ Final(f)
                      /\ IF resetError' \/ reader' = "reset" THEN resetQueued /\ ~resetOut
                                                             ELSE dispatched
    BY <1>4, <2>2, <2>4, <2>5, <2>6, Zenon DEF RecvEnded
  <2>8. reader' # "failed" /\ Chain(wire', received', sent') /\ received' <= sent'
    BY <1>1, <1>3, <1>6, <2>4, ZenonT(40)
  <2>9. WireInv'
    BY <1>1, <1>4, <1>6, <2>7, <2>8, ZenonT(40) DEF WireInv, Final
  <2>10. CreditInv'
    <3>1. UNCHANGED <<connLimit, streamLimit>>
      BY <1>1, Zenon DEF outVars, flow
    <3> QED BY <1>1, <1>3, <2>4, <2>5, <3>1, Zenon DEF CreditInv
  <2>11. RecvTypes'
    BY <2>4, <2>5, SMTT(30) DEF RecvTypes
  <2>12. frame = NoFrame /\ frame' \in Frames \cup {NoFrame}
    BY <1>2, <1>4, <2>4, Zenon DEF RecvCtl
  <2>13. RecvCtl'
    BY <2>2, <2>4, <2>5, <2>6, <2>12, ZenonT(40) DEF RecvCtl
  <2>14. InReader = 0 /\ InReader' = Len(f.data) /\ InReader' = m - received
    BY <1>2, <1>3, <1>7, <2>4, <2>6, SMTT(30) DEF InReader
  <2>15. AccountInv'
    <3>1. buf \in Seq(Nat) /\ giving \in Nat /\ chunks \in Seq(Chunk)
      BY ZenonT(40) DEF RecvTypes
    <3>2. Bytes(chunks) \in Nat /\ Len(buf) \in Nat /\ consumedC \in Nat /\ consumedS \in Nat
      BY <3>1, SMTT(30) DEF CreditInv, BytesLaws
    <3>3. /\ received = consumedC + Bytes(chunks) + Len(buf) + giving + 0
          /\ ~discarded => received = consumedS + Bytes(chunks) + Len(buf) + giving + 0
      BY <1>2, <2>14, Zenon DEF AccountInv
    <3>4. /\ m = consumedC + Bytes(chunks) + Len(buf) + giving + Len(f.data)
          /\ ~discarded => m = consumedS + Bytes(chunks) + Len(buf) + giving + Len(f.data)
      <4>1. PICK B \in Nat, b \in Nat, n \in Nat : B = Bytes(chunks) /\ b = Len(buf) /\ n = Len(f.data)
        BY <1>7, <3>1, <3>2, Zenon
      <4>2. m \in Nat /\ received \in Nat /\ m = received + n
        BY <1>3, <1>7, <4>1, ZenonT(40)
      <4>3. received = consumedC + B + b + giving /\ (~discarded => received = consumedS + B + b + giving)
        BY <3>1, <3>2, <3>3, <4>1, SMTT(30)
      <4>4. /\ m = consumedC + B + b + giving + n
            /\ ~discarded => m = consumedS + B + b + giving + n
        BY <3>1, <3>2, <4>1, <4>2, <4>3, Zenon
      <4> QED BY <4>1, <4>4, Zenon
    <3>5. reader' # "lock"
      BY <2>4, Zenon
    <3>6. /\ permitsC + (Bytes(chunks) + Len(buf) + 0) = ConnWindow
          /\ permitsS + (Bytes(chunks) + Len(buf) + 0) = StreamWindow
      BY <1>2, Zenon DEF AccountInv
    <3> QED BY <2>4, <2>5, <2>14, <3>4, <3>5, <3>6, ZenonT(40) DEF AccountInv
  <2>16. ReadInv'
    <3>1. read \in Seq(Nat) /\ buf \in Seq(Nat)
      BY Zenon DEF RecvTypes
    <3>2. Len(read) \in Nat /\ Len(buf) \in Nat
      BY <3>1, SMTT(30)
    <3>3. /\ read = Run(0, Len(read))
          /\ buf = Run(Len(read), Len(read) + Len(buf))
          /\ Len(read) + Len(buf) <= received
      BY Zenon DEF ReadInv
    <3>4. Len(read) + Len(buf) <= m
      BY <1>3, <3>2, <3>3, SMTT(30)
    <3>5. reader' \in {"push", "lock"} =>
            /\ Len(frame'.data) <= received'
            /\ frame'.data = Run(received' - Len(frame'.data), received')
      <4>1. Len(f.data) <= m /\ m - Len(f.data) = received
        BY <1>3, <1>7, SumLess, Zenon
      <4> QED BY <1>3, <2>4, <4>1, ZenonT(40)
    <3>6. ASSUME cleaner = "idle"
          PROVE  \E k \in Nat : /\ Len(read) + Len(buf) <= k /\ k <= m
                                /\ Chain(chunks, Len(read) + Len(buf), k)
                                /\ k = m - Len(f.data)
      <4>1. PICK k \in Nat : /\ Len(read) + Len(buf) <= k /\ k <= received
                             /\ Chain(chunks, Len(read) + Len(buf), k)
                             /\ k = received - 0
        BY <1>2, <2>2, <2>14, <3>6, ZenonT(40) DEF ReadInv
      <4>2. k <= m /\ k = m - Len(f.data)
        BY <1>3, <1>7, <4>1, SumLess, Zenon
      <4> QED BY <4>1, <4>2, Zenon
    <3>7. /\ buf # <<>> => outcome = "none"
          /\ outcome = "eof" => finReceived /\ ~resetError /\ chunks = <<>>
          /\ outcome = "reset" => resetError
      BY Zenon DEF ReadInv
    <3> QED BY <2>4, <2>5, <2>14, <3>3, <3>4, <3>5, <3>6, <3>7, Zenon DEF ReadInv
  <2>17. NotifyInv'
    BY <2>2, <2>5, Zenon DEF NotifyInv
  <2> QED BY <1>5, <2>9, <2>10, <2>11, <2>13, <2>15, <2>16, <2>17, Zenon DEF PInv
<1> QED BY <1>9, <1>10, Zenon

=============================================================================
