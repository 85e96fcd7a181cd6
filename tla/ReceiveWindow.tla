--------------------------- MODULE ReceiveWindow ---------------------------
(***************************************************************************)
(* One receive window of muxtls (src/muxtls/src/flow.rs): three atomic      *)
(* counters written by three different tasks, and the writer's Notify that  *)
(* must not be missed when the window owes the peer more credit.            *)
(*                                                                          *)
(*   Reader     runs on_remote_stream_frame: receive, needs_update, deliver *)
(*   Consumers  application tasks that release bytes (InboundChunk::consume)*)
(*   Writer     runs update inside next_frame, then emits MAX_DATA or       *)
(*              MAX_STREAM_DATA                                             *)
(*                                                                          *)
(* Every atomic load and store is a step of its own, so that a decision may *)
(* be taken on values that are stale by the time it is used.  The steps of  *)
(* all tasks interleave in a total order.                                   *)
(***************************************************************************)
EXTENDS Integers

CONSTANTS
  Window,      \* ReceiveWindow.window, the configured inbound byte budget
  MaxCredit,   \* VarInt::MAX, where the advertised total saturates
  MaxPayload,  \* largest STREAM payload the peer sends
  Consumers,   \* application tasks that hold chunks of this window
  Reader, Writer

ASSUME WindowAssumption ==
  /\ Window \in Nat \ {0}
  /\ MaxCredit \in Nat
  /\ Window <= MaxCredit
  /\ MaxPayload \in Nat

ASSUME TaskAssumption ==
  /\ Reader # Writer
  /\ Reader \notin Consumers
  /\ Writer \notin Consumers

Wakers == Consumers \cup {Reader}
WindowTasks == Wakers \cup {Writer}

VARIABLES
  received, consumed, advertised,  \* the three atomics
  buffered,    \* bytes owned by inbound chunks
  permit,      \* the permit stored in writer.notify
  at,          \* what each task does next
  next, old,   \* locals of needs_update, per task
  size,        \* payload length of the frame in the reader's hands
  conforming,  \* that frame was within the credit the peer had been told
  grant,       \* local "next" of update, in the writer
  announced    \* credit carried by the last frame the writer emitted

locals == <<next, old>>
held == <<size, conforming>>
credit == <<grant, announced>>
windowVars == <<received, consumed, advertised, buffered, permit, at, locals, held,
                credit>>

Half == (Window + 1) \div 2

\* consumed.saturating_add(window).min(VarInt::MAX)
Limit(c) == IF c + Window < MaxCredit THEN c + Window ELSE MaxCredit

\* What needs_update computes from its three loads.
Due(n, o, r) == n > o /\ (n - o >= Half \/ r = o \/ n = MaxCredit)

Proceed(t, where) == at' = [at EXCEPT ![t] = where]

WindowInit ==
  /\ received = 0
  /\ consumed = 0
  /\ advertised = Window
  /\ buffered = 0
  /\ permit = FALSE
  /\ at = [t \in WindowTasks |-> IF t = Writer THEN "loadNext" ELSE "idle"]
  /\ next = [t \in WindowTasks |-> 0]
  /\ old = [t \in WindowTasks |-> 0]
  /\ size = 0
  /\ conforming = TRUE
  /\ grant = Window
  /\ announced = Window   \* the initial limit travels in SETTINGS

-----------------------------------------------------------------------------
(* needs_update, run by any task: load consumed, load advertised, then load
   received and decide. *)

LoadConsumed(t) ==
  /\ at[t] = "loadConsumed"
  /\ next' = [next EXCEPT ![t] = Limit(consumed)]
  /\ Proceed(t, "loadAdvertised")
  /\ UNCHANGED <<received, consumed, advertised, buffered, permit, old, held, credit>>

LoadAdvertised(t) ==
  /\ at[t] = "loadAdvertised"
  /\ old' = [old EXCEPT ![t] = advertised]
  /\ Proceed(t, "decide")
  /\ UNCHANGED <<received, consumed, advertised, buffered, permit, next, held, credit>>

NeedsUpdate(t) == LoadConsumed(t) \/ LoadAdvertised(t)

\* The locals of needs_update go out of scope.
EndNeedsUpdate(t) ==
  /\ next' = [next EXCEPT ![t] = 0]
  /\ old' = [old EXCEPT ![t] = 0]

\* The reader and the consumers notify_one the writer when an update is due.
DecideWake(t) ==
  /\ at[t] = "decide"
  /\ permit' = (permit \/ Due(next[t], old[t], received))
  /\ EndNeedsUpdate(t)
  /\ Proceed(t, IF t = Reader THEN "deliver" ELSE "idle")
  /\ UNCHANGED <<received, consumed, advertised, buffered, held, credit>>

-----------------------------------------------------------------------------
(* The reader: on_remote_stream_frame and push_inbound. *)

\* Mutant: the total is compared before the new bytes are added.
AdmitsLate(n) == received <= advertised

\* The filter of fetch_update, which loads advertised.
Admits(n) == received + n <= advertised

\* Only the reader writes received, so the exchange after this load succeeds.
ReceiveLoad(n) ==
  /\ at[Reader] = "idle"
  /\ size' = n
  /\ conforming' = (received + n <= announced)
  /\ Proceed(Reader, IF Admits(n) THEN "commit" ELSE "failed")
  /\ UNCHANGED <<received, consumed, advertised, buffered, permit, locals, credit>>

\* Mutant: the reader leaves the check to the consumers.
ReceiveCommitUnchecked ==
  /\ at[Reader] = "commit"
  /\ received' = received + size
  /\ Proceed(Reader, "deliver")
  /\ UNCHANGED <<consumed, advertised, buffered, permit, locals, held, credit>>

ReceiveCommit ==
  /\ at[Reader] = "commit"
  /\ received' = received + size
  /\ Proceed(Reader, "loadConsumed")
  /\ UNCHANGED <<consumed, advertised, buffered, permit, locals, held, credit>>

\* push_inbound hands the bytes to the stream's queue.
Deliver ==
  /\ at[Reader] = "deliver"
  /\ buffered' = buffered + size
  /\ Proceed(Reader, "idle")
  /\ UNCHANGED <<received, consumed, advertised, permit, locals, held, credit>>

\* push_inbound on a discarded stream: the connection window consumes the
\* bytes at once, and the writer is notified whatever needs_update says.
Discard ==
  /\ at[Reader] = "deliver"
  /\ size > 0
  /\ consumed' = consumed + size
  /\ Proceed(Reader, "notify")
  /\ UNCHANGED <<received, advertised, buffered, permit, locals, held, credit>>

DiscardNotify ==
  /\ at[Reader] = "notify"
  /\ permit' = TRUE
  /\ Proceed(Reader, "idle")
  /\ UNCHANGED <<received, consumed, advertised, buffered, locals, held, credit>>

ReaderStep ==
  \/ NeedsUpdate(Reader)
  \/ DecideWake(Reader)
  \/ ReceiveCommit
  \/ Deliver
  \/ Discard
  \/ DiscardNotify

-----------------------------------------------------------------------------
(* A consumer: InboundChunk::consume, then the same check as the reader. *)

\* Mutant: explicit consumption does not empty the chunk that Drop releases.
ConsumeTwice(t, n) ==
  /\ at[t] = "idle"
  /\ buffered' = buffered - 2 * n
  /\ consumed' = consumed + 2 * n
  /\ Proceed(t, "loadConsumed")
  /\ UNCHANGED <<received, advertised, permit, locals, held, credit>>

Consume(t, n) ==
  /\ at[t] = "idle"
  /\ buffered' = buffered - n
  /\ consumed' = consumed + n
  /\ Proceed(t, "loadConsumed")
  /\ UNCHANGED <<received, advertised, permit, locals, held, credit>>

ConsumerStep(t) == NeedsUpdate(t) \/ DecideWake(t)

-----------------------------------------------------------------------------
(* The writer: update inside next_frame, then the credit frame. *)

\* Mutant: the free space is advertised instead of the absolute total.
UpdateLoadFreeSpace ==
  /\ at[Writer] = "loadNext"
  /\ grant' = Limit(consumed) - buffered
  /\ Proceed(Writer, "loadConsumed")
  /\ UNCHANGED <<received, consumed, advertised, buffered, permit, locals, held, announced>>

UpdateLoad ==
  /\ at[Writer] = "loadNext"
  /\ grant' = Limit(consumed)
  /\ Proceed(Writer, "loadConsumed")
  /\ UNCHANGED <<received, consumed, advertised, buffered, permit, locals, held, announced>>

UpdateDecide ==
  /\ at[Writer] = "decide"
  /\ Proceed(Writer, IF Due(next[Writer], old[Writer], received)
                  THEN "store" ELSE "wait")
  /\ EndNeedsUpdate(Writer)
  /\ UNCHANGED <<received, consumed, advertised, buffered, permit, held, credit>>

\* Mutant: the frame is handed out before the new limit is stored.
UpdateStoreLate ==
  /\ at[Writer] = "store"
  /\ announced' = grant
  /\ Proceed(Writer, "emit")
  /\ UNCHANGED <<received, consumed, advertised, buffered, permit, locals, held, grant>>

\* The value stored is the one loaded first, not the one needs_update saw.
UpdateStore ==
  /\ at[Writer] = "store"
  /\ advertised' = grant
  /\ Proceed(Writer, "emit")
  /\ UNCHANGED <<received, consumed, buffered, permit, locals, held, credit>>

\* The frame leaves; next_frame is called again and looks at the window again.
Emit ==
  /\ at[Writer] = "emit"
  /\ announced' = grant
  /\ Proceed(Writer, "loadNext")
  /\ UNCHANGED <<received, consumed, advertised, buffered, permit, locals, held, grant>>

Wake ==
  /\ at[Writer] = "wait"
  /\ permit
  /\ permit' = FALSE
  /\ Proceed(Writer, "loadNext")
  /\ UNCHANGED <<received, consumed, advertised, buffered, locals, held, credit>>

WriterStep ==
  \/ NeedsUpdate(Writer)
  \/ UpdateLoad
  \/ UpdateDecide
  \/ UpdateStore
  \/ Emit
  \/ Wake

\* Other producers of writer work also notify_one.
OtherNotify ==
  /\ permit' = TRUE
  /\ UNCHANGED <<received, consumed, advertised, buffered, at, locals, held, credit>>

-----------------------------------------------------------------------------
WindowNext ==
  \/ \E n \in 0..MaxPayload : ReceiveLoad(n)
  \/ ReaderStep
  \/ \E t \in Consumers, n \in 1..buffered : Consume(t, n)
  \/ \E t \in Consumers : ConsumerStep(t)
  \/ WriterStep
  \/ OtherNotify

(* A task that has begun an operation finishes it: none of the steps below
   blocks, and the runtime polls a woken task.  The peer need not send and
   the application need not read. *)
WindowFairness ==
  /\ WF_windowVars(ReaderStep)
  /\ \A t \in Consumers : WF_windowVars(ConsumerStep(t))
  /\ WF_windowVars(WriterStep)

WindowSpec == WindowInit /\ [][WindowNext]_windowVars /\ WindowFairness

-----------------------------------------------------------------------------
(* The counters are natural numbers (u64 in flow.rs) and every task is at a
   step of its own operation; in particular no byte is released twice. *)
WindowTypeOK ==
  /\ received \in Nat
  /\ consumed \in Nat
  /\ advertised \in Nat
  /\ buffered \in Nat
  /\ permit \in BOOLEAN
  /\ at \in [WindowTasks -> {"idle", "commit", "failed", "loadConsumed",
                       "loadAdvertised", "decide", "deliver", "notify",
                       "loadNext", "store", "emit", "wait"}]
  /\ next \in [WindowTasks -> Nat]
  /\ old \in [WindowTasks -> Nat]
  /\ size \in Nat
  /\ conforming \in BOOLEAN
  /\ grant \in Nat
  /\ announced \in Nat

(* What receive admits is never more than one window above what the
   application has released, and the advertised total stays encodable: the
   memory bound behind max_inbound_*_bytes and the expect("bounded credit")
   of update, whatever the peer sends and however update races consume. *)
BoundedBuffer ==
  /\ received <= advertised
  /\ received - consumed <= Window
  /\ advertised <= MaxCredit

(* receive never rejects a frame that is within the credit the peer has been
   told of: update stores the new limit before the frame that carries it can
   leave. *)
NoFalseRejection == at[Reader] = "failed" => ~conforming

(* No wakeup is lost between receive, consume and update: when the writer
   sleeps with no stored permit and no task is inside needs_update, no update
   is due. *)
NoLostUpdate ==
  /\ at[Writer] = "wait"
  /\ ~permit
  /\ \A t \in Wakers : at[t] \in {"idle", "commit", "failed", "deliver"}
  => ~Due(Limit(consumed), advertised, received)

(* The credit the peer is told, and the limit receive enforces, never move
   back, although update stores a value computed before its decision. *)
CreditNeverShrinks ==
  [][advertised' >= advertised /\ announced' >= announced]_<<advertised, announced>>

(* Credit that is due reaches the peer: a sender that used up its credit is
   not left waiting once the application has consumed (needs_update's
   exhausted-credit exception and the two places that notify). *)
DueCreditIsGranted ==
  \A m \in 0..MaxCredit :
    (announced = m /\ Due(Limit(consumed), m, received)) ~> (announced > m)

-----------------------------------------------------------------------------
(* The inductive strengthening behind the invariants above. *)

Checking == {"loadConsumed", "loadAdvertised", "decide"}

PcOK ==
  /\ at[Reader] \in {"idle", "commit", "failed", "deliver", "notify"} \cup Checking
  /\ at[Writer] \in {"loadNext", "store", "emit", "wait"} \cup Checking
  /\ \A t \in Consumers : at[t] \in {"idle"} \cup Checking

\* Every received byte is consumed, in a chunk, or in the reader's hands.
Conserved ==
  received = consumed + buffered
             + (IF at[Reader] \in {"deliver"} \cup Checking THEN size ELSE 0)

\* Between its first load and its store the writer's grant is neither behind
\* what is advertised nor ahead of what has been consumed.
GrantOK ==
  /\ at[Writer] \in {"store"} \cup Checking =>
       advertised <= grant /\ grant <= Limit(consumed)
  /\ IF at[Writer] = "emit" THEN announced <= grant /\ grant = advertised
                            ELSE announced = advertised

CreditInv ==
  /\ PcOK
  /\ Conserved
  /\ GrantOK
  /\ received <= advertised
  /\ advertised <= Limit(consumed)
  /\ at[Reader] = "commit" => received + size <= advertised
  /\ NoFalseRejection

\* Task t is inside needs_update and will answer TRUE if nothing changes.
WillAnswerDue(t) ==
  \/ at[t] = "loadConsumed"
  \/ at[t] = "loadAdvertised" /\ Due(next[t], advertised, received)
  \/ at[t] = "decide" /\ Due(next[t], old[t], received)

\* An update that is due is known to somebody who will act on it.
UpdateCovered ==
  Due(Limit(consumed), advertised, received) =>
    \/ permit
    \/ at[Writer] \in {"loadNext", "store", "emit"}
    \/ at[Reader] = "notify"
    \/ \E t \in WindowTasks : WillAnswerDue(t)

=============================================================================
