------------------------------- MODULE Framing -------------------------------
(***************************************************************************)
(* The sizes of frames: VarInt::encoded_len and Frame::encoded_len, the       *)
(* limits an endpoint accepts, the largest payload poll_write cuts off        *)
(* (max_stream_payload, one action per iteration of its search), the part of a *)
(* chunk next_frame puts in one frame, and the CLOSE reason, fitted when the   *)
(* close is initiated and cut again when the frame is taken.                  *)
(*                                                                           *)
(* A frame has two limits to meet: the endpoint's own max_frame_size, at       *)
(* which its codec refuses to encode, and the peer's, at which the peer's      *)
(* codec refuses to decode.  The peer's is known once its SETTINGS arrive.     *)
(* A byte has Radix values, 256 in the code.                                  *)
(***************************************************************************)
EXTENDS Integers

CONSTANTS
  Radix,         \* values of a byte; two bits of the first tag a varint
  MaxPermits,    \* Semaphore::MAX_PERMITS
  LimitChoices,  \* bound: the Limits an application passes
  PeerSizes,     \* bound: max_frame_size values the peer announces
  Ids, Numbers,  \* bound: stream IDs; credit limits and error codes
  Reasons,       \* bound: reasons for a close
  Uses           \* bound: sets of "write", "control", "close"; a behaviour
                 \* does what one set holds

MinFrameSize == 25
U32 == Radix * Radix * Radix * Radix - 1
Quarter == Radix \div 4

LimitFields ==
  {"drain_timeout", "max_frame_size", "max_open_streams",
   "max_queued_outbound_frames", "max_control_frames",
   "max_inbound_connection_bytes", "max_outbound_connection_bytes",
   "max_inbound_stream_bytes", "max_outbound_stream_bytes"}

\* The longest drain_timeout that validate accepts, in seconds.
MaxDrainTimeout == 3600

\* The limits that go through validate_byte_limit, and those that go through
\* validate_semaphore, which it calls.
ByteFields ==
  {"max_inbound_connection_bytes", "max_outbound_connection_bytes",
   "max_inbound_stream_bytes", "max_outbound_stream_bytes"}
PermitFields ==
  {"max_open_streams", "max_queued_outbound_frames", "max_control_frames"}
    \cup ByteFields

\* A reason is its length in bytes and the positions between its characters.
IsReason(r) ==
  /\ r.size \in Nat /\ r.cuts \subseteq 0..r.size
  /\ 0 \in r.cuts /\ r.size \in r.cuts

ASSUME FramingAssumption ==
  /\ Radix \in Nat /\ Radix >= 4 /\ MaxPermits \in Nat
  /\ LimitChoices \subseteq [LimitFields -> Nat]
  /\ PeerSizes \subseteq Nat
  /\ Ids \subseteq Nat /\ Numbers \subseteq Nat
  /\ \A r \in Reasons : IsReason(r)

VARIABLES
  limits,     \* the endpoint's Limits
  peer,       \* the peer's max_frame_size
  peerMax,    \* peer_max_frame: what the endpoint knows of it
  settings,   \* peer_settings
  stage,      \* of a write: "idle", "search", "found", "queued" or an error
  id,         \* its stream
  low, high,  \* the search of max_stream_payload
  left,       \* bytes of the chunk not yet sent
  close,      \* "no", "set", "trim", "done": the close frame
  code, reason, end,  \* of the close frame; end: where the reason is cut
  frame,      \* the frame handed to the transport
  uses        \* what this behaviour does

conn == <<limits, peer, peerMax, settings, uses>>
write == <<stage, id, low, high, left>>
closing == <<close, code, reason, end>>
framingVars == <<conn, write, closing, frame>>

NoFrame == [type |-> "none"]
Empty == [size |-> 0, cuts |-> {0}]
\* "connection error"
Fallback == [size |-> 16, cuts |-> 0..16]

-----------------------------------------------------------------------------
(* Sizes. *)

\* VarInt::encoded_len
EncodedLen(v) ==
  IF v < Quarter THEN 1
  ELSE IF v < Quarter * Radix THEN 2
  ELSE IF v < Quarter * Radix * Radix * Radix THEN 4
  ELSE 8

StreamLen(i, n) == 1 + EncodedLen(i) + 1 + EncodedLen(n) + n
CloseLen(c, n) == 1 + EncodedLen(c) + EncodedLen(n) + n

\* Frame::encoded_len
FrameLen(f) ==
  CASE f.type = "stream" -> StreamLen(f.id, f.size)
    [] f.type = "reset" -> 1 + EncodedLen(f.id) + EncodedLen(f.code)
    [] f.type \in {"open", "stop"} -> 1 + EncodedLen(f.id)
    [] f.type = "settings" -> 1 + EncodedLen(f.data) + EncodedLen(f.stream)
                                + EncodedLen(f.frame)
    [] f.type = "max_data" -> 1 + EncodedLen(f.maximum)
    [] f.type = "max_stream_data" ->
         1 + EncodedLen(f.id) + EncodedLen(f.maximum)
    [] f.type = "ping" -> 1
    [] f.type = "close" -> CloseLen(f.code, f.reason.size)
    [] OTHER -> 0

\* Mutant: any positive frame size is accepted.
ValidAnyFrameSize(l) ==
  /\ l.max_frame_size \in 1..U32
  /\ l.max_outbound_stream_bytes \in 1..U32

\* Limits::validate
Valid(l) ==
  /\ l.drain_timeout \in 1..MaxDrainTimeout
  /\ l.max_frame_size \in MinFrameSize..U32
  /\ \A f \in PermitFields : l[f] \in 1..MaxPermits
  /\ l.max_queued_outbound_frames >= l.max_open_streams
  /\ l.max_control_frames >= 3 * l.max_open_streams + 2
  /\ \A f \in ByteFields : l[f] <= U32
  /\ l.max_inbound_stream_bytes <= l.max_inbound_connection_bytes
  /\ l.max_outbound_stream_bytes <= l.max_outbound_connection_bytes

SettingsFrame(l) ==
  [type |-> "settings", data |-> l.max_inbound_connection_bytes,
   stream |-> l.max_inbound_stream_bytes, frame |-> l.max_frame_size]

\* Connection::new on limits it accepts; SETTINGS is the first frame.
FramingInit ==
  /\ limits \in LimitChoices /\ Valid(limits)
  /\ peer \in PeerSizes /\ peerMax = MinFrameSize /\ settings = FALSE
  /\ stage = "idle" /\ id = 0 /\ low = 0 /\ high = 0 /\ left = 0
  /\ close = "no" /\ code = 0 /\ reason = Empty /\ end = 0
  /\ frame = SettingsFrame(limits)
  /\ uses \in Uses

-----------------------------------------------------------------------------
(* A write of the AsyncWrite interface. *)

Smaller(a, b) == IF a < b THEN a ELSE b

\* poll_write asks max_stream_payload.
StartSearch(i) ==
  /\ stage = "idle"
  /\ id' = i /\ low' = 0 /\ high' = Smaller(limits.max_frame_size, U32)
  /\ stage' = "search"
  /\ UNCHANGED <<conn, left, closing, frame>>

\* Mutant: the length field is taken for one byte.
SearchShortHeader ==
  /\ stage = "search" /\ low < high
  /\ LET middle == low + (high - low + 1) \div 2 IN
     IF 3 + EncodedLen(id) + middle <= limits.max_frame_size
     THEN low' = middle /\ UNCHANGED high
     ELSE high' = middle - 1 /\ UNCHANGED low
  /\ UNCHANGED <<conn, stage, id, left, closing, frame>>

Search ==
  /\ stage = "search" /\ low < high
  /\ LET middle == low + (high - low + 1) \div 2 IN
     IF StreamLen(id, middle) <= limits.max_frame_size
     THEN low' = middle /\ UNCHANGED high
     ELSE high' = middle - 1 /\ UNCHANGED low
  /\ UNCHANGED <<conn, stage, id, left, closing, frame>>

\* A chunk of n bytes is cut off the caller's buffer.
CutChunk(n) ==
  /\ stage = "search" /\ low = high
  /\ IF Smaller(low, limits.max_outbound_stream_bytes) = 0
     THEN stage' = "invalid" /\ UNCHANGED left
     ELSE /\ n \in {1, Smaller(low, limits.max_outbound_stream_bytes)}
          /\ stage' = "found" /\ left' = n
  /\ low' = 0 /\ high' = 0
  /\ UNCHANGED <<conn, id, closing, frame>>

\* queue_stream_chunk's checks of the size.
QueueChunk ==
  /\ stage = "found"
  /\ stage' = IF /\ StreamLen(id, left) <= limits.max_frame_size
                 /\ left <= limits.max_outbound_stream_bytes
              THEN "queued" ELSE "refused"
  /\ UNCHANGED <<conn, id, low, high, left, closing, frame>>

-----------------------------------------------------------------------------
(* The writer task. *)

Capacity(i) == peerMax - 2 - EncodedLen(i)

\* Mutant: the length field is taken for one byte.
RoomShortHeader(i) == Capacity(i) - 1

\* Payload bytes that fit in one frame, whatever their own length field needs.
Room(i) == Capacity(i) - EncodedLen(Capacity(i))

\* next_frame takes what fits; the last frame of a FIN chunk carries the FIN.
NextData(fin) ==
  /\ stage = "queued" /\ settings /\ frame = NoFrame /\ close # "done"
  /\ LET count == Smaller(left, Room(id)) IN
     /\ frame' = [type |-> "stream", id |-> id, size |-> count,
                  fin |-> fin /\ count = left]
     /\ left' = left - count
     /\ stage' = IF count = left THEN "idle" ELSE "queued"
  /\ UNCHANGED <<conn, id, low, high, closing>>

ControlFrames ==
  [type : {"open", "stop"}, id : Ids]
    \cup [type : {"reset"}, id : Ids, code : Numbers]
    \cup [type : {"max_data"}, maximum : Numbers]
    \cup [type : {"max_stream_data"}, id : Ids, maximum : Numbers]
    \cup {[type |-> "ping"]}

NextControl(f) ==
  /\ frame = NoFrame /\ close # "done"
  /\ frame' = f
  /\ UNCHANGED <<conn, write, closing>>

\* sink.send
Sent ==
  /\ frame # NoFrame /\ frame' = NoFrame
  /\ UNCHANGED <<conn, write, closing>>

-----------------------------------------------------------------------------
(* CONNECTION_CLOSE. *)

\* validate_close_reason
ReasonFits(c, r) == CloseLen(c, r.size) <= limits.max_frame_size

\* initiate_close with fit_close_reason.
SetClose(c, r) ==
  /\ close = "no"
  /\ close' = "set" /\ code' = c
  /\ reason' = IF ReasonFits(c, r) THEN r
               ELSE IF ReasonFits(c, Fallback) THEN Fallback ELSE Empty
  /\ UNCHANGED end

InitiateCloseWith(c, r) ==
  /\ SetClose(c, r)
  /\ UNCHANGED <<conn, write, frame>>

\* Mutant: any maximum is taken from the peer.
RecvSettingsUnchecked ==
  /\ ~settings
  /\ settings' = TRUE /\ peerMax' = peer
  /\ UNCHANGED <<limits, peer, uses, write, closing, frame>>

\* The peer's SETTINGS; an invalid maximum is a protocol error.
RecvSettings ==
  /\ ~settings
  /\ IF peer \in MinFrameSize..U32
     THEN settings' = TRUE /\ peerMax' = peer /\ UNCHANGED closing
     ELSE /\ UNCHANGED <<settings, peerMax>>
          /\ \E r \in Reasons : SetClose(1, r)
  /\ UNCHANGED <<limits, peer, uses, write, frame>>

\* take_close_frame: room for the reason behind the largest header, ...
TakeClose ==
  /\ close = "set" /\ frame = NoFrame
  /\ close' = "trim"
  /\ end' = Smaller(reason.size, peerMax - (1 + EncodedLen(code) + 8))
  /\ UNCHANGED <<conn, write, code, reason, frame>>

\* ... and then back to a character boundary.
Trim ==
  /\ close = "trim" /\ end \notin reason.cuts
  /\ end' = end - 1
  /\ UNCHANGED <<conn, write, close, code, reason, frame>>

TakenClose ==
  /\ close = "trim" /\ end \in reason.cuts
  /\ close' = "done"
  /\ frame' = [type |-> "close", code |-> code,
               reason |-> [size |-> end, cuts |-> reason.cuts \cap 0..end]]
  /\ UNCHANGED <<conn, write, code, reason, end>>

-----------------------------------------------------------------------------
FramingNext ==
  \/ RecvSettings
  \/ "write" \in uses /\ \E i \in Ids : StartSearch(i)
  \/ Search
  \/ \E n \in 1..limits.max_frame_size : CutChunk(n)
  \/ QueueChunk
  \/ \E fin \in BOOLEAN : NextData(fin)
  \/ "control" \in uses /\ \E f \in ControlFrames : NextControl(f)
  \/ Sent
  \/ "close" \in uses /\ \E c \in {0, 1}, r \in Reasons : InitiateCloseWith(c, r)
  \/ TakeClose \/ Trim \/ TakenClose

FramingSpec == FramingInit /\ [][FramingNext]_framingVars

-----------------------------------------------------------------------------
(* Properties. *)

\* FrameFits: no frame exceeds what the endpoint's own codec encodes or what the
\* peer's codec decodes, SETTINGS and CLOSE sent before the peer's SETTINGS
\* included (PROTOCOL.md:54-56).
FrameFits ==
  /\ FrameLen(frame) <= limits.max_frame_size
  /\ peer >= MinFrameSize => FrameLen(frame) <= peer

\* RoomForData: max_frame - 2 - encoded_len and capacity - header in next_frame
\* do not wrap, and every frame of a chunk carries a byte.
RoomForData == \A i \in Ids : Room(i) >= 1

\* LargestPayload: the search of max_stream_payload ends with the largest payload
\* whose frame fits, although the length field grows with the payload.
LargestPayload ==
  stage = "search" /\ low = high =>
    \A n \in 0..limits.max_frame_size :
      n <= low <=> StreamLen(id, n) <= limits.max_frame_size

\* WritesAreAccepted: poll_write, which reports bytes as written before they are
\* queued, never cuts a chunk that queue_stream_chunk refuses for its size, nor
\* finds that no payload fits.
WritesAreAccepted == stage \notin {"invalid", "refused"}

=============================================================================
