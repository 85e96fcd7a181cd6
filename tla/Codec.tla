-------------------------------- MODULE Codec --------------------------------
(***************************************************************************)
(* The bytes of frames: VarInt::encode and decode, Frame::encode and decode   *)
(* (src/muxtls-proto), applied to the frames that Framing's endpoint hands to  *)
(* the transport.  encode, decode and encoded_len are three tables of the      *)
(* same nine layouts, kept by hand.                                          *)
(*                                                                           *)
(* Payload bytes are zeros.  A character of w bytes is w followed by zeros,     *)
(* which keeps what from_utf8 looks at: where characters start and how long     *)
(* they are.  All decoding errors are one value.                              *)
(***************************************************************************)
EXTENDS Framing, Sequences

Error == [type |-> "error"]

\* The n lowest digits of v, the most significant first.
Digits(v, n) == [i \in 1..n |-> (v \div Radix^(n - i)) % Radix]
Number(bytes) ==
  LET value[i \in 0..Len(bytes)] ==
        IF i = 0 THEN 0 ELSE value[i - 1] * Radix + bytes[i]
  IN value[Len(bytes)]

Widths == <<1, 2, 4, 8>>

\* VarInt::encode: the two highest bits of the first byte tell the width.
VarIntEncode(v) ==
  LET tag == IF v < Quarter THEN 0
             ELSE IF v < Quarter * Radix THEN 1
             ELSE IF v < Quarter * Radix^3 THEN 2 ELSE 3
      digits == Digits(v, Widths[tag + 1])
  IN [digits EXCEPT ![1] = tag * Quarter + @]

\* Mutant: the widths are those of the tags, 1 to 4.
VarIntDecodeNarrow(src) ==
  IF src = <<>> THEN [ok |-> FALSE]
  ELSE LET n == src[1] \div Quarter + 1 IN
       IF Len(src) < n THEN [ok |-> FALSE]
       ELSE [ok |-> TRUE, rest |-> SubSeq(src, n + 1, Len(src)),
             value |-> Number([SubSeq(src, 1, n) EXCEPT ![1] = @ % Quarter])]

\* VarInt::decode; a value that would fit in fewer bytes is accepted.
VarIntDecode(src) ==
  IF src = <<>> THEN [ok |-> FALSE]
  ELSE LET n == Widths[src[1] \div Quarter + 1] IN
       IF Len(src) < n THEN [ok |-> FALSE]
       ELSE [ok |-> TRUE, rest |-> SubSeq(src, n + 1, Len(src)),
             value |-> Number([SubSeq(src, 1, n) EXCEPT ![1] = @ % Quarter])]

-----------------------------------------------------------------------------
(* Reasons as text. *)

\* The byte at each position: the width of the character that starts there.
Text(r) ==
  [i \in 1..r.size |->
     IF i - 1 \in r.cuts
     THEN (CHOOSE w \in 1..r.size : /\ i - 1 + w \in r.cuts
                                    /\ \A v \in 1..(w - 1) : i - 1 + v \notin r.cuts)
     ELSE 0]

\* str::from_utf8 accepts whole characters only.
IsText(bytes) ==
  LET starts == {i \in DOMAIN bytes : bytes[i] # 0} IN
  \A i \in DOMAIN bytes :
    IF i \in starts
    THEN /\ i + bytes[i] \in starts \cup {Len(bytes) + 1}
         /\ \A j \in (i + 1)..(i + bytes[i] - 1) : j \notin starts
    ELSE i # 1

ReasonOf(bytes) ==
  [size |-> Len(bytes),
   cuts |-> {i - 1 : i \in {j \in DOMAIN bytes : bytes[j] # 0}} \cup {Len(bytes)}]

-----------------------------------------------------------------------------
(* Frames. *)

\* Frame::encode
Encode(f) ==
  CASE f.type = "stream" ->
         <<0>> \o VarIntEncode(f.id) \o <<IF f.fin THEN 1 ELSE 0>>
           \o VarIntEncode(f.size) \o [i \in 1..f.size |-> 0]
    [] f.type = "reset" -> <<1>> \o VarIntEncode(f.id) \o VarIntEncode(f.code)
    [] f.type = "open" -> <<4>> \o VarIntEncode(f.id)
    [] f.type = "settings" ->
         <<5>> \o VarIntEncode(f.data) \o VarIntEncode(f.stream)
           \o VarIntEncode(f.frame)
    [] f.type = "max_data" -> <<6>> \o VarIntEncode(f.maximum)
    [] f.type = "max_stream_data" ->
         <<7>> \o VarIntEncode(f.id) \o VarIntEncode(f.maximum)
    [] f.type = "stop" -> <<8>> \o VarIntEncode(f.id)
    [] f.type = "ping" -> <<2>>
    [] f.type = "close" ->
         <<3>> \o VarIntEncode(f.code) \o VarIntEncode(f.reason.size)
           \o Text(f.reason)

\* Mutant: bytes after the frame are left for the next.
WholeLenient(f, rest) == f

\* A frame and nothing after it.
Whole(f, rest) == IF rest = <<>> THEN f ELSE Error

\* The payload or reason behind a decoded length.
Take(n) == SubSeq(n.rest, 1, n.value)
Behind(n) == SubSeq(n.rest, n.value + 1, Len(n.rest))

DecodeStream(src) ==
  LET i == VarIntDecode(src) IN
  IF ~i.ok THEN Error
  ELSE IF i.rest = <<>> \/ i.rest[1] \notin {0, 1} THEN Error
  ELSE LET n == VarIntDecode(Tail(i.rest)) IN
       IF ~n.ok THEN Error
       ELSE IF Len(n.rest) < n.value THEN Error
       ELSE Whole([type |-> "stream", id |-> i.value, fin |-> i.rest[1] = 1,
                   size |-> Len(Take(n))], Behind(n))

DecodeClose(src) ==
  LET c == VarIntDecode(src) IN
  IF ~c.ok THEN Error
  ELSE LET n == VarIntDecode(c.rest) IN
       IF ~n.ok THEN Error
       ELSE IF Len(n.rest) < n.value \/ ~IsText(Take(n)) THEN Error
       ELSE Whole([type |-> "close", code |-> c.value,
                   reason |-> ReasonOf(Take(n))], Behind(n))

\* Up to three varints, one after the other.
Varints(src, n) ==
  LET read[i \in 0..n] ==
        IF i = 0 THEN [ok |-> TRUE, rest |-> src, values |-> <<>>]
        ELSE LET before == read[i - 1] IN
             IF ~before.ok THEN before
             ELSE LET v == VarIntDecode(before.rest) IN
                  IF ~v.ok THEN [ok |-> FALSE]
                  ELSE [ok |-> TRUE, rest |-> v.rest,
                        values |-> Append(before.values, v.value)]
  IN read[n]

\* A frame of nothing but varints, in the order of their names.
DecodeNumbers(src, type, names) ==
  LET r == Varints(src, Len(names))
      value(k) == r.values[CHOOSE i \in DOMAIN names : names[i] = k]
  IN IF ~r.ok THEN Error
     ELSE Whole([k \in {"type"} \cup {names[i] : i \in DOMAIN names} |->
                   IF k = "type" THEN type ELSE value(k)], r.rest)

\* Frame::decode
Decode(src) ==
  IF src = <<>> THEN Error
  ELSE LET body == Tail(src) IN
       CASE Head(src) = 0 -> DecodeStream(body)
         [] Head(src) = 1 -> DecodeNumbers(body, "reset", <<"id", "code">>)
         [] Head(src) = 2 -> Whole([type |-> "ping"], body)
         [] Head(src) = 3 -> DecodeClose(body)
         [] Head(src) = 4 -> DecodeNumbers(body, "open", <<"id">>)
         [] Head(src) = 5 ->
              DecodeNumbers(body, "settings", <<"data", "stream", "frame">>)
         [] Head(src) = 6 -> DecodeNumbers(body, "max_data", <<"maximum">>)
         [] Head(src) = 7 ->
              DecodeNumbers(body, "max_stream_data", <<"id", "maximum">>)
         [] Head(src) = 8 -> DecodeNumbers(body, "stop", <<"id">>)
         [] OTHER -> Error

-----------------------------------------------------------------------------
(* Properties. *)

\* RoundTrip: what Frame::encode writes, Frame::decode reads back, and
\* encoded_len, on which every size check rests, is exactly its length.
RoundTrip ==
  frame # NoFrame =>
    LET wire == Encode(frame)
    IN Len(wire) = FrameLen(frame) /\ Decode(wire) = frame

\* Unambiguous: a frame cut short or followed by another byte is an error
\* (PROTOCOL.md:58-59), so no two frames share the bytes of one.
Unambiguous ==
  frame # NoFrame =>
    LET wire == Encode(frame) IN
    /\ \A n \in 0..(Len(wire) - 1) : Decode(SubSeq(wire, 1, n)) = Error
    /\ \A b \in 0..(Radix - 1) : Decode(Append(wire, b)) = Error

=============================================================================
