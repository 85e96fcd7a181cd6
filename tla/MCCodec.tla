------------------------------- MODULE MCCodec -------------------------------
(* The instance of Codec that TLC checks: bytes of four bits, with varints of  *)
(* up to 4, 64, 16384 and 2^30 values in 1, 2, 4 and 8 bytes.                  *)
EXTENDS Codec

\* One fixed set of budgets; frame sizes around the length field's steps.
MCLimits(size, budget) ==
  [drain_timeout |-> 5, max_frame_size |-> size, max_open_streams |-> 2,
   max_queued_outbound_frames |-> 4, max_control_frames |-> 8,
   max_inbound_connection_bytes |-> 20000, max_inbound_stream_bytes |-> 60,
   max_outbound_connection_bytes |-> 90, max_outbound_stream_bytes |-> budget]

MCLimitChoices ==
  {MCLimits(size, budget) : size \in {8, 25, 26, 71, 73}, budget \in {3, 90}}

\* Characters of one byte, and of three bytes each.
MCReasons ==
  {[size |-> n, cuts |-> 0..n] : n \in {0, 4}}
    \cup {[size |-> 3 * n, cuts |-> {3 * k : k \in 0..n}] : n \in {7, 21}}

=============================================================================
