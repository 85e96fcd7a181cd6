SPECIFICATION FramingSpec
CONSTANTS
  Radix = 16
  MaxPermits = 536870911
  LimitChoices <- MCLimitChoices
  PeerSizes = {8, 25, 30, 72}
  Ids = {0, 3, 4, 64, 16384}
  Numbers = {1, 63, 16383, 1073741823}
  Reasons <- MCReasons
  Uses = {{"write"}, {"control"}, {"close"}}
INVARIANTS FrameFits RoomForData LargestPayload WritesAreAccepted
           RoundTrip Unambiguous
\* After a close nothing is sent.
CHECK_DEADLOCK FALSE
