SPECIFICATION WindowSpec
CONSTANTS
  Window = 3
  MaxCredit = 5
  MaxPayload = 3
  Consumers = {c1}
  Reader = reader
  Writer = writer
INVARIANTS
  WindowTypeOK
  BoundedBuffer
  NoFalseRejection
  NoLostUpdate
PROPERTIES
  CreditNeverShrinks
  DueCreditIsGranted
