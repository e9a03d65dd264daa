SPECIFICATION FairSpec
CONSTANTS
  Size = 7
  MaxItem = 2
  SeqRange = 16
  Payloads = {1, 3}
  Readers = {r1}
  MaxMsgs = 5
INVARIANTS
  ReservationDisjoint
  LiveIntact
  PositionGenuine
  HeaderSound
  VerifiedCopyIntact
PROPERTIES
  DeliveryInOrder
  RefinesLog
  ReserveReturns
  ShutdownSeen
  DeadWriterDrained
