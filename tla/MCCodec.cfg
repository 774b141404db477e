SPECIFICATION EncoderSpec
CONSTANTS
  Layout <- Schema
  Capacity <- MCCapacity
  Extra <- MCExtra
  Value <- MCValue
  MaxCount = 2
  MaxPuts = 2
  Event <- MCEvent
  CountModulus = 4
CHECK_DEADLOCK FALSE
INVARIANTS
  TypeOK
  InBounds
  RoundTrip
  SnapshotIsWhole
  LengthsAgree
  UnreadableFields
