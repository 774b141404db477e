SPECIFICATION Spec
CONSTANTS
  Instrument = {1}
  Listener = {l1, l2}
  User = {u1}
  MaxCalls = 5
CHECK_DEADLOCK FALSE
INVARIANTS
  Isolation
  UnappliedOnlyAfterReset
PROPERTIES
  BusImplemented
  CallsReturn
