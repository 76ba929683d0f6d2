CONSTANTS
  Bits = 8
  Granularity = 2
  Entries = 8
  Elasticity = 3
  Payload = 64
  Baselines = {200}
  Fees = {5, 8, 100, 200}
  Packets <- SamplePackets
  Untouched = Untouched
SPECIFICATION PathSpec
INVARIANTS
  InputIsExact
CHECK_DEADLOCK FALSE
