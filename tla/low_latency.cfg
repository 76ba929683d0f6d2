CONSTANTS
  t1 = t1
  t2 = t2
  t3 = t3
  Threads = {t1, t2, t3}
  Sizes = {1, 3}
  Aligns = {1, 2}
  capacity = 8
  MaxAllocs = 3
  p1 = p1
  p2 = p2
  p3 = p3
  a = a
  b = b
  Uninit = Uninit
  Producers = {p1, p2, p3}
  Items = {a, b}
  CAPACITY = 2
  IndexWord = 32
  MaxPushes = 5
  Phased = TRUE
  N = 2
  Word = 4
  Ticks = {i1, i2}
  Zero = Zero
  Torn = Torn
  MaxOffers = 7
  Bits = 8
  Granularity = 2
  Entries = 8
  Elasticity = 3
  Payload = 64
  Baselines = {0, 1, 2, 3, 5, 7, 8, 10, 11, 12, 13, 15, 16, 20, 100, 200, 255}
  Fees = {5, 8, 100, 200}
  Packets <- SamplePackets
  Untouched = Untouched
SYMMETRY LowLatencySymmetry
SPECIFICATION LowLatencySpec
INVARIANTS
  PoolSound
  CriticalPathSound
PROPERTIES
  ImplementsFifo
  RefusedOnlyWhenFull
  RingImplementsFifo
CHECK_DEADLOCK FALSE
