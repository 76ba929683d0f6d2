CONSTANTS
  p1 = p1
  p2 = p2
  p3 = p3
  a = a
  b = b
  Uninit = Uninit
  Producers = {p1}
  Items = {a, b}
  CAPACITY = 2
  IndexWord = 32
  MaxPushes = 2
  Phased = FALSE
SYMMETRY ProducerSymmetry
SPECIFICATION QueueSpec
INVARIANT PopsAreItems
CHECK_DEADLOCK FALSE
