SPECIFICATION FairSpec
CONSTANTS
  m1 = m1
  m2 = m2
  m3 = m3
  b1 = b1
  b2 = b2
  p1 = p1
  p2 = p2
  Messages = {m1, m2, m3}
  Readable = {m1, m2}
  Batches = {b1, b2}
  BatchOf <- MCBatchOf
  Partitions = {p1, p2}
  PartitionOf <- MCPartitionOf
  QueueSize = 1
  MaxMishaps = 1
  None = None
CHECK_DEADLOCK FALSE
INVARIANTS
  TypeOK
  LagCoversBacklog
PROPERTIES
  ImplementsDelivery
  EachIsDecided
