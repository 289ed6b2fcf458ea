CONSTANTS
  w1 = w1
  w2 = w2
  k1 = k1
  k2 = k2
  k3 = k3
  Writers = {w1, w2}
  Keys = {k1, k2, k3}
  BatchOf <- DisjointBatches
  MaxRequests = 2
  Absent = Absent
  NoWriter = NoWriter
SPECIFICATION FairSpec
INVARIANTS
  TypeOK
  FallbackLeavesNothing
  ReplyMatchesIndex
  ObservedKeysStored
PROPERTIES
  IndexOnlyGrows
  RequestsEnd
\* The writers stop after MaxRequests requests.
CHECK_DEADLOCK FALSE
