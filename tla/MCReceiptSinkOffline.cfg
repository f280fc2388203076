\* A link that comes back, and a caller that leaves the replay to the sink.
CONSTANTS
  r1 = r1
  r2 = r2
  r3 = r3
  m1 = m1
  m2 = m2
  c1 = c1
  c2 = c2
  j1 = j1
  j2 = j2
  j3 = j3
  k1 = k1
  k2 = k2
  Callers = {c1}
  Messages = {m1, m2}
  Jtis = {j1, j2}
  Keys = {k1, k2}
  BoundKey = k1
  Receipts = {r1}
  Digest <- MCDigest
  Unserializable = {}
  NoReceipt = NoReceipt
  NoCall = NoCall
  CallerReplays = FALSE
  SeedKept = TRUE
  MaxRestarts = 0
SPECIFICATION FairSpec
PROPERTY QueuedAndFlushed
CHECK_DEADLOCK FALSE
