\* Two callers share the client; one restart with the seed kept; the caller
\* replays.  r3 cannot be serialised.
CONSTANTS
  r1 = r1
  r2 = r2
  r3 = r3
  m1 = m1
  m2 = m2
  c1 = c1
  c2 = c2
  j1 = j1
  j2 = j2
  j3 = j3
  k1 = k1
  k2 = k2
  Callers = {c1, c2}
  Messages = {m1, m2}
  Jtis = {j1, j2}
  Keys = {k1, k2}
  BoundKey = k1
  Receipts = {r1, r2, r3}
  Digest <- MCDigest
  Unserializable = {r3}
  NoReceipt = NoReceipt
  NoCall = NoCall
  CallerReplays = TRUE
  SeedKept = TRUE
  MaxRestarts = 1
SPECIFICATION FairSpec
INVARIANTS TypeOK AckedIsLogged OnlyUnsendableDropped RetryIsAccepted
PROPERTIES EventuallyAnchored ImplementsReceiptLog
CHECK_DEADLOCK FALSE
