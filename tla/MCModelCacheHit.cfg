\* A second fetch of one URI after the first, from a node that makes no mistake.
CONSTANTS
  f1 = f1
  f2 = f2
  f3 = f3
  u1 = u1
  u2 = u2
  http = http
  b1 = b1
  b2 = b2
  Fetches = {f1, f2}
  Uris = {u1, u2, http}
  ForeignUris = {http}
  Blobs = {b1, b2}
  NoBlob = NoBlob
  NoUri = NoUri
  Named <- MCNamed
  Chunks = 2
  NodeErrs = FALSE
SPECIFICATION SerialSpec
INVARIANT CachedStaysWhole
CHECK_DEADLOCK FALSE
