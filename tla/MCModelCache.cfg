\* Three fetches at once, of two URIs and one of a foreign scheme, from a node
\* that may hand out the wrong blob.
CONSTANTS
  f1 = f1
  f2 = f2
  f3 = f3
  u1 = u1
  u2 = u2
  http = http
  b1 = b1
  b2 = b2
  Fetches = {f1, f2, f3}
  Uris = {u1, u2, http}
  ForeignUris = {http}
  Blobs = {b1, b2}
  NoBlob = NoBlob
  NoUri = NoUri
  Named <- MCNamed
  Chunks = 2
  NodeErrs = TRUE
SPECIFICATION Spec
INVARIANTS TypeOK WholeUnlessBroken FetchRepairs ContentAddressed
PROPERTIES TruncationOnly
CHECK_DEADLOCK FALSE
