\* One failed poll.
CONSTANTS
  s1 = s1
  s2 = s2
  p1 = p1
  p2 = p2
  Streams = {s1, s2}
  Prompt = {s1}
  Providers = {p1, p2}
  PollInterval = 2
  RpcBound = 1
SPECIFICATION Spec
INVARIANT StreamIsInfinite
CHECK_DEADLOCK FALSE
