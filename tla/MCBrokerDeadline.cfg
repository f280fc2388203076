\* The cap broker.rs documents, against two offers polled a few times.
CONSTANTS
  o1 = o1
  o2 = o2
  a = a
  Offers = {o1, o2}
  NoDeadline = NoDeadline
  DeadlineSecs <- MCDeadlineSecs
  DefaultDeadline = 1
  PollInterval = 2
  RpcBound = 1
  PostAttempts = 1
  Agents = {a}
  NoAgent = NoAgent
  StatusShapes = {"string"}
  LastCall = 0
  MaxClock = 7
SPECIFICATION Spec
INVARIANT DeadlineCapsWait
CHECK_DEADLOCK FALSE
