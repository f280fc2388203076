\* One offer whose request may be accepted twice, and every answer to it.
CONSTANTS
  o1 = o1
  o2 = o2
  a = a
  Offers = {o1}
  NoDeadline = NoDeadline
  DeadlineSecs <- MCDeadlineSecs
  DefaultDeadline = 1
  PollInterval = 1
  RpcBound = 1
  PostAttempts = 2
  Agents = {a}
  NoAgent = NoAgent
  StatusShapes = {"string", "object"}
  LastCall = 0
  MaxClock = 7
SPECIFICATION FairSpec
INVARIANTS TypeOK BoundedWait OutcomeIsMarketTruth NoMissedSettlement
PROPERTIES PollsArePaced OfferReturns ImplementsWorkOffer
CHECK_DEADLOCK FALSE
