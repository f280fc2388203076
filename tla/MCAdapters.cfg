\* Two calls of any adapter.
CONSTANTS
  a = a
  b = b
  s1 = s1
  r1 = r1
  r2 = r2
  r3 = r3
  d1 = d1
  d2 = d2
  own = own
  other = other
  did1 = did1
  skill = skill
  name = name
  Unset = Unset
  Garbage = Garbage
  NotUnicode = NotUnicode
  DefaultRetries = 1
  Calls = {a, b}
  Envs <- MCEnvs
  NoConfig = NoConfig
  MaxSends = 2
  Streams = {s1}
  Length = 2
  Usages = {1, 2, 3}
  U32Max = 2
  Receipts = {r1, r2, r3}
  Digest <- MCDigest
  Unserializable = {r3}
  Unreadable = Unreadable
  PublicKeys = {own, other}
  OwnKey = own
  Dids = {did1}
  SkillIds = {skill}
  Names = {name}
  NoName = NoName
  Skills <- MCSkills
  Plans <- MCPlans
SPECIFICATION MCSpec
INVARIANTS TypeOK BlobsAreWhole UnreachedIsTransient DeclinedIsNotServed TokensAreCounted VerifyVouchesForItsKey UnreachableWasAbsent EnvironmentIsObeyed
PROPERTIES CallsReturn CallsWindDown ImplementsRemoteEffect
CHECK_DEADLOCK FALSE
