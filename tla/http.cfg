\* Two uses of a client, up to two tries.
SPECIFICATION FairSpec
CONSTANTS
  Lists = {l1, l2}
  MaxUses = 2
  MaxRetries = 2
  Null = Null
INVARIANTS TypeOK RequestFresh HeadersAlive NothingLeaked RetryHonest
PROPERTIES RetryReturns
